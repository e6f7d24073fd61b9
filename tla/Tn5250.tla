------------------------------- MODULE Tn5250 -------------------------------
(***************************************************************************)
(* A 5250 display session: the host sends records, the operator (or a      *)
(* client of the proxy) types, moves and answers.  Each action is one turn *)
(* of the event loop: a record from the socket (TN5250Handler.onRecord), a *)
(* call of sendText(), sendKey(), setCursor() or eraseEOF().  The engine   *)
(* does not look at the keyboard lock, so all of them may come in any      *)
(* order.                                                                  *)
(***************************************************************************)
EXTENDS DataStream, Keyboard

CONSTANTS
    Records,      \* the records the host may send
    Texts,        \* what is typed in one call
    Keys,         \* the keys that are pressed
    Attentions,   \* the AID keys that are pressed
    Rows, Cols,   \* the dimensions of the terminal
    MaxRecords,   \* bound: records of a connection
    MaxEvents     \* bound: records and inputs of a connection

ASSUME SizeAssumption == {Rows, Cols, MaxScreenStack, MaxWindows} \subseteq Nat \ {0}
ASSUME RecordsAssumption == Records \subseteq HostRecords
ASSUME TextsAssumption == Texts \subseteq Seq(STRING)
ASSUME KeysAssumption ==
    Keys \subseteq {"left", "right", "up", "down", "Tab", "Backtab", "Home", "End", "Insert",
                    "Backspace", "Delete", "EraseEOF", "FieldExit", "Reset"}
ASSUME NoneAssumption == None \notin Spots \cup Nat

VARIABLES
    parser,       \* the parser and the screen (see DataStream)
    park,         \* filledParkAt
    answer,       \* the answer the last step sent, None if it sent none
    records, inputs,
    \* History, which only the properties read
    painted,      \* the cells as the host or a Reset last left them
    deleted,      \* the fields whose deletions went unflagged since the host wrote
    under,        \* the screen the popups cover, None if there is none
    overrun       \* whether an input field ever ran past the end of the screen

vars == <<parser, park, answer, records, inputs, painted, deleted, under, overrun>>

screen == parser.s
terminal == [s |-> screen, park |-> park]

FieldType ==
    [row : Nat, col : Nat, len : Nat, input : BOOLEAN, mdt : BOOLEAN,
     synthetic : BOOLEAN, attr : Attributes, cont : Continuations, reseq : Nat,
     fer : BOOLEAN, signed : BOOLEAN, adjust : Adjustments]

TypeOK ==
    /\ \A i \in DOMAIN screen.fields : screen.fields[i] \in FieldType
    /\ 0 .. Size(screen) - 1 \subseteq DOMAIN screen.buf
    /\ Len(screen.stack) <= MaxScreenStack
    /\ Len(screen.windows) <= MaxWindows
    /\ screen.locked \in BOOLEAN /\ screen.insert \in BOOLEAN
    /\ park \in Nat \cup {None}

Init ==
    /\ parser = FreshParser(Rows, Cols)
    /\ park = None
    /\ answer = None
    /\ records = 0 /\ inputs = 0
    /\ painted = parser.s.buf
    /\ deleted = {}
    /\ under = None
    /\ overrun = FALSE

\* The cells a step changes
Changed == {a \in 0 .. Size(screen) - 1 : screen'.buf[a] # screen.buf[a]}

\* The field whose flag and text the host gets for field i: the first part of its
\* group, and i itself if it is not a later part or its group has no first one
Leader(i) ==
    IF screen.fields[i].cont \in {"middle", "last"} /\ GroupFirsts(screen, i) # {}
    THEN Max(GroupFirsts(screen, i))
    ELSE i

\* An input field that does not end on the screen
RunsPast(s) == \E i \in InputFields(s) : End(s, s.fields[i]) > Size(s)

\* What the popups cover once r has arrived: the screen before the first SAVE,
\* unless so many are nested that its frame is dropped
CoveredAfter(r) ==
    CASE r.op = "SAVE" /\ screen.stack = <<>> ->
            [buf |-> screen.buf, fields |-> screen.fields, cursor |-> screen.cursor]
      [] r.op = "SAVE" /\ Len(screen.stack) >= MaxScreenStack -> None
      [] r.op = "RESTORE" /\ Len(screen.stack) <= 1 -> None
      [] OTHER -> under

\* What the host sees to, and the program does not check: it sizes the screen
\* before it saves it (a saved screen of another size would be put back, or under
\* a popup, as it is), and its windows fit on it
KeptByHost(s) ==
    /\ \A k \in DOMAIN s.stack : DOMAIN s.stack[k].buf = 0 .. Size(s) - 1
    /\ \A k \in DOMAIN s.windows :
          /\ s.windows[k].row + s.windows[k].height < s.rows
          /\ s.windows[k].col + s.windows[k].width < s.cols

\* onRecord(), up to the emit
HostSends(r) ==
    /\ records < MaxRecords /\ records + inputs < MaxEvents
    /\ records' = records + 1 /\ UNCHANGED inputs
    /\ parser' = Received(parser, r)
    /\ KeptByHost(parser'.s)
    /\ park' = IF Modifies(r) THEN None ELSE park
    /\ answer' = None
    /\ painted' = IF Modifies(r) THEN parser'.s.buf ELSE painted
    /\ deleted' = IF Modifies(r) THEN {} ELSE deleted
    /\ under' = CoveredAfter(r)
    /\ overrun' = (overrun \/ RunsPast(parser'.s))

\* One input leaves the terminal as t
Input(t) ==
    /\ records + inputs < MaxEvents
    /\ inputs' = inputs + 1
    /\ parser' = [parser EXCEPT !.s = t.s]
    /\ park' = t.park
    /\ UNCHANGED <<under, overrun, records>>

\* sendText()
TypeText(text, advance) ==
    /\ Input(InsertText(terminal, text, advance))
    /\ answer' = None
    /\ UNCHANGED <<painted, deleted>>

\* Backspace, Delete and Erase EOF flag the field they change, and not, as typing
\* does, the first of its group: the fields they change for which another's flag
\* stands
DeletingKeys == {"Backspace", "Delete", "EraseEOF"}

DeletedFrom ==
    {i \in InputFields(screen) :
        Leader(i) # i /\ Changed \cap Cells(screen, screen.fields[i]) # {}}

\* sendKey() and eraseEOF(), the keys the terminal keeps to itself
Press(key) ==
    /\ Input(CASE key \in {"left", "right", "up", "down"} -> ArrowKey(terminal, key)
               [] key = "Tab" -> TabKey(terminal, TRUE)
               [] key = "Backtab" -> TabKey(terminal, FALSE)
               [] key = "Home" -> HomeKey(terminal)
               [] key = "End" -> EndKey(terminal)
               [] key = "Insert" -> InsertKey(terminal)
               [] key = "Backspace" -> BackspaceKey(terminal)
               [] key = "Delete" -> DeleteKey(terminal)
               [] key = "EraseEOF" -> EraseEOF(terminal)
               [] key = "FieldExit" -> FieldExitKey(terminal))
    /\ answer' = None
    /\ deleted' = IF key \in DeletingKeys THEN deleted \cup DeletedFrom ELSE deleted
    /\ UNCHANGED painted

PressReset ==
    /\ "Reset" \in Keys
    /\ Input(ResetKey(terminal))
    /\ painted' = [a \in DOMAIN parser'.s.buf |->
                      IF parser'.s.buf[a] = screen.buf[a] THEN painted[a] ELSE parser'.s.buf[a]]
    /\ answer' = None
    /\ UNCHANGED deleted

\* setCursor()
PlaceCursor(row, col) ==
    /\ Input(SetCursor(terminal, row, col))
    /\ answer' = None
    /\ UNCHANGED <<painted, deleted>>

\* sendKey(), the keys that answer the host
PressAid(key) ==
    /\ Input(AidKey(terminal, key))
    /\ answer' = Answer(screen, key)
    /\ UNCHANGED <<painted, deleted>>

\* TN5250Handler.connect() on a handler that was connected before: the screen has
\* the terminal's dimensions again, the park stays
Reconnect ==
    /\ records # 0
    /\ parser' = FreshParser(Rows, Cols)
    /\ answer' = None
    /\ records' = 0 /\ inputs' = 0
    /\ painted' = parser'.s.buf
    /\ deleted' = {}
    /\ under' = None
    /\ overrun' = FALSE
    /\ UNCHANGED park

Next ==
    \/ \E r \in Records : HostSends(r)
    \/ \E text \in Texts, advance \in BOOLEAN : TypeText(text, advance)
    \/ \E key \in Keys \ {"Reset"} : Press(key)
    \/ PressReset
    \/ \E i \in DOMAIN screen.fields :
          PlaceCursor(screen.fields[i].row, screen.fields[i].col + 1)
    \/ \E key \in Attentions : PressAid(key)
    \/ Reconnect

Spec == Init /\ [][Next]_vars

-----------------------------------------------------------------------------
\* The cells of the fields an operator can type into
InputCells(s) == UNION {Cells(s, s.fields[i]) : i \in InputFields(s)}

(* No write ever lands past the end of the screen, although setFieldValue, *)
(* the erasing of CC1, Delete, Erase EOF and typing do not check: the      *)
(* fields they write to fit, and start on it.                              *)
NoCellBeyondScreen ==
    /\ DOMAIN screen.buf = 0 .. Size(screen) - 1
    /\ InputCells(screen) \subseteq DOMAIN screen.buf
    /\ \A i \in InputFields(screen) : OnScreen(screen, screen.fields[i])

(* The cursor is on the screen.                                            *)
CursorOnScreen == OnScreen(screen, screen.cursor)

(* What a Reset puts back fits the screen it is put back on: the cursor of *)
(* before the error message, and the cells the message covers.             *)
ErrorFitsScreen ==
    /\ screen.errorCursor # None => OnScreen(screen, screen.errorCursor)
    /\ screen.msgLine # None => DOMAIN screen.msgLine.text \subseteq DOMAIN screen.buf

(* Fields an operator can type into share no cell.                         *)
InputFieldsApart ==
    \A i, j \in InputFields(screen) :
        i # j => Cells(screen, screen.fields[i]) \cap Cells(screen, screen.fields[j]) = {}

\* The field differs from what the host painted
Differs(i) == \E a \in Cells(screen, screen.fields[i]) : screen.buf[a] # painted[a]

(* What differs in an input field from what the host painted is flagged    *)
(* where the read looks for the flag: on the field or, for the middle and  *)
(* the last part of a continued group, on its first part.  The exception   *)
(* is exact: parts of which Backspace, Delete or Erase EOF took something  *)
(* away, for these flag the part itself (tn5250-handler.ts:390, :405).     *)
EditsAreMarked ==
    \A i \in InputFields(screen) :
        Differs(i) => screen.fields[Leader(i)].mdt \/ i \in deleted

(* Typing and Field Exit, whose writes go through setFieldMdt(), flag a    *)
(* continued group on its first part.                                      *)
TypingMarksTheGroup ==
    [][(\/ \E text \in Texts, advance \in BOOLEAN : TypeText(text, advance)
        \/ Press("FieldExit")) =>
        \A i \in InputFields(screen) :
            Changed \cap Cells(screen, screen.fields[i]) # {} =>
                screen'.fields[Leader(i)].mdt]_vars

(* Nothing the operator does, Reset apart, changes a protected cell: not   *)
(* the shift of insert mode, nor a Delete, nor a right-adjust, nor text    *)
(* that runs past its field.                                               *)
EditsStayInFields ==
    [][inputs' > inputs /\ ~PressReset => Changed \subseteq InputCells(screen)]_vars

\* The cells that text from the cursor on runs through before it comes round
\* to where it started
Room(s) ==
    InputCells(s) \ (Start(s, s.fields[EntryField(s)]) .. Offset(s, s.cursor) - 1)

(* Text that is reported placed is on the screen, each character in a cell *)
(* of its own, unless it is longer than what it runs through: text that    *)
(* runs past a field never overwrites its last cell.                       *)
PlacedTextIsThere ==
    [][\A text \in Texts, advance \in BOOLEAN :
        TypeText(text, advance) /\ Places(terminal, text, advance)
            /\ Len(text) <= Cardinality(Room(screen)) =>
            \E cell \in [DOMAIN text -> InputCells(screen)] :
                \A k, l \in DOMAIN text :
                    /\ screen'.buf[cell[k]] = text[k]
                    /\ k # l => cell[k] # cell[l]]_vars

(* Typing never leaves a field that must be left by a Field Exit or whose  *)
(* last cell is a sign.                                                    *)
TypingStaysBehindFieldExit ==
    [][(\E text \in Texts, advance \in BOOLEAN : TypeText(text, advance)) =>
        \A i \in DOMAIN screen.fields :
            i = EntryField(screen) /\ (screen.fields[i].fer \/ screen.fields[i].signed) =>
                Changed \subseteq Cells(screen, screen.fields[i])]_vars

(* Backtab goes back to where Tab came from, in resequenced formats too.   *)
BacktabUndoesTab ==
    \A i \in InputFields(screen) :
        LET next == AdjacentInputField(screen, Start(screen, screen.fields[i]), TRUE)
        IN  AdjacentInputField(screen, Start(screen, screen.fields[next]), FALSE) = i

(* Addresses are relative to a window only while there is one.             *)
NoOffsetWithoutWindow == screen.windows = <<>> => parser.win = Home

(* A popup leaves no trace: the RESTORE_SCREEN that takes the last one off *)
(* gives back the cells, the fields and (in a field) the cursor of the     *)
(* screen it was put on, whatever was painted, typed and saved in       *)
(* between.                                                                *)
PopupLeavesNoTrace ==
    [][\A r \in Records :
        r.op = "RESTORE" /\ r.cmds = <<>> /\ Len(screen.stack) = 1 /\ under # None
            /\ HostSends(r) =>
                /\ screen'.buf = under.buf
                /\ screen'.fields = under.fields
                /\ FieldAt(screen', Offset(screen', under.cursor)) # 0 =>
                      screen'.cursor = under.cursor]_vars

\* A record that gives the keyboard back by itself, or starts a new screen
Releases(r) ==
    \/ r.op = "RESTORE"
    \/ \E i \in DOMAIN r.cmds :
          \/ r.cmds[i].c = "CLEAR_UNIT"
          \/ r.cmds[i].c \in {"WTD", "READ"} /\ "unlock" \in r.cmds[i].cc2

(* While an error message is up, a read does not give the keyboard back.   *)
ErrorHoldsKeyboard ==
    [][\A r \in Records :
        screen.locked /\ screen.errorCursor # None /\ ~Releases(r) /\ HostSends(r) =>
            screen'.locked]_vars

(* What the operator changed reaches the host: an AID key that sends data  *)
(* answers, for every input field that is not as the host painted it, with *)
(* that field or with the first of its group, whose text has the text of   *)
(* all its parts.  Two kinds of edits do not reach it, by the code: what   *)
(* Backspace, Delete or Erase EOF took away from a later part of a group   *)
(* of which nothing else was edited, although screen.ts:497-500 and        *)
(* encoder.ts:135-138 say the flag propagates to the first; and edits of a *)
(* part whose group has no first part (encoder.ts:139).                    *)
EditsReachTheHost ==
    [][\A key \in Attentions :
        PressAid(key) /\ SendsData(screen, key) /\ key \notin InterruptKeys \cup SideKeys =>
            \A i \in InputFields(screen) :
                LET first == screen.fields[Leader(i)]
                IN  /\ Differs(i) /\ first.input /\ first.cont \in {"no", "first"}
                    /\ i \notin deleted \/ first.mdt
                    => \E k \in DOMAIN answer'.fields :
                            Place(answer'.fields[k]) = Place(first)]_vars

(* The format the keyboard works on is sound: every write fits the screen, *)
(* the cursor is on it and so is what a Reset puts back, input fields are  *)
(* apart, and Tab has a way back.                                          *)
FormatIsSound ==
    NoCellBeyondScreen /\ CursorOnScreen /\ ErrorFitsScreen /\ InputFieldsApart /\ BacktabUndoesTab

(* What is edited is flagged where the read looks for the flag and is in   *)
(* the answer, in every field and in every part of a continued one, but    *)
(* for the two kinds of edits that EditsReachTheHost names.                *)
EditsAreAnswered == []EditsAreMarked /\ TypingMarksTheGroup /\ EditsReachTheHost

(* What is typed goes where the operator may type, one cell a character,   *)
(* and leaves a field only if the host lets it.                            *)
TypingIsConfined == EditsStayInFields /\ PlacedTextIsThere /\ TypingStaysBehindFieldExit

(* Popups, windows and rolls leave every part of the screen in its range   *)
(* and no offset of a window that is gone.  As long as no input field ran  *)
(* past the end of the screen, the cursor stays on it, through windows,    *)
(* restores, error messages and keys that wrap, and so does what a Reset   *)
(* puts back; in such a field, End and typing take the cursor off          *)
(* (tn5250-handler.ts:299-307, encoder.ts:584).                            *)
PlacesAreSound ==
    /\ TypeOK /\ NoOffsetWithoutWindow
    /\ ~overrun => CursorOnScreen /\ ErrorFitsScreen
=============================================================================
