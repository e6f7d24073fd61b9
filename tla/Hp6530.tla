------------------------------- MODULE Hp6530 -------------------------------
(***************************************************************************)
(* An HP 6530 session: hp6530/parser.ts, screen.ts and encoder.ts behind   *)
(* protocols/hp6530-handler.ts.  A cell has a character and a protection;  *)
(* a field is a run of cells of one protection, from the first cell to the *)
(* last.  A byte is a string, a number stands for its digits.  Display     *)
(* attributes are left out, but the sequences that set them are not.  The  *)
(* handler's connect() leaves the screen and the parser as they are.       *)
(***************************************************************************)
EXTENDS Integers, Sequences, FiniteSets, FiniteSetsExt, SequencesExt

CONSTANTS
    Rows, Cols,
    TabWidth,     \* 8 in the code
    Numbers,      \* the numbers in parameters, [text -> value]
    Chunks,       \* what the host may send at a time
    Texts,        \* what is typed in one call
    MaxEvents     \* bound: chunks and inputs

\* Digits end no sequence
NumbersAreDigits == \A d \in DOMAIN Numbers : d \notin {";", "H", "J", "K"}

\* What the constants stand for: chunks and texts are sequences of characters, and what
\* Numbers reads is digits
Parameters ==
    /\ Rows \in Nat \ {0} /\ Cols \in Nat \ {0} /\ TabWidth \in Nat \ {0}
    /\ Numbers \in [DOMAIN Numbers -> Nat] /\ NumbersAreDigits
    /\ Chunks \subseteq Seq(STRING) /\ Texts \subseteq Seq(STRING)

VARIABLES
    screen,    \* the screen and the parser
    answer,    \* what the last key sent
    typed,     \* history: the cells where text was typed since the host last wrote
    events     \* chunks and inputs so far

vars == <<screen, answer, typed, events>>

Missing == -1  \* a parameter without digits
Blank == " "
Size == Rows * Cols
Addresses == 0 .. Size - 1
Address(row, col) == row * Cols + col
Here(t) == Address(t.row, t.col)

PowerOn ==
    [ch |-> [a \in Addresses |-> Blank], prot |-> [a \in Addresses |-> FALSE],
     row |-> 0, col |-> 0, protecting |-> FALSE, fields |-> <<>>,
     state |-> "normal", params |-> <<>>]      \* of the parser

-----------------------------------------------------------------------------
(* The screen. *)

\* The first cells of the runs of one protection
Starts(t) == {a \in Addresses : a = 0 \/ t.prot[a] # t.prot[a - 1]}

\* The k-th of the numbers in I
Nth(I, k) == CHOOSE i \in I : Cardinality({j \in I : j < i}) = k - 1

FieldsOf(t) ==
    LET run(a) == [start |-> a, len |-> Min({b \in Starts(t) \cup {Size} : b > a}) - a,
                   prot |-> t.prot[a], modified |-> FALSE]
    IN  [k \in 1 .. Cardinality(Starts(t)) |-> run(Nth(Starts(t), k))]

\* buildFields(): whatever was modified is so no longer
BuildFields(t) == [t EXCEPT !.fields = FieldsOf(t)]

CellsOf(f) == f.start .. f.start + f.len - 1

\* getFieldAtCursor(), 0 if there is none
FieldAtCursor(t) ==
    LET I == {i \in DOMAIN t.fields : Here(t) \in CellsOf(t.fields[i])}
    IN  IF I = {} THEN 0 ELSE Min(I)

\* putChar(), advanceCursor()
PutChar(t, ch) ==
    LET next == (Here(t) + 1) % Size
    IN  [t EXCEPT !.ch[Here(t)] = ch, !.prot[Here(t)] = t.protecting,
                  !.row = next \div Cols, !.col = next % Cols]

\* setCursor()
SetCursor(t, row, col) ==
    [t EXCEPT !.row = Max({0, Min({row, Rows - 1})}), !.col = Max({0, Min({col, Cols - 1})})]

\* clearToEndOfScreen(), clearToEndOfLine(): the protection goes as well
Erase(t, A) ==
    [t EXCEPT !.ch = [a \in Addresses |-> IF a \in A THEN Blank ELSE @[a]],
              !.prot = [a \in Addresses |-> @[a] /\ a \notin A]]

ClearToEndOfScreen(t) == Erase(t, Here(t) .. Size - 1)
ClearToEndOfLine(t) == Erase(t, Here(t) .. Address(t.row, Cols) - 1)

\* ESC [ 1 J: the protection stays
ClearToCursor(t) == [t EXCEPT !.ch = [a \in Addresses |-> IF a <= Here(t) THEN Blank ELSE @[a]]]

\* clear()
Clear(t) == [[t EXCEPT !.ch = PowerOn.ch, !.prot = PowerOn.prot, !.fields = <<>>]
                EXCEPT !.row = 0, !.col = 0, !.protecting = FALSE]

\* handleTab(): by the fields as they were before this chunk
Tab(t) ==
    LET open == {f.start : f \in {g \in ToSet(t.fields) : ~g.prot}}
        behind == {a \in open : a > Here(t)}
        to(a) == SetCursor(t, a \div Cols, a % Cols)
        stop == ((t.col \div TabWidth) + 1) * TabWidth
    IN  IF behind # {} THEN to(Min(behind))
        ELSE IF open # {} THEN to(Min(open))
        ELSE IF stop < Cols THEN [t EXCEPT !.col = stop]
        ELSE [t EXCEPT !.col = 0, !.row = (@ + 1) % Rows]

-----------------------------------------------------------------------------
(* The parser, on q: the terminal q.t and q.changed, what parse() returns. *)

Controls == {"CR", "LF", "BS", "HT", "BEL", "FF", "NUL"}

To(q, state) == [q EXCEPT !.t.state = state]

FaultyChanged(q, t) == [t |-> t, changed |-> t # q.t]

\* A byte that may have changed the screen
Changed(q, t) == [t |-> t, changed |-> TRUE]

\* processNormal()
Normal(q, b) ==
    LET t == q.t
    IN  CASE b = "ESC" -> To(q, "escape")
          [] b = "CR" -> Changed(q, [t EXCEPT !.col = 0])
          [] b = "LF" -> Changed(q, [t EXCEPT !.row = Min({@ + 1, Rows - 1})])
          [] b = "BS" -> Changed(q, [t EXCEPT !.col = Max({@ - 1, 0})])
          [] b = "HT" -> Changed(q, Tab(t))
          [] b = "FF" -> Changed(q, Clear(t))
          [] b \in {"BEL", "NUL"} -> q
          [] OTHER -> Changed(q, PutChar(t, b))

\* processEsc()
Escape(q, b) ==
    LET t == [q.t EXCEPT !.state = "normal"]
    IN  CASE b = "[" -> [q EXCEPT !.t = [t EXCEPT !.state = "csi", !.params = <<>>]]
          [] b = "&" -> To(q, "amp")
          [] b = "J" -> Changed(q, ClearToEndOfScreen(t))
          [] b = "K" -> Changed(q, ClearToEndOfLine(t))
          [] b \in {"(", ")"} -> Changed(q, [t EXCEPT !.protecting = b = ")"])
          [] OTHER -> [q EXCEPT !.t = t]

\* The i-th parameter, 1 if it is missing
Param(t, i) == IF i \in DOMAIN t.params /\ t.params[i] # Missing THEN t.params[i] ELSE 1

\* handleEraseDisplay(): 0 only if there is nothing before the J, not even a ;
EraseDisplay(q, t) ==
    LET kind == IF t.params = <<>> THEN 0 ELSE t.params[1]
    IN  CASE kind = 0 -> Changed(q, ClearToEndOfScreen(t))
          [] kind = 1 -> Changed(q, ClearToCursor(t))
          [] kind = 2 -> Changed(q, Clear(t))
          [] OTHER -> [q EXCEPT !.t = t]

\* processCsi(), handleCursorPosition()
Csi(q, b) ==
    LET t == [q.t EXCEPT !.state = "normal"]
        slots == IF t.params = <<>> THEN <<Missing>> ELSE t.params
    IN  CASE b \in DOMAIN Numbers ->
                [q EXCEPT !.t.params = [slots EXCEPT ![Len(slots)] = Numbers[b]]]
          [] b = ";" -> [q EXCEPT !.t.params = Append(slots, Missing)]
          [] b = "H" -> Changed(q, SetCursor(t, Param(t, 1) - 1, Param(t, 2) - 1))
          [] b = "J" -> EraseDisplay(q, t)
          [] b = "K" -> Changed(q, ClearToEndOfLine(t))
          [] OTHER -> [q EXCEPT !.t = t]

\* processAmp(), processAmpD()
Amp(q, b) ==
    LET t == [q.t EXCEPT !.state = "normal"]
    IN  CASE q.t.state = "ampd" -> Changed(q, t)
          [] q.t.state # "ampd" /\ b = "d" -> To(q, "ampd")
          [] OTHER -> [q EXCEPT !.t = t]

\* processByte()
Byte(q, b) ==
    CASE q.t.state = "normal" -> Normal(q, b)
      [] q.t.state = "escape" -> Escape(q, b)
      [] q.t.state = "csi" -> Csi(q, b)
      [] OTHER -> Amp(q, b)

\* parse(): its loop ...
Read(t, bytes) == FoldLeft(Byte, [t |-> t, changed |-> FALSE], bytes)

\* ... and what it does to the screen in all
Parse(t, bytes) == LET q == Read(t, bytes) IN IF q.changed THEN BuildFields(q.t) ELSE q.t

-----------------------------------------------------------------------------
(* Keys. *)

FaultyInsertText(t, text) ==
    LET i == FieldAtCursor(t)
        n == Min({Len(text), Size - Here(t)})
        last == Min({Here(t) + n, Size - 1})
    IN  IF i = 0 \/ t.fields[i].prot THEN t
        ELSE [t EXCEPT !.ch = [a \in Addresses |->
                    IF a \in Here(t) .. Here(t) + n - 1 THEN text[a - Here(t) + 1] ELSE @[a]],
                       !.row = last \div Cols, !.col = last % Cols,
                       !.fields[i].modified = TRUE]

\* insertText(): what is past the field is dropped
InsertText(t, text) ==
    LET i == FieldAtCursor(t)
        end == t.fields[i].start + t.fields[i].len
        n == Min({Len(text), end - Here(t)})
        last == Min({Here(t) + n, end - 1})
    IN  IF i = 0 \/ t.fields[i].prot THEN t
        ELSE [t EXCEPT !.ch = [a \in Addresses |->
                    IF a \in Here(t) .. Here(t) + n - 1 THEN text[a - Here(t) + 1] ELSE @[a]],
                       !.row = last \div Cols, !.col = last % Cols,
                       !.fields[i].modified = TRUE]

\* The characters of a field without the blanks at its end
FieldData(t, f) ==
    LET ink == {a \in CellsOf(f) : t.ch[a] # Blank}
    IN  IF ink = {} THEN <<>>
        ELSE [k \in 1 .. Max(ink) - f.start + 1 |-> t.ch[f.start + k - 1]]

\* The texts of the fields numbered in I, in their order
Answered(t, I) == [k \in 1 .. Cardinality(I) |-> FieldData(t, t.fields[Nth(I, k)])]

FaultyBuildKeyResponse(t) == Answered(t, {i \in DOMAIN t.fields : ~t.fields[i].prot})

\* buildKeyResponse() of Enter and the function keys: of a field its text and an
\* HT, not its place
BuildKeyResponse(t) ==
    Answered(t, {i \in DOMAIN t.fields : t.fields[i].modified /\ ~t.fields[i].prot})

-----------------------------------------------------------------------------
Init ==
    /\ screen = PowerOn
    /\ answer = <<>> /\ typed = {}
    /\ events = 0

Happens(t) == events < MaxEvents /\ events' = events + 1 /\ screen' = t

\* onData()
HostSends(chunk) ==
    /\ Happens(Parse(screen, chunk))
    /\ typed' = IF Read(screen, chunk).changed THEN {} ELSE typed
    /\ answer' = <<>>

\* Where the cursor goes as it types, if it may
Passed == IF screen.fields = <<>> \/ screen.prot[Here(screen)] THEN {}
          ELSE Here(screen) .. Here(screen')

\* sendText()
TypeText(text) ==
    /\ Happens(InsertText(screen, text))
    /\ typed' = typed \cup Passed
    /\ answer' = <<>>

\* sendKey(), a key that sends fields: they stay modified
PressAction ==
    /\ Happens(screen)
    /\ answer' = BuildKeyResponse(screen)
    /\ UNCHANGED typed

Next ==
    \/ \E chunk \in Chunks : HostSends(chunk)
    \/ \E text \in Texts : TypeText(text)
    \/ PressAction

Spec == Init /\ [][Next]_vars

-----------------------------------------------------------------------------
TypeOK ==
    /\ DOMAIN screen.ch = Addresses /\ DOMAIN screen.prot = Addresses
    /\ screen.row \in 0 .. Rows - 1 /\ screen.col \in 0 .. Cols - 1
    /\ screen.state \in {"normal", "escape", "csi", "amp", "ampd"}

(* The fields are the runs of the screen: once there are any they cover it *)
(* without a gap, and each has the protection of all of its cells.         *)
FieldsCoverScreen ==
    screen.fields # <<>> =>
        /\ UNION {CellsOf(f) : f \in ToSet(screen.fields)} = Addresses
        /\ \A f \in ToSet(screen.fields) : \A a \in CellsOf(f) : screen.prot[a] = f.prot

(* Typing changes the cells of one unprotected field, and the cursor stays *)
(* in it.                                                                  *)
TypingStaysInField ==
    [][\A text \in Texts :
        TypeText(text) /\ screen'.ch # screen.ch =>
            \E f \in ToSet(screen.fields) :
                /\ ~f.prot /\ Here(screen') \in CellsOf(f)
                /\ \A a \in Addresses \ CellsOf(f) : screen'.ch[a] = screen.ch[a]]_vars

FieldsTypedIn == {i \in DOMAIN screen.fields : CellsOf(screen.fields[i]) \cap typed # {}}

\* The part of an answer that is for the i-th field has all that the field shows
SentWhole(part, f) ==
    \A a \in CellsOf(f) :
        LET k == a - f.start + 1
        IN  IF k \in DOMAIN part THEN part[k] = screen.ch[a] ELSE screen.ch[a] = Blank

(* An action key sends, one after the other, just the fields that text was *)
(* typed in since the host last wrote to the screen, each with all it      *)
(* shows: nothing typed since then is lost, and what was typed before and  *)
(* is on the screen still is not sent, unless its field is typed in again. *)
TypedIsSent ==
    [][PressAction =>
        /\ Len(answer') = Cardinality(FieldsTypedIn)
        /\ \A i \in FieldsTypedIn :
              SentWhole(answer'[Cardinality({j \in FieldsTypedIn : j < i}) + 1],
                        screen.fields[i])]_vars

(* Fields are the runs of the screen, typing stays in one of them, and     *)
(* what was typed since the host last wrote is what is sent.               *)
TypingIsKept ==
    /\ [](TypeOK /\ FieldsCoverScreen)
    /\ TypingStaysInField /\ TypedIsSent
=============================================================================
