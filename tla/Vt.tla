--------------------------------- MODULE Vt ---------------------------------
(***************************************************************************)
(* A VT terminal session: vt/parser.ts, screen.ts and encoder.ts behind    *)
(* protocols/vt-handler.ts.  The host sends chunks, sequences of bytes cut *)
(* anywhere; the parser's state stays where a chunk ends.  A byte is a     *)
(* string: a control ("ESC"), a number (the digits of one parameter), or   *)
(* something that prints.  Of the attributes of a cell there is reverse    *)
(* video, the one the fields are detected by; multi-byte characters, tab   *)
(* stops that are set and sequences that are ignored whole are left out.   *)
(***************************************************************************)
EXTENDS Integers, Sequences, FiniteSets, FiniteSetsExt, SequencesExt

CONSTANTS
    None,
    Rows, Cols,
    TabWidth,     \* 8 in the code
    MinRun,       \* the length from which a run of cells is a field, 3
    Labels,       \* what prints as the prompt of a field
    Graphics,     \* the bytes that line drawing replaces
    Numbers,      \* the numbers in parameters, [text -> value]
    Chunks,       \* what the host may send at a time
    Texts,        \* what is typed in one call, and printed by the host
    MaxEvents     \* bound: chunks and inputs of a connection

VARIABLES
    term,      \* the terminal: the screen and the parser
    answer,    \* what the last step sent
    viewed,    \* the characters that were last given to the viewers
    events     \* chunks and inputs so far

vars == <<term, answer, viewed, events>>

Blank == " "
EmptyCell == [ch |-> Blank, rev |-> FALSE]
Addresses == 0 .. Rows * Cols - 1
Address(row, col) == row * Cols + col
RowOf(a) == a \div Cols

EmptyGrid == [a \in Addresses |-> EmptyCell]

PowerOn ==
    [grid |-> EmptyGrid, row |-> 0, col |-> 0, top |-> 0, bottom |-> Rows - 1,
     rev |-> FALSE, wrap |-> TRUE, origin |-> FALSE, appKeys |-> FALSE,
     pending |-> FALSE, saved |-> None, primary |-> None]

Parser ==
    [state |-> "normal", params |-> <<>>, private |-> FALSE, inter |-> FALSE,
     g0 |-> "B", g1 |-> "B", shifted |-> FALSE, designating |-> "g0", owed |-> <<>>, echo |-> FALSE]

\* reset()
ResetScreen(t) == PowerOn @@ t

Clamp(low, x, high) == Max({low, Min({x, high})})

-----------------------------------------------------------------------------
(* The screen. *)

Erase(t, A) == [t EXCEPT !.grid = [a \in Addresses |-> IF a \in A THEN EmptyCell ELSE @[a]]]

\* scrollUp(): the rows from top to bottom, by n
ScrollUp(t, n) ==
    [t EXCEPT !.grid = [a \in Addresses |->
        IF RowOf(a) \notin t.top .. t.bottom /\ RowOf(a) # t.bottom THEN @[a]
        ELSE IF RowOf(a) + n <= t.bottom THEN @[a + n * Cols] ELSE EmptyCell]]

\* scrollDown()
ScrollDown(t, n) ==
    [t EXCEPT !.grid = [a \in Addresses |->
        IF RowOf(a) \notin t.top .. t.bottom /\ RowOf(a) # t.top THEN @[a]
        ELSE IF RowOf(a) - n >= t.top THEN @[a - n * Cols] ELSE EmptyCell]]

\* lineFeed()
LineFeed(t) ==
    IF t.row = t.bottom THEN ScrollUp(t, 1)
    ELSE IF t.row < Rows - 1 THEN [t EXCEPT !.row = @ + 1] ELSE t

\* reverseLineFeed()
ReverseLineFeed(t) ==
    IF t.row = t.top THEN ScrollDown(t, 1)
    ELSE IF t.row > 0 THEN [t EXCEPT !.row = @ - 1] ELSE t

FaultyWriteChar(t, ch) ==
    LET wrapped == IF t.pending /\ t.wrap THEN LineFeed([t EXCEPT !.col = 0]) ELSE t
        put == [wrapped EXCEPT
                    !.grid[Address(wrapped.row, wrapped.col)] = [ch |-> ch, rev |-> t.rev],
                    !.pending = @ \/ wrapped.col = Cols - 1]
    IN  [put EXCEPT !.col = Min({@ + 1, Cols - 1})]

\* writeChar(): at the last column the next character wraps, not this one
WriteChar(t, ch) ==
    LET wrapped == IF t.pending /\ t.wrap THEN LineFeed([t EXCEPT !.col = 0]) ELSE t
        put == [wrapped EXCEPT
                    !.grid[Address(wrapped.row, wrapped.col)] = [ch |-> ch, rev |-> t.rev],
                    !.pending = wrapped.col = Cols - 1]
    IN  [put EXCEPT !.col = Min({@ + 1, Cols - 1})]

\* setCursor(): with origin mode relative to the region, and inside of it
SetCursor(t, row, col) ==
    [t EXCEPT !.row = IF t.origin THEN Max({t.top, Min({t.bottom, t.top + Max({0, row})})})
                      ELSE Clamp(0, row, Rows - 1),
              !.col = Clamp(0, col, Cols - 1),
              !.pending = FALSE]

\* cursorUp(), cursorDown(): the margins stop a cursor that is inside of them
CursorUp(t, n) ==
    [t EXCEPT !.row = Max({IF @ >= t.top THEN t.top ELSE 0, @ - n}), !.pending = FALSE]

CursorDown(t, n) ==
    [t EXCEPT !.row = Min({IF @ <= t.bottom THEN t.bottom ELSE Rows - 1, @ + n}),
              !.pending = FALSE]

FaultyInsertLines(t, n) == [ScrollDown([t EXCEPT !.top = t.row], n) EXCEPT !.top = t.top]

\* insertLines(), deleteLines(): a scroll of the rest of the region
InsertLines(t, n) ==
    IF t.row \notin t.top .. t.bottom THEN t
    ELSE [ScrollDown([t EXCEPT !.top = t.row], n) EXCEPT !.top = t.top]

DeleteLines(t, n) ==
    IF t.row \notin t.top .. t.bottom THEN t
    ELSE [ScrollUp([t EXCEPT !.top = t.row], n) EXCEPT !.top = t.top]

Here(t) == Address(t.row, t.col)
EndOfRow(t) == Address(t.row + 1, 0)

\* insertCharacters()
InsertCharacters(t, n) ==
    [t EXCEPT !.grid = [a \in Addresses |->
        IF a \notin Here(t) .. EndOfRow(t) - 1 THEN @[a]
        ELSE IF a >= Here(t) + n THEN @[a - n] ELSE EmptyCell]]

\* deleteCharacters(): with an n past the row, blanks before the cursor as well
DeleteCharacters(t, n) ==
    [t EXCEPT !.grid = [a \in Addresses |->
        IF a \in EndOfRow(t) - n .. EndOfRow(t) - 1 THEN EmptyCell
        ELSE IF a \in Here(t) .. EndOfRow(t) - 1 THEN @[a + n] ELSE @[a]]]

\* eraseInDisplay()
EraseInDisplay(t, mode) ==
    Erase(t, CASE mode = 0 -> {a \in Addresses : a >= Here(t)}
               [] mode = 1 -> 0 .. Here(t)
               [] mode \in {2, 3} -> Addresses
               [] OTHER -> {})

\* eraseInLine()
EraseInLine(t, mode) ==
    Erase(t, CASE mode = 0 -> Here(t) .. EndOfRow(t) - 1
               [] mode = 1 -> Address(t.row, 0) .. Here(t)
               [] mode = 2 -> Address(t.row, 0) .. EndOfRow(t) - 1
               [] OTHER -> {})

\* eraseCharacters()
EraseCharacters(t, n) == Erase(t, Here(t) .. Min({Here(t) + n, EndOfRow(t)}) - 1)

FaultyTabForward(t) == [t EXCEPT !.col = ((@ \div TabWidth) + 1) * TabWidth, !.pending = FALSE]

\* tabForward()
TabForward(t) ==
    [t EXCEPT !.col = Min({((@ \div TabWidth) + 1) * TabWidth, Cols - 1}), !.pending = FALSE]

\* saveCursor(), restoreCursor()
SaveCursor(t) == [t EXCEPT !.saved = [row |-> t.row, col |-> t.col, rev |-> t.rev]]

RestoreCursor(t) ==
    IF t.saved = None THEN t
    ELSE [t EXCEPT !.row = t.saved.row, !.col = t.saved.col, !.rev = t.saved.rev,
                   !.pending = FALSE]

FaultyEnterAlternate(t) ==
    [t EXCEPT !.primary = [grid |-> t.grid, row |-> t.row, col |-> t.col],
              !.grid = EmptyGrid]

\* enterAlternateScreen(), exitAlternateScreen()
EnterAlternate(t) ==
    IF t.primary # None THEN t
    ELSE [t EXCEPT !.primary = [grid |-> t.grid, row |-> t.row, col |-> t.col],
                   !.grid = EmptyGrid]

ExitAlternate(t) ==
    IF t.primary = None THEN t
    ELSE [t EXCEPT !.grid = t.primary.grid, !.row = t.primary.row, !.col = t.primary.col,
                   !.primary = None, !.pending = FALSE]

-----------------------------------------------------------------------------
(* Fields, which a VT does not have: detectFields() takes runs of the      *)
(* underscore, runs of reverse video and what follows a prompt.            *)

Field(row, col, len, rank) == [row |-> row, col |-> col, len |-> len, rank |-> rank]

\* The maximal runs of the columns C of a row that are long enough
Runs(row, C, rank) ==
    {f \in [row : {row}, col : C, len : MinRun .. Cols, rank : {rank}] :
        /\ f.col .. f.col + f.len - 1 \subseteq C
        /\ f.col - 1 \notin C /\ f.col + f.len \notin C}

\* Behind a prompt and the blanks after it, as long as the blanks that end the row
Prompted(t, row) ==
    LET ch(c) == t.grid[Address(row, c)].ch
        ink(c) == {d \in c .. Cols - 1 : ch(d) # Blank}
        field(c) == Field(row, Min(ink(c + 1)),
                          LET tail == Cols - 1 - Max(ink(c + 1))
                          IN  IF tail = 0 THEN Cols - Min(ink(c + 1)) ELSE tail, 3)
    IN  {field(c) : c \in {d \in 0 .. Cols - 1 : ch(d) \in Labels /\ ink(d + 1) # {}}}

Candidates(t) ==
    UNION {Runs(row, {c \in 0 .. Cols - 1 : t.grid[Address(row, c)].ch = "_"}, 1) \cup
           Runs(row, {c \in 0 .. Cols - 1 : t.grid[Address(row, c)].rev}, 2) \cup
           Prompted(t, row) : row \in 0 .. Rows - 1}

Overlap(f, g) == f.row = g.row /\ f.col < g.col + g.len /\ g.col < f.col + f.len

FaultyDetectFields(t) == Candidates(t)

\* detectFields(): of two that overlap the first found stays
DetectFields(t) ==
    LET before(f, g) == \/ f.row < g.row
                        \/ f.row = g.row /\ f.rank < g.rank
                        \/ f.row = g.row /\ f.rank = g.rank /\ f.col < g.col
    IN  FoldLeft(LAMBDA kept, f : IF \E g \in kept : Overlap(f, g) THEN kept ELSE kept \cup {f},
                 {}, SetToSortSeq(Candidates(t), before))

-----------------------------------------------------------------------------
(* The parser, on q: the terminal q.t and q.changed, what feed() returns.  *)

Controls == {"BEL", "BS", "HT", "LF", "CR", "SO", "SI"}

To(q, state) == [q EXCEPT !.t.state = state]
FaultySilent(q, t) == [t |-> t, changed |-> FALSE]

\* A byte is handled: of a chunk that drew anything feed() says so
Silent(q, t) == [q EXCEPT !.t = t]
Drawn(q, t) == [t |-> t, changed |-> TRUE]
Owing(t, reply) == [t EXCEPT !.owed = Append(@, reply)]

\* handleControlChar()
Control(q, b) ==
    LET t == q.t
    IN  CASE b = "BS" /\ t.col > 0 -> Silent(q, [t EXCEPT !.col = @ - 1, !.pending = FALSE])
          [] b = "HT" -> Silent(q, TabForward(t))
          [] b = "LF" -> Drawn(q, LineFeed(t))
          [] b = "CR" -> Silent(q, [t EXCEPT !.col = 0, !.pending = FALSE])
          [] b \in {"SO", "SI"} -> Silent(q, [t EXCEPT !.shifted = b = "SO"])
          [] OTHER -> q

\* handleNormal(): what prints, as the active character set draws it
Glyph(t, b) ==
    IF b \in Graphics /\ (IF t.shifted THEN t.g1 ELSE t.g0) = "0" THEN "line" ELSE b

Normal(q, b) ==
    IF b = "ESC" THEN To(q, "escape")
    ELSE IF b \in Controls THEN Control(q, b) ELSE Drawn(q, WriteChar(q.t, Glyph(q.t, b)))

\* handleEsc()
Escape(q, b) ==
    LET t == [q.t EXCEPT !.state = "normal"]
    IN  CASE b = "[" -> Silent(q, [t EXCEPT !.state = "csi", !.params = <<>>,
                                            !.private = FALSE, !.inter = FALSE])
          [] b = "]" -> To(q, "osc")
          [] b = "P" -> To(q, "dcs")
          [] b \in {"N", "O"} -> To(q, "shift")
          [] b = "7" -> Silent(q, SaveCursor(t))
          [] b = "8" -> Silent(q, RestoreCursor(t))
          [] b = "D" -> Drawn(q, LineFeed(t))
          [] b = "M" -> Drawn(q, ReverseLineFeed(t))
          [] b = "E" -> Drawn(q, LineFeed([t EXCEPT !.col = 0]))
          [] b = "c" -> Drawn(q, ResetScreen(t))
          [] b \in {"(", ")", "*"} ->
                Silent(q, [t EXCEPT !.state = "charset",
                                    !.designating = CASE b = "(" -> "g0" [] b = ")" -> "g1"
                                                      [] OTHER -> "other"])
          [] b = "Z" -> Silent(q, Owing(t, [what |-> "attributes"]))
          [] OTHER -> Silent(q, t)

\* executeSgr(): the values of a colour are not codes of their own
SelectRendition(rev, params) ==
    LET codes == IF params = <<>> THEN <<0>> ELSE params
        arg(i) == IF i \in DOMAIN codes THEN codes[i] ELSE None
        colour(i) == codes[i] \in {38, 48}
        after(i) == CASE colour(i) /\ arg(i + 1) = 5 /\ arg(i + 2) # None -> i + 3
                      [] colour(i) /\ arg(i + 1) = 2 -> i + 5
                      [] OTHER -> i + 1
        apply(acc, i) ==
            IF i < acc.next THEN acc
            ELSE [rev |-> codes[i] = 7 \/ (acc.rev /\ codes[i] \notin {0, 27}),
                  next |-> after(i)]
    IN  FoldLeft(apply, [rev |-> rev, next |-> 1], [i \in DOMAIN codes |-> i]).rev

\* The i-th parameter, d if it is missing or 0
Param(t, i, d) == IF i \in DOMAIN t.params /\ t.params[i] # 0 THEN t.params[i] ELSE d

\* DECSTBM
SetMargins(t) ==
    SetCursor([t EXCEPT !.top = Clamp(0, Param(t, 1, 1) - 1, Rows - 1),
                        !.bottom = Clamp(0, Param(t, 2, Rows) - 1, Rows - 1)], 0, 0)

FaultyPosition(t) == <<t.row + 1, t.col + 1>>

\* CPR: the position, the row relative to the region with origin mode
Position(t) ==
    <<IF t.origin THEN t.row - t.top + 1 ELSE t.row + 1, t.col + 1>>

\* executeCsi(): what moves the cursor, sets a mode or asks a question
CsiSilent(t, b) ==
    LET n == Param(t, 1, 1)
    IN  CASE b = "A" -> CursorUp(t, n)
          [] b = "B" -> CursorDown(t, n)
          [] b = "C" -> SetCursor(t, t.row, t.col + n)
          [] b = "D" -> SetCursor(t, t.row, t.col - n)
          [] b = "E" -> SetCursor(t, t.row + n, 0)
          [] b = "F" -> SetCursor(t, t.row - n, 0)
          [] b = "G" -> SetCursor(t, t.row, n - 1)
          [] b \in {"H", "f"} -> SetCursor(t, n - 1, Param(t, 2, 1) - 1)
          [] b = "d" -> SetCursor(t, n - 1, t.col)
          [] b = "I" -> FoldLeft(LAMBDA u, i : TabForward(u), t, [i \in 1 .. n |-> i])
          [] b = "m" -> [t EXCEPT !.rev = SelectRendition(@, t.params)]
          [] b = "r" -> SetMargins(t)
          [] b = "n" /\ Param(t, 1, 0) = 5 -> Owing(t, [what |-> "ready"])
          [] b = "n" /\ Param(t, 1, 0) = 6 -> Owing(t, [what |-> "position", at |-> Position(t)])
          [] b = "c" -> Owing(t, [what |-> "attributes"])
          [] OTHER -> t

\* executeCsi(): what draws
CsiDrawing == {"J", "K", "X", "L", "M", "@", "P", "S", "T"}

CsiDrawn(t, b) ==
    LET n == Param(t, 1, 1)
    IN  CASE b = "J" -> EraseInDisplay(t, Param(t, 1, 0))
          [] b = "K" -> EraseInLine(t, Param(t, 1, 0))
          [] b = "X" -> EraseCharacters(t, n)
          [] b = "L" -> InsertLines(t, n)
          [] b = "M" -> DeleteLines(t, n)
          [] b = "@" -> InsertCharacters(t, n)
          [] b = "P" -> DeleteCharacters(t, n)
          [] b = "S" -> ScrollUp(t, n)
          [] b = "T" -> ScrollDown(t, n)

\* executeDecPrivate()
DecPrivate(q, t, b) ==
    LET mode == Param(t, 1, 0)
        on == b = "h"
    IN  IF b \notin {"h", "l"} THEN Silent(q, t) ELSE
        CASE mode = 1 -> Silent(q, [t EXCEPT !.appKeys = on])
          [] mode = 6 -> Silent(q, SetCursor([t EXCEPT !.origin = on], 0, 0))
          [] mode = 7 -> Silent(q, [t EXCEPT !.wrap = on])
          [] mode = 1049 /\ on -> Drawn(q, EnterAlternate(SaveCursor(t)))
          [] mode = 1049 /\ ~on -> Drawn(q, RestoreCursor(ExitAlternate(t)))
          [] mode \in {47, 1047} -> Drawn(q, IF on THEN EnterAlternate(t) ELSE ExitAlternate(t))
          [] OTHER -> Silent(q, t)

\* handleCsi(): a control inside a sequence aborts it
Csi(q, b) ==
    LET t == [q.t EXCEPT !.state = "normal"]
        number == [q.t EXCEPT !.params =
                        IF @ = <<>> THEN <<Numbers[b]>> ELSE [@ EXCEPT ![Len(@)] = Numbers[b]]]
        another == [q.t EXCEPT !.params = IF @ = <<>> THEN <<0, 0>> ELSE Append(@, 0)]
    IN  CASE b = "?" /\ t.params = <<>> /\ ~t.private -> Silent(q, [q.t EXCEPT !.private = TRUE])
          [] b \in DOMAIN Numbers -> Silent(q, number)
          [] b = ";" -> Silent(q, another)
          [] b = Blank -> Silent(q, [q.t EXCEPT !.inter = TRUE])
          [] OTHER -> IF b \in Controls \cup {"ESC"} \/ t.inter THEN Silent(q, t)
                      ELSE IF t.private THEN DecPrivate(q, t, b)
                      ELSE IF b \in CsiDrawing THEN Drawn(q, CsiDrawn(t, b))
                      ELSE Silent(q, CsiSilent(t, b))

\* The other states of feed(), handleOsc()
Swallow(q, b) ==
    CASE q.t.state = "charset" ->
            Silent(q, [[q.t EXCEPT !.state = "normal"]
                        EXCEPT !.g0 = IF q.t.designating = "g0" THEN b ELSE @,
                               !.g1 = IF q.t.designating = "g1" THEN b ELSE @])
      [] q.t.state = "shift" -> To(q, "normal")
      [] q.t.state \in {"osc", "dcs"} -> IF b \in {"ESC", "BEL"} THEN To(q, "normal") ELSE q

Byte(q, b) ==
    CASE q.t.state = "normal" -> Normal(q, b)
      [] q.t.state = "escape" -> Escape(q, b)
      [] q.t.state = "csi" -> Csi(q, b)
      [] OTHER -> Swallow(q, b)

\* feed()
Feed(t, bytes) == FoldLeft(Byte, [t |-> t, changed |-> FALSE], bytes)

-----------------------------------------------------------------------------
Content(t) == [a \in Addresses |-> t.grid[a].ch]

Init ==
    /\ term = PowerOn @@ Parser
    /\ answer = <<>>
    /\ viewed = Content(PowerOn)
    /\ events = 0

Happens(t) == events < MaxEvents /\ events' = events + 1 /\ term' = t

\* onData(): the replies that are owed go out, a screen that changed is shown
HostSends(chunk) ==
    LET q == Feed(term, chunk)
    IN  /\ Happens([q.t EXCEPT !.owed = <<>>])
        /\ answer' = q.t.owed
        /\ viewed' = IF q.changed THEN Content(q.t) ELSE viewed

\* WILL ECHO, WONT ECHO: whether the host echoes
HostEchoes ==
    /\ Happens([term EXCEPT !.echo = ~@])
    /\ answer' = <<>> /\ UNCHANGED viewed

\* What the terminal echoes itself goes through the parser of the host's bytes
Echoed(bytes) ==
    IF term.echo THEN Happens(term) /\ UNCHANGED viewed
    ELSE Happens(Feed(term, bytes).t) /\ viewed' = Content(term')

\* sendText()
TypeText(text) ==
    /\ Echoed(text)
    /\ answer' = <<[what |-> "text", text |-> text]>>

\* sendKey(), encodeKey()
PressEnter ==
    /\ Echoed(<<"CR", "LF">>)
    /\ answer' = <<[what |-> "enter"]>>

PressArrow ==
    /\ Happens(term) /\ UNCHANGED viewed
    /\ answer' = <<[what |-> "arrow", application |-> term.appKeys]>>

\* connect(): the parser stays as the last connection left it; a client that
\* connects is given the screen
Reconnect ==
    /\ Happens([ResetScreen(term) EXCEPT !.owed = <<>>, !.echo = FALSE])
    /\ viewed' = Content(term')
    /\ answer' = <<>>

Next ==
    \/ \E chunk \in Chunks \cup Texts : HostSends(chunk)
    \/ HostEchoes
    \/ \E text \in Texts : TypeText(text)
    \/ PressEnter
    \/ PressArrow
    \/ Reconnect

Spec == Init /\ [][Next]_vars

-----------------------------------------------------------------------------
TypeOK ==
    /\ DOMAIN term.grid = Addresses
    /\ term.row \in 0 .. Rows - 1 /\ term.col \in 0 .. Cols - 1
    /\ term.top \in 0 .. Rows - 1 /\ term.bottom \in 0 .. Rows - 1
    /\ term.state \in {"normal", "escape", "csi", "charset", "shift", "osc", "dcs"}

(* What was last shown to the viewers is what is on the screen: no byte    *)
(* that changes a character is fed without a screenChange after it.        *)
ViewerIsCurrent == viewed = Content(term)

(* Text that is printed outside of a sequence reads back from where the    *)
(* cursor is, across the end of a row and across a scroll.                 *)
TextReadsBack ==
    [][\A text \in Texts :
        LET end == Address(term'.row, term'.col) + (IF term'.pending THEN 1 ELSE 0)
        IN  /\ HostSends(text) \/ (TypeText(text) /\ ~term.echo)
            /\ term.state = "normal" /\ term.wrap
            /\ term.top < term.bottom /\ term.row \in term.top .. term.bottom
            => \A k \in DOMAIN text :
                    term'.grid[end - Len(text) + k - 1].ch = Glyph(term, text[k])]_vars

(* What scrolls leaves the rows outside of the margins alone, and leaves   *)
(* the margins where they were.                                            *)
ScrollStaysInMargins ==
    term.top <= term.bottom =>
        \A u \in {LineFeed(term), ReverseLineFeed(term), ScrollUp(term, 2), ScrollDown(term, 1),
                  InsertLines(term, 1), DeleteLines(term, 1)} :
            /\ u.top = term.top /\ u.bottom = term.bottom
            /\ \A a \in Addresses :
                    RowOf(a) \notin term.top .. term.bottom => u.grid[a] = term.grid[a]

(* The primary screen comes back as it was left, whatever was drawn on the *)
(* alternate one and however often that was entered.                       *)
PrimaryComesBack ==
    [][term.primary # None =>
        \/ term'.primary # None /\ term'.primary.grid = term.primary.grid
        \/ term'.grid = term.primary.grid
        \/ term'.primary = None /\ term'.grid = EmptyGrid]_vars

(* A host that addresses the position it was reported is where it was.     *)
PositionAddressesCursor ==
    ~term.origin \/ term.row \in term.top .. term.bottom =>
        LET u == SetCursor(term, Position(term)[1] - 1, Position(term)[2] - 1)
        IN  u.row = term.row /\ u.col = term.col

(* No two fields that are offered for input share a cell, and each is on   *)
(* the screen.                                                             *)
FieldsApart ==
    \A f \in DetectFields(term) :
        /\ f.col + f.len <= Cols
        /\ \A g \in DetectFields(term) : Overlap(f, g) => f = g

(* The terminal is the one the host draws on: text, margins, primary       *)
(* screen and reports are as the host relies on, the viewers see what is   *)
(* there, and the fields that are offered are apart.                       *)
TerminalIsKept ==
    /\ [](/\ TypeOK /\ ViewerIsCurrent /\ ScrollStaysInMargins
          /\ PositionAddressesCursor /\ FieldsApart)
    /\ TextReadsBack /\ PrimaryComesBack
=============================================================================
