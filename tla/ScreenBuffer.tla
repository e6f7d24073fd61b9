---------------------------- MODULE ScreenBuffer ----------------------------
(***************************************************************************)
(* class ScreenBuffer of packages/proxy/src/tn5250/screen.ts: the 5250     *)
(* screen as one record s, and its methods as operators on it.  Characters *)
(* are single-byte: the double-byte marks of a cell (dbcsCont, dbcsShift)  *)
(* and the display attributes of a cell are left out, and so is everything *)
(* only toScreenData() looks at.  A JavaScript array grows when it is      *)
(* written past its end, so s.buf is a function whose domain may grow.     *)
(***************************************************************************)
EXTENDS Integers, Sequences, FiniteSets, FiniteSetsExt, SequencesExt

CONSTANTS
    None,
    MaxScreenStack,   \* ScreenBuffer.MAX_SCREEN_STACK
    MaxWindows        \* the 10 of windowList.slice(-10)

Blank == " "
Nul == "nul"

Size(s) == s.rows * s.cols

Offset(s, p) == p.row * s.cols + p.col

ToRowCol(s, a) == [row |-> a \div s.cols, col |-> a % s.cols]

Home == [row |-> 0, col |-> 0]

Spots == [row : Nat, col : Nat]

OnScreen(s, p) == p.row \in 0 .. s.rows - 1 /\ p.col \in 0 .. s.cols - 1

\* new ScreenBuffer(rows, cols)
Fresh(rows, cols) ==
    [rows |-> rows, cols |-> cols,
     buf |-> [a \in 0 .. rows * cols - 1 |-> Blank],
     fields |-> <<>>, cursor |-> Home,
     locked |-> FALSE, insert |-> FALSE,
     errorCursor |-> None,      \* savedCursorBeforeError
     msgLine |-> None,          \* savedMsgLine with its row
     header |-> [line |-> 0, attention |-> {}],  \* what headerData says
     stack |-> <<>>, windows |-> <<>>,
     selections |-> {}, scrollbars |-> {},
     pendingInsert |-> None, readOp |-> "none"]

\* The cells buf with those of new written over them
Over(new, buf) ==
    [a \in DOMAIN new \cup DOMAIN buf |-> IF a \in DOMAIN new THEN new[a] ELSE buf[a]]

\* A guarded write (setCharAt) and the writes straight into the array
SetCharAt(s, a, ch) ==
    IF a \in 0 .. Size(s) - 1 THEN [s EXCEPT !.buf = Over([b \in {a} |-> ch], @)] ELSE s

Fill(s, A, ch) == [s EXCEPT !.buf = Over([a \in A |-> ch], @)]

FillOnScreen(s, A, ch) == Fill(s, A \cap (0 .. Size(s) - 1), ch)

CharAt(s, a) == IF a \in DOMAIN s.buf THEN s.buf[a] ELSE None

\* resize(): content, fields and cursor go, the rest stays
Resize(s, rows, cols) ==
    [s EXCEPT !.rows = rows, !.cols = cols,
              !.buf = [a \in 0 .. rows * cols - 1 |-> Blank],
              !.fields = <<>>, !.cursor = Home]

-----------------------------------------------------------------------------
(* Fields: [row, col, len, input, mdt, synthetic, attr, cont, reseq, fer,  *)
(* signed, adjust].  cont is "no", "first", "middle" or "last".            *)

Start(s, f) == Offset(s, f)

Cells(s, f) == Start(s, f) .. Start(s, f) + f.len - 1

\* getFieldValue(), as a sequence: cells past the end of the screen are not read
FieldValue(s, f) ==
    [k \in 1 .. Min({f.len, Max({Size(s) - Start(s, f), 0})}) |->
        s.buf[Start(s, f) + k - 1]]

InputFields(s) == {i \in DOMAIN s.fields : s.fields[i].input}

\* getFieldAt(): the index of the first field that holds a, 0 if none
FieldAt(s, a) ==
    LET holding == {i \in DOMAIN s.fields : a \in Cells(s, s.fields[i])}
    IN  IF holding = {} THEN 0 ELSE Min(holding)

FieldAtCursor(s) == FieldAt(s, Offset(s, s.cursor))

\* The subfields of a continued group up to i, first included; {} if i is not
\* part of one or its first subfield is missing
GroupFirsts(s, i) ==
    {j \in 1 .. i - 1 : /\ s.fields[j].cont = "first"
                        /\ \A k \in j .. i - 1 : s.fields[k].cont # "no"}

FaultyMdtOwner(s, i) == i

\* The field whose MDT stands for field i
MdtOwner(s, i) ==
    IF s.fields[i].cont \in {"middle", "last"} /\ GroupFirsts(s, i) # {}
    THEN Max(GroupFirsts(s, i))
    ELSE i

SetFieldMdt(s, i) == [s EXCEPT !.fields[MdtOwner(s, i)].mdt = TRUE]

\* setFieldValue(), not guarded against the end of the screen
SetFieldValue(s, i, value) ==
    LET f == s.fields[i]
        text == [a \in Cells(s, f) |->
                    LET k == a - Start(s, f) + 1
                    IN  IF k <= Len(value) THEN value[k] ELSE Blank]
    IN  SetFieldMdt([s EXCEPT !.buf = Over(text, @)], i)

\* Tab order: resequenced fields first, by number, then the others by place
TabBefore(s, i, j) ==
    LET f == s.fields[i]
        g == s.fields[j]
    IN  IF f.reseq = g.reseq THEN Start(s, f) < Start(s, g)
        ELSE g.reseq = 0 \/ (f.reseq # 0 /\ f.reseq < g.reseq)

FirstInTabOrder(s, I) == CHOOSE i \in I : \A j \in I \ {i} : ~TabBefore(s, j, i)
LastInTabOrder(s, I) == CHOOSE i \in I : \A j \in I \ {i} : ~TabBefore(s, i, j)

FaultyAdjacent(s, pos, forward) ==
    LET inputs == InputFields(s)
        here == {i \in inputs : pos \in Cells(s, s.fields[i])}
        beyond == {i \in inputs : Start(s, s.fields[i]) > pos}
    IN  CASE inputs = {} -> 0
          [] inputs # {} /\ (here = {} \/ beyond = {}) -> FirstInTabOrder(s, inputs)
          [] OTHER -> FirstInTabOrder(s, beyond)

\* adjacentInputField(): where Tab (forward) or Backtab goes from pos, 0 if
\* the screen has no input field; wraps at either end
NextOf(s, inputs, here, forward) ==
    LET current == FirstInTabOrder(s, here)
        after == {i \in inputs : TabBefore(s, current, i)}
        before == {i \in inputs : TabBefore(s, i, current)}
    IN  CASE inputs = {} -> 0
          [] inputs # {} /\ forward ->
                IF here = {} \/ after = {} THEN FirstInTabOrder(s, inputs)
                ELSE FirstInTabOrder(s, after)
          [] OTHER ->
                IF here = {} \/ before = {} THEN LastInTabOrder(s, inputs)
                ELSE LastInTabOrder(s, before)

AdjacentInputField(s, pos, forward) ==
    NextOf(s, InputFields(s), {i \in InputFields(s) : pos \in Cells(s, s.fields[i])}, forward)

Place(f) == [row |-> f.row, col |-> f.col]

\* setCursorHome(): a pending IC, else the first input field, else (0,0)
SetCursorHome(s) ==
    [s EXCEPT !.cursor =
        CASE s.pendingInsert # None -> s.pendingInsert
          [] s.pendingInsert = None /\ InputFields(s) # {} ->
                Place(s.fields[Min(InputFields(s))])
          [] OTHER -> Home]

-----------------------------------------------------------------------------
(* The message line.                                                       *)

MsgLineRow(s) ==
    IF s.header.line \in 1 .. s.rows THEN s.header.line - 1 ELSE s.rows - 1

RowCells(s, row) == row * s.cols .. row * s.cols + s.cols - 1

SaveMsgLine(s) ==
    [s EXCEPT !.msgLine = [row |-> MsgLineRow(s),
                           text |-> [a \in RowCells(s, MsgLineRow(s)) |-> CharAt(s, a)]]]

RestoreMsgLine(s) == [s EXCEPT !.buf = Over(s.msgLine.text, @), !.msgLine = None]

\* clearErrorLine(): always the last row
ClearErrorLine(s) == Fill(s, RowCells(s, s.rows - 1), Blank)

-----------------------------------------------------------------------------
(* SAVE_SCREEN, RESTORE_SCREEN and the windows.                            *)

Frame(s) == [buf |-> s.buf, fields |-> s.fields, cursor |-> s.cursor,
             readOp |-> s.readOp, locked |-> s.locked, header |-> s.header,
             windows |-> s.windows, selections |-> s.selections,
             scrollbars |-> s.scrollbars]

FaultySaveState(s) == [s EXCEPT !.stack = Append(@, Frame(s))]

\* saveState(): the oldest frame goes when the stack is full
SaveState(s) ==
    LET room == IF Len(s.stack) >= MaxScreenStack THEN Tail(s.stack) ELSE s.stack
    IN  [s EXCEPT !.stack = Append(room, Frame(s))]

FaultyRestoreState(s) ==
    IF s.stack = <<>> THEN s
    ELSE [s EXCEPT !.stack = Front(@), !.buf = Last(s.stack).buf,
                   !.cursor = Last(s.stack).cursor, !.locked = Last(s.stack).locked]

\* restoreState(): nothing happens on an empty stack
RestoreState(s) ==
    IF s.stack = <<>> THEN s
    ELSE LET top == Last(s.stack)
         IN  [s EXCEPT !.stack = Front(@), !.buf = top.buf, !.fields = top.fields,
                       !.cursor = top.cursor, !.readOp = top.readOp,
                       !.locked = top.locked, !.header = top.header,
                       !.windows = top.windows, !.selections = top.selections,
                       !.scrollbars = top.scrollbars]

\* Windows are tracked once per geometry, the last ten of them
TrackWindow(s, w) ==
    IF \E i \in DOMAIN s.windows : s.windows[i] = w THEN s
    ELSE LET all == Append(s.windows, w)
         IN  [s EXCEPT !.windows =
                IF Len(all) > MaxWindows THEN Tail(all) ELSE all]

\* The cells of the rectangle between two corners that are on the screen
Rectangle(s, top, left, bottom, right) ==
    {Offset(s, [row |-> r, col |-> c]) :
        r \in (top .. bottom) \cap (0 .. s.rows - 1),
        c \in (left .. right) \cap (0 .. s.cols - 1)}

\* eraseRegion(): its guard is on the linear address, so a region that runs
\* past the right edge erases the start of the next row
EraseRegion(s, top, left, bottom, right) ==
    FillOnScreen(s, {r * s.cols + c : r \in top .. bottom, c \in left .. right}, Blank)

\* renderWindowBorderCustom(): the ring around height x width, clipped; the
\* sides take ":" and so do the bottom corners
RenderWindowBorder(s, p, height, width) ==
    LET bottom == p.row + height + 1
        right == p.col + width + 1
        sides == Rectangle(s, p.row + 1, p.col, bottom, p.col)
                     \cup Rectangle(s, p.row + 1, right, bottom, right)
        edges == Rectangle(s, p.row, p.col, p.row, right)
                     \cup Rectangle(s, bottom, p.col + 1, bottom, right - 1)
    IN  Fill(Fill(s, sides, ":"), edges, ".")

\* The cells that are not blank, and the box around them
Inked(s) == {a \in 0 .. Size(s) - 1 : s.buf[a] # Blank}

Box(s) ==
    LET rows == {a \div s.cols : a \in Inked(s)}
        columns == {a % s.cols : a \in Inked(s)}
    IN  [top |-> Min(rows), bottom |-> Max(rows),
         left |-> Min(columns), right |-> Max(columns)]

\* What looks like a popup: not tiny, and inset on every side
IsInsetPopup(s) ==
    /\ Inked(s) # {}
    /\ LET b == Box(s)
       IN  /\ b.bottom > b.top /\ b.right > b.left + 1
           /\ Cardinality(Inked(s)) >= 3
           /\ b.top > 0 /\ b.bottom < s.rows - 1
           /\ b.left > 0 /\ b.right < s.cols - 1

\* synthesizeWindow(): the content, framed, over the screen last saved
SynthesizeWindow(s) ==
    IF s.stack = <<>> \/ ~IsInsetPopup(s) THEN s
    ELSE LET b == Box(s)
             content == [a \in Rectangle(s, b.top, b.left, b.bottom, b.right) |-> s.buf[a]]
             p == [row |-> b.top - 1, col |-> b.left - 1]
             height == b.bottom - b.top + 1
             width == b.right - b.left + 1
             framed == RenderWindowBorder([s EXCEPT !.buf = Last(s.stack).buf],
                                          p, height, width)
         IN  TrackWindow([framed EXCEPT !.buf = Over(content, @)],
                         [row |-> p.row, col |-> p.col, height |-> height, width |-> width])

-----------------------------------------------------------------------------
\* readFieldValues(): the input fields, the modified ones or all
ReadFieldValues(s, modifiedOnly) ==
    {[row |-> s.fields[i].row, col |-> s.fields[i].col,
      value |-> [k \in 1 .. s.fields[i].len |->
                    LET a == Start(s, s.fields[i]) + k - 1
                    IN  IF a < Size(s) THEN s.buf[a] ELSE Blank]] :
        i \in {j \in InputFields(s) : s.fields[j].mdt \/ ~modifiedOnly}}
=============================================================================
