----------------------------- MODULE DataStream -----------------------------
(***************************************************************************)
(* TN5250Parser of packages/proxy/src/tn5250/parser.ts: what a host record *)
(* does to the screen.  The parser is a record p with the screen p.s, the  *)
(* window offset p.win and the flags p.clearStale and p.query.  A host     *)
(* record is [op, cmds], its commands and their orders are records too:    *)
(* bytes, code pages, display attributes and double-byte runs are decoded  *)
(* already.  A record that ends in the middle of an order ends with CUT.   *)
(***************************************************************************)
EXTENDS ScreenBuffer

\* What a field may look like, how it is continued, how its value is adjusted
Attributes == {"normal", "under", "hidden"}
Continuations == {"no", "first", "middle", "last"}
Adjustments == {"no", "zero", "blank"}

\* Orders, commands and records; a place counts from 0
Orders ==
    [o : {"SBA", "IC", "MC", "EA"}, row : Nat, col : Nat]
        \cup [o : {"RA"}, row : Nat, col : Nat, ch : STRING]
        \cup [o : {"SOH"}, valid : BOOLEAN, line : Nat, attention : SUBSET STRING]
        \cup [o : {"TD", "TEXT"}, text : Seq(STRING)]
        \cup [o : {"ATTR"}, attr : Attributes]
        \cup [o : {"SF"}, ffw : BOOLEAN, input : BOOLEAN, mdt : BOOLEAN, attr : Attributes,
              len : Nat, cont : Continuations, reseq : Nat, fer : BOOLEAN,
              signed : BOOLEAN, adjust : Adjustments]
        \cup [o : {"WINDOW"}, depth : Nat, width : Nat]
        \cup [o : {"CUT", "SELECTION", "SCROLLBAR", "REM_WINDOW", "REM_SELECTION",
                   "REM_SCROLLBAR", "REM_ALL"}]

Commands ==
    [c : {"CLEAR_UNIT"}, rows : Nat \ {0}, cols : Nat \ {0}]
        \cup [c : {"CLEAR_FORMAT_TABLE", "QUERY", "SKIPPED"}]
        \cup [c : {"WTD"}, cc1 : 0 .. 7, cc2 : SUBSET {"unlock", "keep"}, orders : Seq(Orders)]
        \cup [c : {"ORDERS"}, orders : Seq(Orders)]
        \cup [c : {"ERROR"}, ic : Spots \cup {None}, text : Seq(STRING)]
        \cup [c : {"READ"}, op : STRING, cc1 : 0 .. 7, cc2 : SUBSET {"unlock", "keep"}]
        \cup [c : {"ROLL"}, top : Nat, bot : Nat, lines : Int]

HostRecords == [op : {"OUTPUT", "SAVE", "RESTORE"}, cmds : Seq(Commands)]

\* The constructors; connect() goes back to it, with parser.reset() and
\* screen.reset()
FreshParser(rows, cols) ==
    [s |-> Fresh(rows, cols), win |-> Home, clearStale |-> FALSE, query |-> FALSE]

\* A window-relative place of an order
InWindow(p, o) == [row |-> o.row + p.win.row, col |-> o.col + p.win.col]

-----------------------------------------------------------------------------
(* Control characters.  cc1 is the class of CC1 (its top three bits); cc2  *)
(* is the set of what CC2 asks for, "unlock" and "keep" (IC_ULOCK).        *)

ResetsMdt(cc1, f) == cc1 \in {3, 7} \/ (cc1 \in {2, 5, 6} /\ f.input)

Nulls(cc1, f) == f.input /\ (cc1 \in {5, 7} \/ (cc1 \in {4, 6} /\ f.mdt))

\* handleCC1(): the fill is not guarded against the end of the screen
HandleCC1(p, cc1) ==
    LET s == p.s
        nulled == UNION {Cells(s, s.fields[i]) : i \in {j \in DOMAIN s.fields : Nulls(cc1, s.fields[j])}}
    IN  [p EXCEPT
            !.s = [Fill(s, nulled, Blank) EXCEPT
                    !.locked = @ \/ cc1 # 0,
                    !.fields = [i \in DOMAIN s.fields |->
                        [s.fields[i] EXCEPT !.mdt = @ /\ ~ResetsMdt(cc1, s.fields[i])]]],
            !.clearStale = @ \/ cc1 \in {2, 3, 5, 6, 7}]

HandleCC2(p, cc2) == [p EXCEPT !.s.locked = @ /\ "unlock" \notin cc2]

FaultyClearStaleFieldsOnce(p) == p

\* clearStaleFieldsOnce(): the first field of a repaint drops the old format
ClearStaleFieldsOnce(p) ==
    IF p.clearStale THEN [p EXCEPT !.s.fields = <<>>, !.clearStale = FALSE] ELSE p

-----------------------------------------------------------------------------
(* Orders.  A run of orders carries q = [p, addr, ic, cut]: where the next *)
(* character goes, the cursor address an IC or MC left, and whether the    *)
(* record ended inside an order.                                           *)

NextAddr(s, a) == IF a + 1 >= Size(s) THEN 0 ELSE a + 1

WriteChar(q, ch) ==
    [q EXCEPT !.p.s = SetCharAt(@, q.addr, ch), !.addr = NextAddr(q.p.s, @)]

SetBufferAddress(q, o) ==
    LET to == InWindow(q.p, o)
    IN  IF OnScreen(q.p.s, to) THEN [q EXCEPT !.addr = Offset(q.p.s, to)] ELSE q

InsertCursor(q, o) ==
    [q EXCEPT !.ic = InWindow(q.p, o), !.p.s.pendingInsert = InWindow(q.p, o)]

MoveCursor(q, o) == [q EXCEPT !.ic = InWindow(q.p, o)]

\* The cells from addr to target inclusive, round the end of the screen
Span(s, addr, target) ==
    IF target >= addr THEN addr .. target ELSE (addr .. Size(s) - 1) \cup (0 .. target)

\* RA leaves the address after the last cell, which may be past the screen
RepeatToAddress(q, o) ==
    LET s == q.p.s
        target == Offset(s, InWindow(q.p, o))
    IN  [q EXCEPT !.p.s = FillOnScreen(s, Span(s, q.addr, target), o.ch),
                  !.addr = IF target < q.addr THEN target + 1
                           ELSE Max({q.addr, Min({target + 1, Size(s)})})]

\* EA wraps it
EraseToAddress(q, o) ==
    LET s == q.p.s
        target == Offset(s, InWindow(q.p, o))
    IN  [q EXCEPT !.p.s = FillOnScreen(s, Span(s, q.addr, target), Blank),
                  !.addr = NextAddr(s, target)]

\* SOH: a new format.  A header that is too long ends the record.
StartOfHeader(q, o) ==
    LET s == q.p.s
        header == IF o.valid THEN [line |-> o.line, attention |-> o.attention] ELSE s.header
    IN  [q EXCEPT !.p.s = [s EXCEPT !.fields = <<>>, !.selections = {}, !.locked = TRUE,
                                    !.pendingInsert = None, !.header = header],
                  !.ic = None, !.cut = ~o.valid]

\* TD does not wrap
TransparentData(q, o) ==
    LET n == Len(o.text)
        written == [a \in (q.addr .. q.addr + n - 1) \cap (0 .. Size(q.p.s) - 1) |->
                        o.text[a - q.addr + 1]]
    IN  [q EXCEPT !.p.s.buf = Over(written, @), !.addr = @ + n]

\* A display attribute outside a field definition: a field of its own,
\* protected unless it hides what is typed
FieldAttribute(q, o) ==
    LET s == SetCharAt(q.p.s, q.addr, Blank)
        at == ToRowCol(s, q.addr + 1)
        f == [row |-> at.row, col |-> at.col, len |-> 0, input |-> o.attr = "hidden",
              mdt |-> FALSE, synthetic |-> TRUE, attr |-> o.attr, cont |-> "no",
              reseq |-> 0, fer |-> FALSE, signed |-> FALSE, adjust |-> "no"]
        cleared == ClearStaleFieldsOnce([q.p EXCEPT !.s = s])
    IN  [q EXCEPT !.p = [cleared EXCEPT !.s.fields = Append(@, f)], !.addr = @ + 1]

\* The field an SF redefines in place: what it keeps is its modified flag,
\* its place in a group, its Tab order, and its length if none is declared
Redefined(old, f) ==
    [old EXCEPT !.input = f.input, !.fer = f.fer, !.signed = f.signed,
                !.adjust = f.adjust, !.attr = f.attr, !.synthetic = FALSE,
                !.len = IF f.len > 0 THEN f.len ELSE @]

\* SF.  o.ffw: with a format word, so that o.input is its bypass bit; the
\* cell after a declared length takes the attribute that ends the field
StartField(q, o) ==
    LET s == SetCharAt(q.p.s, q.addr, Blank)
        at == ToRowCol(s, q.addr + 1)
        f == [row |-> at.row, col |-> at.col, len |-> o.len, input |-> o.ffw /\ o.input,
              mdt |-> o.ffw /\ o.mdt, synthetic |-> FALSE, attr |-> o.attr,
              cont |-> o.cont, reseq |-> o.reseq, fer |-> o.fer,
              signed |-> o.signed, adjust |-> o.adjust]
        cleared == ClearStaleFieldsOnce([q.p EXCEPT !.s = s])
        there == {i \in DOMAIN cleared.s.fields : Place(cleared.s.fields[i]) = at}
        defined == IF o.ffw /\ there # {}
                   THEN [cleared EXCEPT !.s.fields[Min(there)] = Redefined(@, f)]
                   ELSE [cleared EXCEPT !.s.fields = Append(@, f)]
        end == Start(s, f) + o.len
        ended == IF o.ffw /\ o.len > 0
                 THEN SetCharAt(defined.s, IF end >= Size(s) THEN end - Size(s) ELSE end, Blank)
                 ELSE defined.s
    IN  [q EXCEPT !.p = [defined EXCEPT !.s = ended], !.addr = @ + 1]

\* CREATE_WINDOW: at the cursor; later addresses are relative to its content
CreateWindow(q, o) ==
    LET s == q.p.s
        c == s.cursor
        tracked == TrackWindow(s, [row |-> c.row, col |-> c.col,
                                   height |-> o.depth, width |-> o.width])
    IN  [q EXCEPT
            !.p.s = EraseRegion(RenderWindowBorder(tracked, c, o.depth, o.width),
                                c.row + 1, c.col + 1, c.row + o.depth, c.col + o.width),
            !.p.win = [row |-> c.row + 1, col |-> c.col + 1]]

\* REM_GUI_WINDOW: the window under the cursor, or the last one
RemoveWindow(q) ==
    LET s == q.p.s
        under == {i \in DOMAIN s.windows :
                    LET w == s.windows[i]
                    IN  /\ s.cursor.row \in w.row .. w.row + w.height
                        /\ s.cursor.col \in w.col .. w.col + w.width}
        gone == IF under # {} THEN Min(under) ELSE Len(s.windows)
        left == IF s.windows = <<>> THEN s.windows ELSE RemoveAt(s.windows, gone)
    IN  [q EXCEPT !.p.s = [s EXCEPT !.windows = left, !.scrollbars = {}], !.p.win = Home]

RemoveAllGui(q) ==
    [q EXCEPT !.p.s = [q.p.s EXCEPT !.windows = <<>>, !.selections = {}, !.scrollbars = {}],
              !.p.win = Home]

\* Selection fields and scroll bars replace the one at the same place
DefineSelectionField(q) == [q EXCEPT !.p.s.selections = @ \cup {q.p.s.cursor}]
DefineScrollbar(q) == [q EXCEPT !.p.s.scrollbars = @ \cup {q.p.s.cursor}]
RemoveSelectionFields(q) == [q EXCEPT !.p.s.selections = {}]
RemoveScrollbars(q) == [q EXCEPT !.p.s.scrollbars = {}]

\* TEXT stands for characters and for WDSF WRITE_DATA, which wrap alike
ParseOrder(q, o) ==
    CASE q.cut -> q
      [] ~q.cut /\ o.o = "CUT" -> [q EXCEPT !.cut = TRUE]
      [] ~q.cut /\ o.o = "SBA" -> SetBufferAddress(q, o)
      [] ~q.cut /\ o.o = "IC" -> InsertCursor(q, o)
      [] ~q.cut /\ o.o = "MC" -> MoveCursor(q, o)
      [] ~q.cut /\ o.o = "RA" -> RepeatToAddress(q, o)
      [] ~q.cut /\ o.o = "EA" -> EraseToAddress(q, o)
      [] ~q.cut /\ o.o = "SOH" -> StartOfHeader(q, o)
      [] ~q.cut /\ o.o = "TD" -> TransparentData(q, o)
      [] ~q.cut /\ o.o = "TEXT" -> FoldLeft(WriteChar, q, o.text)
      [] ~q.cut /\ o.o = "ATTR" -> FieldAttribute(q, o)
      [] ~q.cut /\ o.o = "SF" -> StartField(q, o)
      [] ~q.cut /\ o.o = "WINDOW" -> CreateWindow(q, o)
      [] ~q.cut /\ o.o = "SELECTION" -> DefineSelectionField(q)
      [] ~q.cut /\ o.o = "SCROLLBAR" -> DefineScrollbar(q)
      [] ~q.cut /\ o.o = "REM_WINDOW" -> RemoveWindow(q)
      [] ~q.cut /\ o.o = "REM_SELECTION" -> RemoveSelectionFields(q)
      [] ~q.cut /\ o.o = "REM_SCROLLBAR" -> RemoveScrollbars(q)
      [] ~q.cut /\ o.o = "REM_ALL" -> RemoveAllGui(q)

\* The cursor after the orders: an IC or MC, else home when the keyboard is
\* given back or the screen restored, else where it was
CursorAfterOrders(q, cc2, restoring, before) ==
    LET hasIC == q.ic # None /\ q.ic.row >= 0 /\ q.ic.col >= 0
        s == q.p.s
    IN  CASE q.cut -> s
          [] ~q.cut /\ hasIC /\ "keep" \notin cc2 -> [s EXCEPT !.cursor = q.ic]
          [] ~q.cut /\ ~(hasIC /\ "keep" \notin cc2) ->
                IF restoring \/ ("unlock" \in cc2 /\ "keep" \notin cc2)
                THEN SetCursorHome(s)
                ELSE [s EXCEPT !.cursor = before]

\* parseOrders()
AfterOrders(q, cc2, restoring, before) ==
    [q.p EXCEPT !.s = CursorAfterOrders(q, cc2, restoring, before)]

ParseOrders(p, orders, cc2, restoring) ==
    AfterOrders(FoldLeft(ParseOrder,
                    [p |-> p, addr |-> Offset(p.s, p.s.cursor), ic |-> None, cut |-> FALSE],
                    orders),
                cc2, restoring, p.s.cursor)

-----------------------------------------------------------------------------
(* Commands.                                                               *)

FaultyClearUnit(p, rows, cols) ==
    [p EXCEPT !.s = [Resize(p.s, rows, cols) EXCEPT !.locked = TRUE, !.windows = <<>>]]

\* CLEAR_UNIT and CLEAR_UNIT_ALT, for their two sizes
ClearUnit(p, rows, cols) ==
    [p EXCEPT !.s = [Resize(p.s, rows, cols) EXCEPT
                        !.locked = TRUE, !.insert = FALSE, !.pendingInsert = None,
                        !.errorCursor = None, !.windows = <<>>, !.selections = {},
                        !.scrollbars = {}, !.msgLine = None,
                        !.header = [line |-> 0, attention |-> {}]],
              !.win = Home]

ClearFormatTable(p) ==
    [p EXCEPT !.s = [p.s EXCEPT !.fields = <<>>, !.cursor = Home, !.locked = TRUE,
                                !.insert = FALSE]]

WriteToDisplay(p, c, restoring) ==
    ParseOrders(HandleCC2(HandleCC1(p, c.cc1), c.cc2), c.orders, c.cc2, restoring)

\* WRITE_ERROR_CODE: the message goes on the message line, what was there and
\* the cursor are kept for Reset, an IC in range moves the cursor
WriteErrorCode(p, c) ==
    LET s == SaveMsgLine([p.s EXCEPT !.errorCursor = p.s.cursor])
        first == MsgLineRow(s) * s.cols
        text == [a \in (first .. first + Len(c.text) - 1) \cap (0 .. Size(s) - 1) |->
                    c.text[a - first + 1]]
    IN  [p EXCEPT !.s = [s EXCEPT !.buf = Over(text, @), !.locked = TRUE,
                                  !.cursor = IF c.ic # None /\ OnScreen(s, c.ic)
                                             THEN c.ic ELSE @]]

FaultyReadCommand(p, c) ==
    LET q == HandleCC2(HandleCC1(p, c.cc1), c.cc2)
    IN  [q EXCEPT !.s.locked = FALSE, !.s.readOp = c.op]

\* A read gives the keyboard back unless an error message is up
ReadCommand(p, c) ==
    LET q == HandleCC2(HandleCC1(p, c.cc1), c.cc2)
    IN  [q EXCEPT !.s.locked = @ /\ q.s.errorCursor # None, !.s.readOp = c.op]

\* ROLL and rollBuffer(): lines up (negative) or down, the cells only
Roll(p, c) ==
    LET s == p.s
        rolled == [a \in {b \in 0 .. Size(s) - 1 : b \div s.cols \in c.top .. c.bot} |->
                    LET from == (a \div s.cols) - c.lines
                    IN  IF from \in c.top .. c.bot THEN s.buf[a - c.lines * s.cols]
                        ELSE Blank]
    IN  IF 0 <= c.top /\ c.top <= c.bot /\ c.bot < s.rows
        THEN [p EXCEPT !.s.buf = Over(rolled, @)]
        ELSE p

\* One command of parseCommands(); ORDERS are orders no command precedes, the
\* other commands are skipped
ParseCommand(p, c, restoring) ==
    CASE c.c = "CLEAR_UNIT" -> ClearUnit(p, c.rows, c.cols)
      [] c.c = "CLEAR_FORMAT_TABLE" -> ClearFormatTable(p)
      [] c.c = "WTD" -> WriteToDisplay(p, c, restoring)
      [] c.c = "ORDERS" -> ParseOrders(p, c.orders, {}, FALSE)
      [] c.c = "ERROR" -> WriteErrorCode(p, c)
      [] c.c = "READ" -> ReadCommand(p, c)
      [] c.c = "ROLL" -> Roll(p, c)
      [] c.c = "QUERY" -> [p EXCEPT !.query = TRUE]
      [] c.c = "SKIPPED" -> p

\* parseRecord(): the opcode, then the commands
Opened(p, op) ==
    CASE op = "SAVE" -> [p EXCEPT !.s = SaveState(@)]
      [] op = "RESTORE" -> [p EXCEPT !.s = [RestoreState(@) EXCEPT !.windows = <<>>], !.win = Home]
      [] op = "OUTPUT" -> p

ParseRecord(p, r) ==
    FoldLeft(LAMBDA q, c : ParseCommand(q, c, r.op = "RESTORE"), Opened(p, r.op), r.cmds)

\* Whether the record changed the screen, as the parser reports it
Modifies(r) ==
    \/ r.op \in {"SAVE", "RESTORE"}
    \/ \E i \in DOMAIN r.cmds : r.cmds[i].c \notin {"QUERY", "SKIPPED"}

-----------------------------------------------------------------------------
(* calculateFieldLengths(), after every record that changed the screen.    *)

\* The fields in order of place, those at one place in order of arrival
Sorted(s) ==
    LET n == Len(s.fields)
        before(i, j) == \/ Start(s, s.fields[i]) < Start(s, s.fields[j])
                        \/ Start(s, s.fields[i]) = Start(s, s.fields[j]) /\ i < j
        rank(i) == Cardinality({j \in 1 .. n : before(j, i)}) + 1
    IN  [k \in 1 .. n |-> s.fields[CHOOSE i \in 1 .. n : rank(i) = k]]

FaultyInferredLength(s, fields, i) ==
    LET f == fields[i]
        gap == IF i < Len(fields)
               THEN Start(s, fields[i + 1]) - Start(s, f) - 1
               ELSE (Size(s) - Start(s, f)) + Start(s, fields[1]) - 1
    IN  IF f.len > 0 THEN f.len ELSE Max({1, gap})

\* The length of a field that declares none: up to the attribute of the next
\* field, within its own row, at least one
InferredLength(s, fields, i) ==
    LET f == fields[i]
        gap == IF i < Len(fields)
               THEN Start(s, fields[i + 1]) - Start(s, f) - 1
               ELSE (Size(s) - Start(s, f)) + Start(s, fields[1]) - 1
    IN  IF f.len > 0 THEN f.len ELSE Max({1, Min({gap, s.cols - f.col})})

\* "Sign On" within the first three rows; the character S stands for it
OnSignOnScreen(s) ==
    \E a \in 0 .. Min({3, s.rows}) * s.cols - 1 : s.buf[a] = "S"

\* A hidden field no SF defined is an input field on the sign-on screen only
Demoted(s, f) ==
    [f EXCEPT !.input = @ /\ (f.synthetic => OnSignOnScreen(s))]

\* Of the fields at one place the last defined by an SF stays, else the last
Kept(fields, i) ==
    LET same == {j \in DOMAIN fields : Place(fields[j]) = Place(fields[i])}
        explicit == {j \in same : ~fields[j].synthetic}
    IN  i = IF explicit # {} THEN Max(explicit) ELSE Max(same)

\* The cursor leaves the protected part of the screen for the first input field
HomedToField(s, fields) ==
    LET at == Offset(s, s.cursor)
        inputs == {i \in DOMAIN fields : fields[i].input}
    IN  IF inputs = {} \/ \E i \in DOMAIN fields : at \in Cells(s, fields[i])
        THEN s.cursor ELSE Place(fields[Min(inputs)])

WithFields(s, fields) ==
    LET kept == {i \in DOMAIN fields : Kept(fields, i)}
    IN  [s EXCEPT !.fields = [k \in 1 .. Cardinality(kept) |-> fields[
                        CHOOSE i \in kept : Cardinality({j \in kept : j < i}) = k - 1]],
                  !.cursor = HomedToField(s, fields)]

WithLengths(s, sorted) ==
    [i \in DOMAIN sorted |->
        Demoted(s, [sorted[i] EXCEPT !.len = InferredLength(s, sorted, i)])]

CalculateFieldLengths(s) ==
    IF s.fields = <<>> THEN s ELSE WithFields(s, WithLengths(s, Sorted(s)))

\* A record from the socket to the screen: parseRecordGuarded() up to the emit
Popped(p) ==
    IF p.win = Home /\ p.s.fields # <<>> THEN [p EXCEPT !.s = SynthesizeWindow(@)] ELSE p

Answering(p, modified) ==
    IF modified THEN Popped([p EXCEPT !.query = FALSE, !.s = CalculateFieldLengths(@)])
    ELSE [p EXCEPT !.query = FALSE]

Received(p, r) ==
    Answering(ParseRecord(p, r), Modifies(r))
=============================================================================
