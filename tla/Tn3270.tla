------------------------------- MODULE Tn3270 -------------------------------
(***************************************************************************)
(* A 3270 display session: tn3270/screen.ts, parser.ts and encoder.ts, and *)
(* the keys of protocols/tn3270-handler.ts.  The screen is one record s.   *)
(* A cell has a character (rawBuffer: Nul where nothing was written) and   *)
(* may hold a field attribute, which is the set of its bits that matter.   *)
(* Colours, highlighting and the graphic escape are left out, and so are   *)
(* orders cut off by the end of a record, which do nothing.                *)
(***************************************************************************)
EXTENDS Integers, Sequences, FiniteSets, FiniteSetsExt, SequencesExt

CONSTANTS
    None,
    Default, Alternate,  \* the dimensions of the model: [rows, cols]
    Records,             \* the records the host may send
    Texts,               \* what is typed in one call
    Keys,                \* the keys the terminal keeps to itself
    Attentions,          \* the AID keys
    MaxEvents            \* bound: records and inputs of a connection

VARIABLES
    s,         \* the screen, with what the parser owes the host
    answer,    \* what the last step sent, a sequence of answers
    painted,   \* the characters as the host, or a reset of the flags, left them
    events     \* records and inputs so far

vars == <<s, answer, painted, events>>

Nul == "nul"
Blank == " "

Size(t) == t.rows * t.cols
Cell(t, a) == a % Size(t)
Addresses(t) == 0 .. Size(t) - 1

\* The addresses from a up to before b, around the end of the screen
Span(t, a, b) == {Cell(t, a + i) : i \in 0 .. ((b - a) % Size(t)) - 1}

Cleared(t) ==
    [t EXCEPT !.raw = [a \in Addresses(t) |-> Nul], !.attr = [a \in Addresses(t) |-> None],
              !.fields = <<>>, !.cursor = 0, !.current = 0]

Fresh ==
    Cleared([rows |-> Default.rows, cols |-> Default.cols, raw |-> <<>>, attr |-> <<>>,
             fields |-> <<>>, cursor |-> 0, current |-> 0,
             locked |-> FALSE, insert |-> FALSE, lastAid |-> None])

\* reset(): the dimensions stay
Reset(t) == [Cleared(t) EXCEPT !.locked = FALSE, !.insert = FALSE, !.lastAid = None]

\* useAlternate()
Use(t, dims) ==
    IF dims.rows = t.rows /\ dims.cols = t.cols THEN t
    ELSE Cleared([t EXCEPT !.rows = dims.rows, !.cols = dims.cols])

-----------------------------------------------------------------------------
(* Fields: what lies between two attributes, around the end of the screen. *)

AttrCells(t) == {a \in Addresses(t) : t.attr[a] # None}

\* rebuildFields(): a field copies the flags of its attribute
FieldsOf(t) ==
    LET at == SetToSortSeq(AttrCells(t), <)
        next(i) == at[IF i = Len(at) THEN 1 ELSE i + 1]
    IN  [i \in DOMAIN at |->
            [at |-> at[i], start |-> Cell(t, at[i] + 1),
             len |-> (next(i) - (at[i] + 1)) % Size(t),
             prot |-> "prot" \in t.attr[at[i]], mdt |-> "mdt" \in t.attr[at[i]]]]

OffsetIn(t, f, a) == (a - f.start) % Size(t)

CellsOf(t, f) == {Cell(t, f.start + i) : i \in 0 .. f.len - 1}

\* getFieldAt(), 0 if none
FieldAt(t, a) ==
    LET I == {i \in DOMAIN t.fields : OffsetIn(t, t.fields[i], a) < t.fields[i].len}
    IN  IF I = {} THEN 0 ELSE Min(I)

FieldAtCursor(t) == FieldAt(t, t.cursor)

Unprotected(t) == {i \in DOMAIN t.fields : ~t.fields[i].prot}

\* The field to type in, 0 if there is none under the cursor
EntryField(t) == IF FieldAtCursor(t) \in Unprotected(t) THEN FieldAtCursor(t) ELSE 0

FaultyMarkModified(t, i) == [t EXCEPT !.fields[i].mdt = TRUE]

\* markModified(): the field, and the attribute that outlives it
MarkModified(t, i) ==
    [t EXCEPT !.fields[i].mdt = TRUE, !.attr[t.fields[i].at] = @ \cup {"mdt"}]

Erase(t, A) == [t EXCEPT !.raw = [a \in DOMAIN @ |-> IF a \in A THEN Nul ELSE @[a]]]

\* clearUnprotected()
ClearUnprotected(t) ==
    LET cells == UNION {CellsOf(t, t.fields[i]) : i \in Unprotected(t)}
        attrs == {t.fields[i].at : i \in Unprotected(t)}
    IN  [Erase(t, cells) EXCEPT
            !.fields = [i \in DOMAIN @ |-> [@[i] EXCEPT !.mdt = @ /\ i \notin Unprotected(t)]],
            !.attr = [a \in DOMAIN @ |-> IF a \in attrs THEN @[a] \ {"mdt"} ELSE @[a]]]

\* inputFieldsInOrder()
InputRing(t) ==
    SetToSortSeq(Unprotected(t), LAMBDA i, j : t.fields[i].start < t.fields[j].start)

-----------------------------------------------------------------------------
(* Orders, on q: the screen q.t, and q.modified (writeModified).           *)

Advance(q, n) == [q EXCEPT !.t.current = Cell(q.t, @ + n), !.modified = TRUE]

WriteChar(q, ch) == Advance([q EXCEPT !.t.raw[q.t.current] = ch], 1)

StartField(q, attr) ==
    Advance([q EXCEPT !.t.attr[q.t.current] = attr, !.t.raw[q.t.current] = Nul], 1)

\* SFE without a basic attribute is protected
StartFieldExtended(q, attr) == StartField(q, IF attr = None THEN {"prot"} ELSE attr)

\* MF: skipped where there is no attribute
ModifyField(q, attr) ==
    IF q.t.attr[q.t.current] = None THEN q
    ELSE Advance(IF attr = None THEN q ELSE [q EXCEPT !.t.attr[q.t.current] = attr], 1)

FaultyProgramTab(q) ==
    LET size == Size(q.t)
        D == {d \in 1 .. size - 1 :
                LET attr == q.t.attr[Cell(q.t, q.t.current + d)]
                IN  attr # None /\ "prot" \notin attr}
    IN  IF D = {} THEN q ELSE [q EXCEPT !.t.current = @ + Min(D) + 1]

\* PT: behind the next unprotected attribute, if there is one
ProgramTab(q) ==
    LET size == Size(q.t)
        D == {d \in 1 .. size - 1 :
                LET attr == q.t.attr[Cell(q.t, q.t.current + d)]
                IN  attr # None /\ "prot" \notin attr}
    IN  IF D = {} THEN q ELSE [q EXCEPT !.t.current = Cell(q.t, @ + Min(D) + 1)]

\* RA: up to the stop address, the whole screen if that is where it starts
RepeatToAddress(q, stop, ch) ==
    LET A == IF stop = q.t.current THEN Addresses(q.t) ELSE Span(q.t, q.t.current, stop)
    IN  [q EXCEPT !.t.raw = [a \in DOMAIN @ |-> IF a \in A THEN ch ELSE @[a]],
                  !.t.current = stop, !.modified = TRUE]

\* governingAttr(): the nearest attribute before an address
GoverningAttr(t, a) ==
    IF AttrCells(t) = {} THEN None
    ELSE LET d == CHOOSE d \in 1 .. Size(t) :
                    /\ t.attr[Cell(t, a - d)] # None
                    /\ \A e \in 1 .. d - 1 : t.attr[Cell(t, a - e)] = None
         IN  t.attr[Cell(t, a - d)]

Erasable(t, a) ==
    /\ t.attr[a] = None
    /\ GoverningAttr(t, a) = None \/ "prot" \notin GoverningAttr(t, a)

\* EUA: nothing, if the stop address is where it starts
EraseUnprotected(q, stop) ==
    LET A == {a \in Span(q.t, q.t.current, stop) : Erasable(q.t, a)}
    IN  [q EXCEPT !.t = [Erase(q.t, A) EXCEPT !.current = stop], !.modified = TRUE]

\* applyOrder()
ApplyOrder(q, o) ==
    CASE o.o = "SBA" -> [q EXCEPT !.t.current = Cell(q.t, o.addr)]
      [] o.o = "SF" -> StartField(q, o.attr)
      [] o.o = "SFE" -> StartFieldExtended(q, o.attr)
      [] o.o = "MF" -> ModifyField(q, o.attr)
      [] o.o = "IC" -> [q EXCEPT !.t.cursor = q.t.current]
      [] o.o = "PT" -> ProgramTab(q)
      [] o.o = "RA" -> RepeatToAddress(q, Cell(q.t, o.addr), o.ch)
      [] o.o = "EUA" -> EraseUnprotected(q, Cell(q.t, o.addr))
      [] o.o = "TEXT" -> FoldLeft(WriteChar, q, o.text)

\* applyWCC()
ApplyWCC(t, wcc) ==
    LET attrs == {t.fields[i].at : i \in DOMAIN t.fields}
        bare(attr) == IF attr = None THEN None ELSE attr \ {"mdt"}
        reset == [t EXCEPT
            !.fields = [i \in DOMAIN @ |-> [@[i] EXCEPT !.mdt = FALSE]],
            !.attr = [a \in DOMAIN @ |-> IF a \in attrs THEN bare(@[a]) ELSE @[a]]]
    IN  [IF "reset" \in wcc THEN reset ELSE t
            EXCEPT !.locked = @ /\ "restore" \notin wcc]

\* parseWrite()
ParseWrite(t, r) ==
    FoldLeft(ApplyOrder, [t |-> ApplyWCC(t, r.wcc), modified |-> FALSE], r.orders)

\* parseRecord(), without the replies it asks for
ParseRecord(t, r) ==
    LET q == CASE r.c = "WRITE" -> ParseWrite(t, r)
               [] r.c = "EW" -> ParseWrite(Cleared(Use(t, Default)), r)
               [] r.c = "EWA" -> ParseWrite(Cleared(Use(t, Alternate)), r)
               [] r.c = "EAU" -> [t |-> [ClearUnprotected(t) EXCEPT !.locked = FALSE],
                                  modified |-> TRUE]
               [] r.c = "QUERY" -> [t |-> t, modified |-> TRUE]
               [] r.c = "READ" -> [t |-> t, modified |-> FALSE]
    IN  [q EXCEPT !.t.fields = IF q.modified THEN FieldsOf(q.t) ELSE @]

-----------------------------------------------------------------------------
(* Answers. *)

ShortReads == {"PA1", "Clear"}

\* What is in the cells of a field, without the Nuls and the blanks at its end
FieldData(t, f) ==
    LET text == SelectSeq([i \in 1 .. f.len |-> t.raw[Cell(t, f.start + i - 1)]],
                          LAMBDA ch : ch # Nul)
        ink == {i \in DOMAIN text : text[i] # Blank}
    IN  IF ink = {} THEN <<>> ELSE SubSeq(text, 1, Max(ink))

FaultySent(f) == f.mdt

Sent(f) == f.mdt /\ ~f.prot

\* buildReadModified()
ReadModified(t, aid, all) ==
    IF ~all /\ aid \in ShortReads THEN [aid |-> aid]
    ELSE LET fields == SelectSeq(t.fields, Sent)
         IN  [aid |-> aid, cursor |-> t.cursor,
              fields |-> [i \in DOMAIN fields |->
                            [start |-> fields[i].start, text |-> FieldData(t, fields[i])]]]

\* buildReadBufferReply(): an attribute goes as itself, whatever was written on it
ReadBuffer(t) ==
    [aid |-> t.lastAid, cursor |-> t.cursor,
     cells |-> [a \in Addresses(t) |-> IF t.attr[a] # None THEN t.attr[a] ELSE t.raw[a]]]

\* flushHostReplies()
Replies(t, r) ==
    CASE r.c = "QUERY" -> <<[aid |-> "StructuredField", rows |-> t.rows, cols |-> t.cols]>>
      [] r.c = "READ" /\ r.kind = "buffer" -> <<ReadBuffer(t)>>
      [] r.c = "READ" /\ r.kind # "buffer" -> <<ReadModified(t, t.lastAid, r.kind = "all")>>
      [] OTHER -> <<>>

-----------------------------------------------------------------------------
(* Keys. *)

FaultyShiftRight(t, f, a) ==
    LET moved == {Cell(t, f.start + i) : i \in OffsetIn(t, f, a) + 1 .. f.len}
    IN  [t EXCEPT !.raw = [c \in DOMAIN @ |-> IF c \in moved THEN @[Cell(t, c - 1)] ELSE @[c]]]

\* shiftRightFrom()
ShiftRight(t, f, a) ==
    LET moved == {Cell(t, f.start + i) : i \in OffsetIn(t, f, a) + 1 .. f.len - 1}
    IN  [t EXCEPT !.raw = [c \in DOMAIN @ |-> IF c \in moved THEN @[Cell(t, c - 1)] ELSE @[c]]]

\* insertText(), one character: what is past the field is dropped
TypeChar(t, f, ch) ==
    IF t.cursor = Cell(t, f.start + f.len) THEN t
    ELSE LET shifted == IF t.insert THEN ShiftRight(t, f, t.cursor) ELSE t
         IN  [shifted EXCEPT !.raw[t.cursor] = ch, !.cursor = Cell(t, @ + 1)]

\* A field filled up to a protected attribute: on to the next field
Autoskip(t, f) ==
    LET ring == InputRing(t)
        later == {k \in DOMAIN ring : t.fields[ring[k]].start > f.start}
        next == ring[IF later = {} THEN 1 ELSE Min(later)]
        attr == t.attr[t.cursor]
    IN  IF t.cursor = Cell(t, f.start + f.len) /\ attr # None /\ "prot" \in attr
        THEN [t EXCEPT !.cursor = t.fields[next].start] ELSE t

InsertText(t, text) ==
    LET i == EntryField(t)
        f == t.fields[i]
        typed == FoldLeft(LAMBDA u, ch : TypeChar(u, f, ch), t, text)
    IN  IF i = 0 THEN t ELSE Autoskip(MarkModified(typed, i), f)

FaultyDeleteChar(t, i, a) ==
    LET f == t.fields[i]
        last == Cell(t, f.start + f.len - 1)
    IN  [t EXCEPT !.raw = [c \in DOMAIN @ |->
            IF c = last THEN Nul ELSE IF c \in Span(t, a, last) THEN @[Cell(t, c + 1)] ELSE @[c]]]

\* deleteCharAt()
DeleteChar(t, i, a) ==
    LET f == t.fields[i]
        last == Cell(t, f.start + f.len - 1)
    IN  MarkModified([t EXCEPT !.raw = [c \in DOMAIN @ |->
            IF c = last THEN Nul ELSE IF c \in Span(t, a, last) THEN @[Cell(t, c + 1)] ELSE @[c]]],
            i)

\* eraseToFieldEnd()
EraseToFieldEnd(t, i, a) ==
    MarkModified(Erase(t, Span(t, a, t.fields[i].start + t.fields[i].len)), i)

Backspace(t) ==
    LET i == EntryField(t)
        back == Cell(t, t.cursor - 1)
    IN  IF i = 0 THEN t
        ELSE IF OffsetIn(t, t.fields[i], t.cursor) = 0 THEN t
        ELSE DeleteChar([t EXCEPT !.cursor = back], i, back)

Home(t) == IF Unprotected(t) = {} THEN t
           ELSE [t EXCEPT !.cursor = t.fields[InputRing(t)[1]].start]

\* End: behind the data of the field, on its last cell at most
End(t) ==
    LET i == EntryField(t)
        f == t.fields[i]
        ink == {n \in 1 .. f.len : t.raw[Cell(t, f.start + n - 1)] \notin {Nul, Blank}}
        data == IF ink = {} THEN 0 ELSE Max(ink)
    IN  IF i = 0 THEN t
        ELSE [t EXCEPT !.cursor = Cell(t, f.start + Min({data, f.len - 1}))]

FaultyTabTarget(t, forward) ==
    LET ring == InputRing(t)
        here == {k \in DOMAIN ring : ring[k] = EntryField(t)}
        behind == {k \in DOMAIN ring : t.fields[ring[k]].start > t.cursor}
        before == {k \in DOMAIN ring : t.fields[ring[k]].start < t.cursor}
        step(k) == IF forward THEN Min({k + 1, Len(ring)}) ELSE Max({k - 1, 1})
    IN  IF here # {} THEN ring[step(Min(here))]
        ELSE IF forward THEN ring[IF behind = {} THEN 1 ELSE Min(behind)]
        ELSE ring[IF before = {} THEN Len(ring) ELSE Max(before)]

\* tabToField(): from a field the next of the ring, elsewhere by the address
TabTarget(t, forward) ==
    LET ring == InputRing(t)
        here == {k \in DOMAIN ring : ring[k] = EntryField(t)}
        behind == {k \in DOMAIN ring : t.fields[ring[k]].start > t.cursor}
        before == {k \in DOMAIN ring : t.fields[ring[k]].start < t.cursor}
        step(k) == IF forward THEN (k % Len(ring)) + 1 ELSE ((k - 2) % Len(ring)) + 1
    IN  IF here # {} THEN ring[step(Min(here))]
        ELSE IF forward THEN ring[IF behind = {} THEN 1 ELSE Min(behind)]
        ELSE ring[IF before = {} THEN Len(ring) ELSE Max(before)]

Tab(t, forward) ==
    IF Unprotected(t) = {} THEN t
    ELSE [t EXCEPT !.cursor = t.fields[TabTarget(t, forward)].start]

\* handleLocalKey(), eraseEOF()
LocalKey(t, key) ==
    CASE key = "left" -> [t EXCEPT !.cursor = Cell(t, @ - 1)]
      [] key = "right" -> [t EXCEPT !.cursor = Cell(t, @ + 1)]
      [] key = "up" -> [t EXCEPT !.cursor = Cell(t, @ - t.cols)]
      [] key = "down" -> [t EXCEPT !.cursor = Cell(t, @ + t.cols)]
      [] key = "Tab" -> Tab(t, TRUE)
      [] key = "Backtab" -> Tab(t, FALSE)
      [] key = "Home" -> Home(t)
      [] key = "End" -> End(t)
      [] key = "Insert" -> [t EXCEPT !.insert = ~@]
      [] key = "Reset" -> [t EXCEPT !.locked = FALSE, !.insert = FALSE]
      [] key = "Backspace" -> Backspace(t)
      [] key = "Delete" ->
            IF EntryField(t) = 0 THEN t ELSE DeleteChar(t, EntryField(t), t.cursor)
      [] key = "EraseEOF" ->
            IF EntryField(t) = 0 THEN t ELSE EraseToFieldEnd(t, EntryField(t), t.cursor)

-----------------------------------------------------------------------------
Init ==
    /\ s = Fresh
    /\ answer = <<>>
    /\ painted = Fresh.raw
    /\ events = 0

Happens(t) == events < MaxEvents /\ events' = events + 1 /\ s' = t

\* A record that says that the fields are as the host has them
Repaints(r) == r.c \in {"EW", "EWA", "EAU"} \/ (r.c = "WRITE" /\ "reset" \in r.wcc)

\* What the host knows: what it painted, and what was there when it said so
KnownAfter(r) ==
    IF Repaints(r) THEN s'.raw
    ELSE [a \in DOMAIN painted |-> IF s'.raw[a] # s.raw[a] THEN s'.raw[a] ELSE painted[a]]

\* onRecord()
HostSends(r) ==
    /\ Happens(ParseRecord(s, r).t)
    /\ answer' = Replies(s', r)
    /\ painted' = KnownAfter(r)

\* sendText()
TypeText(text) ==
    /\ Happens(InsertText(s, text))
    /\ answer' = <<>> /\ UNCHANGED painted

\* sendKey()
Press(key) ==
    /\ Happens(LocalKey(s, key))
    /\ answer' = <<>> /\ UNCHANGED painted

PressAid(key) ==
    /\ Happens([s EXCEPT !.locked = TRUE, !.lastAid = key])
    /\ answer' = <<ReadModified(s, key, FALSE)>>
    /\ UNCHANGED painted

\* setCursor(): refused outside of the screen
PlaceCursor(row, col) ==
    /\ row \in 0 .. s.rows - 1 /\ col \in 0 .. s.cols - 1
    /\ Happens([s EXCEPT !.cursor = row * s.cols + col])
    /\ answer' = <<>> /\ UNCHANGED painted

\* connect() on a handler that was connected before
Reconnect ==
    /\ events # 0
    /\ s' = Reset(s)
    /\ painted' = s'.raw
    /\ answer' = <<>>
    /\ events' = 0

Next ==
    \/ \E r \in Records : HostSends(r)
    \/ \E text \in Texts : TypeText(text)
    \/ \E key \in Keys : Press(key)
    \/ \E key \in Attentions : PressAid(key)
    \/ \E i \in DOMAIN s.fields :
          PlaceCursor(s.fields[i].start \div s.cols, s.fields[i].start % s.cols)
    \/ Reconnect

Spec == Init /\ [][Next]_vars

-----------------------------------------------------------------------------
TypeOK ==
    /\ DOMAIN s.raw = Addresses(s) /\ DOMAIN s.attr = Addresses(s)
    /\ s.cursor \in Addresses(s) /\ s.current \in Addresses(s)

(* The list of fields is always what the attributes on the screen say: no  *)
(* key and no record leaves a flag or an extent in one and not the other,  *)
(* so the next rebuild loses and revives nothing.                          *)
FieldsAreTheAttributes == s.fields = FieldsOf(s)

(* An unprotected cell that differs from what the host knows is in a field *)
(* that is flagged.                                                        *)
EditsAreMarked ==
    \A i \in Unprotected(s) :
        (\E a \in CellsOf(s, s.fields[i]) : s.raw[a] # painted[a]) => s.fields[i].mdt

(* Nothing the operator does changes a protected cell or an attribute.     *)
EditsStayInFields ==
    [][(\E text \in Texts : TypeText(text)) \/ (\E key \in Keys : Press(key)) =>
            /\ \A a \in Addresses(s) :
                  s'.raw[a] # s.raw[a] => \E i \in Unprotected(s) : a \in CellsOf(s, s.fields[i])
            /\ AttrCells(s') = AttrCells(s)]_vars

(* A key that sends data answers with every unprotected field the operator *)
(* changed, and with nothing that is protected.                            *)
EditsReachTheHost ==
    [][\A key \in Attentions \ ShortReads :
        PressAid(key) =>
            LET sent == {answer'[1].fields[k].start : k \in DOMAIN answer'[1].fields}
                edited == {i \in Unprotected(s) :
                            \E a \in CellsOf(s, s.fields[i]) : s.raw[a] # painted[a]}
            IN  /\ {s.fields[i].start : i \in edited} \subseteq sent
                /\ sent \subseteq {s.fields[i].start : i \in Unprotected(s)}]_vars

(* From an input field, Backtab goes back to where Tab came from.          *)
BacktabUndoesTab ==
    EntryField(s) # 0 =>
        Tab(Tab(s, TRUE), FALSE).cursor = s.fields[EntryField(s)].start

(* The form of the host is kept: flags and extents are in one place as in  *)
(* the other, what is protected stays, what was edited is flagged and      *)
(* sent, and Tab has a way back.                                           *)
FormIsKept ==
    /\ [](TypeOK /\ FieldsAreTheAttributes /\ EditsAreMarked /\ BacktabUndoesTab)
    /\ EditsStayInFields /\ EditsReachTheHost
=============================================================================
