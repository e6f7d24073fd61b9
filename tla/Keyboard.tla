------------------------------ MODULE Keyboard ------------------------------
(***************************************************************************)
(* TN5250Encoder of packages/proxy/src/tn5250/encoder.ts and the keys of   *)
(* TN5250Handler.sendKey(): what the operator's keys do to the screen, and *)
(* the answer an AID key sends.  A terminal is t = [s, park]: the screen   *)
(* and filledParkAt, the last cell of a field that typing has just filled  *)
(* (None otherwise).  Operators ending in Key are one call of sendKey().   *)
(***************************************************************************)
EXTENDS ScreenBuffer

End(s, f) == Start(s, f) + f.len

Unpark(t) == [t EXCEPT !.park = None]

MoveTo(t, i) == [t EXCEPT !.s.cursor = Place(t.s.fields[i])]

\* The input field under the cursor, 0 if there is none
EntryField(s) ==
    LET i == FieldAtCursor(s)
    IN  IF i # 0 /\ s.fields[i].input THEN i ELSE 0

OtherThan(i, next) == IF next = i THEN 0 ELSE next

FaultyAdvanceTarget(s, i) == OtherThan(i, AdjacentInputField(s, Start(s, s.fields[i]), TRUE))

\* Where typing goes when field i is full: nowhere from a field that wants a
\* Field Exit or a sign
AdvanceTarget(s, i) ==
    IF s.fields[i].fer \/ s.fields[i].signed THEN 0
    ELSE OtherThan(i, AdjacentInputField(s, Start(s, s.fields[i]), TRUE))

FaultyShiftRight(s, i, at) ==
    [s EXCEPT !.buf = Over([a \in at + 1 .. End(s, s.fields[i]) |-> CharAt(s, a - 1)], @)]

\* Insert mode: the rest of the field moves right, its last character goes
ShiftRight(s, i, at) ==
    [s EXCEPT !.buf = Over([a \in at + 1 .. End(s, s.fields[i]) - 1 |-> CharAt(s, a - 1)], @)]

FaultyTypeChar(u, ch, advance) ==
    LET end == End(u.s, u.s.fields[u.i])
        at == Min({u.at, end - 1})
    IN  [u EXCEPT !.s = Fill(@, {at}, ch), !.at = at + 1, !.typed = TRUE]

\* The text being typed is u = [s, i, at, past, typed, placed]: the field, the
\* cell, whether the field is full, whether it was typed into; a character that
\* cannot be placed ends the text.
PutChar(u, ch) ==
    [u EXCEPT !.s = Fill(IF u.s.insert /\ CharAt(u.s, u.at) # Blank
                         THEN ShiftRight(u.s, u.i, u.at) ELSE u.s,
                         {u.at}, ch),
              !.at = @ + 1, !.typed = TRUE]

\* On into field `next`, 0 if there is none
EnterField(u, next) ==
    IF next = 0 THEN [u EXCEPT !.placed = FALSE]
    ELSE [u EXCEPT !.s = IF u.typed THEN SetFieldMdt(@, u.i) ELSE @,
                   !.i = next, !.at = Start(u.s, u.s.fields[next]), !.past = FALSE]

Full(u) == u.past \/ u.at >= End(u.s, u.s.fields[u.i])

PutIfPlaced(u, ch) == IF u.placed THEN PutChar(u, ch) ELSE u

\* One character
TypeChar(u, ch, advance) ==
    PutIfPlaced(IF u.placed /\ Full(u)
                THEN EnterField(u, IF advance THEN AdvanceTarget(u.s, u.i) ELSE 0)
                ELSE u, ch)

\* insertText(); u.placed of the last character is its result
TypedText(t, text, advance) ==
    LET at == Offset(t.s, t.s.cursor)
        i == EntryField(t.s)
    IN  FoldLeft(LAMBDA u, ch : TypeChar(u, ch, advance),
                 [s |-> t.s, i |-> i, at |-> at, typed |-> FALSE, placed |-> TRUE,
                  past |-> t.park = at /\ at = End(t.s, t.s.fields[i]) - 1],
                 text)

\* The cursor after the text, and the park if the field is full
Typed(u) ==
    LET end == End(u.s, u.s.fields[u.i])
        at == IF u.at < end THEN u.at ELSE end - 1
    IN  [s |-> SetFieldMdt([u.s EXCEPT !.cursor = ToRowCol(u.s, at)], u.i),
         park |-> IF u.past \/ u.at >= end THEN end - 1 ELSE None]

InsertText(t, text, advance) ==
    IF EntryField(t.s) = 0 THEN Unpark(t) ELSE Typed(TypedText(t, text, advance))

\* Whether all of the text found a cell
Places(t, text, advance) == EntryField(t.s) # 0 /\ TypedText(t, text, advance).placed

-----------------------------------------------------------------------------
(* Keys that move the cursor or edit a field; each forgets the park.       *)

FaultyWrapped(n, size) == n

Wrapped(n, size) == IF n < 0 THEN size - 1 ELSE IF n >= size THEN 0 ELSE n

ArrowKey(t, dir) ==
    LET s == t.s
        c == s.cursor
        col == c.col + (CASE dir = "left" -> -1 [] dir = "right" -> 1 [] OTHER -> 0)
        row == c.row + (CASE dir = "up" \/ col < 0 -> -1
                          [] dir = "down" \/ (dir = "right" /\ col >= s.cols) -> 1
                          [] OTHER -> 0)
    IN  [Unpark(t) EXCEPT !.s.cursor =
            [row |-> Wrapped(row, s.rows),
             col |-> IF dir \in {"left", "right"} THEN Wrapped(col, s.cols) ELSE col]]

FaultyDeleteUnmarked(t, i, at) ==
    LET end == End(t.s, t.s.fields[i])
        moved == [a \in at .. end - 1 |-> IF a = end - 1 THEN Blank ELSE CharAt(t.s, a + 1)]
    IN  [t EXCEPT !.s.buf = Over(moved, @)]

\* deleteCharAtCursor(): the rest of the field moves left.  The modified flag
\* goes on this field, whatever group it is a part of.
DeleteAt(t, i, at) ==
    LET s == t.s
        end == End(s, s.fields[i])
        moved == [a \in at .. end - 1 |-> IF a = end - 1 THEN Blank ELSE CharAt(s, a + 1)]
    IN  [t EXCEPT !.s.buf = Over(moved, @),
                  !.s.fields[i].mdt = TRUE]

DeleteKey(t) ==
    LET i == EntryField(t.s)
    IN  IF i = 0 THEN Unpark(t) ELSE DeleteAt(Unpark(t), i, Offset(t.s, t.s.cursor))

\* Backspace compares columns: on a later row of a field that wraps, it does
\* nothing up to the column the field starts in
BackspaceKey(t) ==
    LET i == EntryField(t.s)
    IN  IF i = 0 \/ (i # 0 /\ t.s.cursor.col <= t.s.fields[i].col) THEN Unpark(t)
        ELSE DeleteAt([Unpark(t) EXCEPT !.s.cursor.col = @ - 1], i,
                      Offset(t.s, t.s.cursor) - 1)

HomeKey(t) == IF EntryField(t.s) = 0 THEN Unpark(t) ELSE MoveTo(Unpark(t), EntryField(t.s))

\* End sets the column from the field's, and leaves the row alone
EndKey(t) ==
    LET s == t.s
        i == EntryField(s)
        f == s.fields[i]
        inked == {k \in 0 .. f.len - 1 : CharAt(s, Start(s, f) + k) # Blank}
        last == IF inked = {} THEN 0 ELSE Max(inked) + 1
    IN  IF i = 0 THEN Unpark(t)
        ELSE [Unpark(t) EXCEPT !.s.cursor.col = f.col + Min({last, f.len - 1})]

TabKey(t, forward) ==
    LET i == AdjacentInputField(t.s, Offset(t.s, t.s.cursor), forward)
    IN  IF i = 0 THEN Unpark(t) ELSE MoveTo(Unpark(t), i)

InsertKey(t) == [Unpark(t) EXCEPT !.s.insert = ~@]

\* setCursor(), clamped to the screen
SetCursor(t, row, col) ==
    [Unpark(t) EXCEPT !.s.cursor = [row |-> Max({0, Min({row, t.s.rows - 1})}),
                                    col |-> Max({0, Min({col, t.s.cols - 1})})]]

\* eraseEOF(): the flag again on this field alone, the park kept
EraseEOF(t) ==
    LET s == t.s
        i == EntryField(s)
        at == Offset(s, s.cursor)
    IN  IF i = 0 THEN t
        ELSE [t EXCEPT !.s = [Fill(s, at .. End(s, s.fields[i]) - 1, Blank)
                                EXCEPT !.fields[i].mdt = TRUE]]

\* A sequence without its trailing characters in C
Trimmed(text, C) ==
    LET kept == {k \in DOMAIN text : text[k] \notin C}
    IN  IF kept = {} THEN <<>> ELSE SubSeq(text, 1, Max(kept))

\* fieldExit(): erase to the end of the field unless the value fills it, then
\* right-adjust
ErasedToEnd(t, f, at) ==
    IF t.park = at \/ (at = End(t.s, f) - 1 /\ Last(FieldValue(t.s, f)) # Blank) THEN t.s
    ELSE FillOnScreen(t.s, at .. End(t.s, f) - 1, Blank)

Adjusted(s, i, text) ==
    LET f == s.fields[i]
        pad == IF f.adjust = "zero" THEN "0" ELSE Blank
    IN  IF f.adjust # "no" /\ Len(text) \in 1 .. f.len - 1
        THEN SetFieldValue(s, i, [k \in 1 .. f.len - Len(text) |-> pad] \o text)
        ELSE SetFieldMdt(s, i)

AdjustField(s, i) == Adjusted(s, i, Trimmed(FieldValue(s, s.fields[i]), {Blank}))

ExitField(t, i) ==
    [s |-> AdjustField(ErasedToEnd(t, t.s.fields[i], Offset(t.s, t.s.cursor)), i),
     park |-> None]

FieldExit(t) == IF EntryField(t.s) = 0 THEN t ELSE ExitField(t, EntryField(t.s))

\* The Field Exit key forgets the park before it reads it
FieldExitKey(t) == TabKey(FieldExit(Unpark(t)), TRUE)

\* Reset: unlock, put back what an error message displaced
ResetKey(t) ==
    LET s == [t.s EXCEPT !.locked = FALSE]
        line == IF s.msgLine # None THEN RestoreMsgLine(s) ELSE ClearErrorLine(s)
    IN  [s |-> IF s.errorCursor = None THEN line
               ELSE [line EXCEPT !.cursor = s.errorCursor, !.errorCursor = None],
         park |-> None]

-----------------------------------------------------------------------------
(* AID keys.                                                               *)

\* encodeSingleField() and getFieldEbcdicData(): the text of a field and of
\* the subfields that continue it
GroupRest(s, i) ==
    {j \in i + 1 .. Len(s.fields) :
        \A k \in i + 1 .. j : /\ s.fields[k].cont # "no"
                              /\ k < j => s.fields[k].cont # "last"}

FieldData(s, i) ==
    LET rest == IF s.fields[i].cont = "first" THEN GroupRest(s, i) ELSE {}
    IN  FoldLeft(LAMBDA text, j : text \o FieldValue(s, s.fields[j]),
                 <<>>, [k \in 1 .. Cardinality(rest) + 1 |-> i + k - 1])

\* A signed field sends its last cell, the sign, as the zone of its last digit
Zoned(digits, sign) ==
    IF sign = "-" /\ digits # <<>>
    THEN Append(Front(digits), <<"negative", Last(digits)>>)
    ELSE digits

NulsToBlanks(text) == [k \in DOMAIN text |-> IF text[k] = Nul THEN Blank ELSE text[k]]

\* encodeFieldInline(): all of the field
Inline(text, signed) ==
    IF signed /\ Len(text) >= 2 THEN Zoned(NulsToBlanks(Front(text)), Last(text))
    ELSE NulsToBlanks(text)

EncodeFieldInline(s, i) == Inline(FieldData(s, i), s.fields[i].signed)

\* encodeFieldMdt(): without its trailing nulls, the others blanks for
\* READ_MDT_FIELDS; a digit that was a null takes no sign
Sent(kept, translate) == IF translate THEN NulsToBlanks(kept) ELSE kept

SignedMdt(text, kept, translate) ==
    IF Len(kept) = Len(text) - 1 THEN Zoned(Sent(kept, translate), Last(text))
    ELSE Sent(kept, translate)

Mdt(text, signed, translate) ==
    IF signed /\ text # <<>> THEN SignedMdt(text, Trimmed(Front(text), {Nul}), translate)
    ELSE Sent(Trimmed(text, {Nul}), translate)

EncodeFieldMdt(s, i, translate) == Mdt(FieldData(s, i), s.fields[i].signed, translate)

FaultyLeads(s, i) == s.fields[i].input /\ s.fields[i].cont = "no"

\* Whether field i is answered for itself, and not with its group
Leads(s, i) == s.fields[i].input /\ s.fields[i].cont \in {"no", "first"}

FieldAnswer(s, i, text) ==
    [row |-> s.fields[i].row, col |-> s.fields[i].col, text |-> text]

\* The fields of an answer, in screen order: all of them or none for a read of
\* the input fields, the modified ones for the others
AnsweredFields(s) ==
    LET all == s.readOp \in {"INPUT_FIELDS", "IMMEDIATE"}
        answered == {i \in DOMAIN s.fields :
                        /\ Leads(s, i)
                        /\ s.fields[i].mdt \/ (all /\ \E j \in DOMAIN s.fields : s.fields[j].mdt)}
        answer(i) == FieldAnswer(s, i, IF all THEN EncodeFieldInline(s, i)
                         ELSE EncodeFieldMdt(s, i, s.readOp \in {"none", "MDT_FIELDS"}))
    IN  [k \in 1 .. Cardinality(answered) |->
            answer(CHOOSE i \in answered : Cardinality({j \in answered : j < i}) = k - 1)]

\* System Request, Attention: a record of their own, the read stays open
InterruptKeys == {"SysReq", "Attn"}
\* Test Request, Print, Record Backspace: the keyboard stays open too
SideKeys == {"TestReq", "Print"}

\* shouldSendDataForAid(): not for Clear, not for a command-attention key
SendsData(s, key) == key # "Clear" /\ key \notin s.header.attention

\* buildAidResponse(): the answer, and the screen after it
Answer(s, key) ==
    [aid |-> key, cursor |-> s.cursor,
     fields |-> IF key \in InterruptKeys \cup SideKeys \/ ~SendsData(s, key) THEN <<>>
                ELSE AnsweredFields(s)]

AidKey(t, key) ==
    LET s == t.s
    IN  [Unpark(t) EXCEPT
            !.s = CASE key \in SideKeys -> s
                    [] key \in InterruptKeys -> [s EXCEPT !.locked = TRUE]
                    [] OTHER -> [s EXCEPT !.locked = TRUE, !.readOp = "none"]]
=============================================================================
