------------------------------ MODULE MCTn5250 ------------------------------
(* Instances of Tn5250: the records of a small host.                       *)
EXTENDS Tn5250

\* Orders and commands, with what the record of an order leaves open
At(row, col) == [o |-> "SBA", row |-> row, col |-> col]
Write(text) == [o |-> "TEXT", text |-> text]
Attr(attr) == [o |-> "ATTR", attr |-> attr]
Entry == [o |-> "SF", ffw |-> TRUE, input |-> TRUE, mdt |-> FALSE, attr |-> "under",
          len |-> 2, cont |-> "no", reseq |-> 0, fer |-> FALSE, signed |-> FALSE,
          adjust |-> "no"]
Label == [Entry EXCEPT !.ffw = FALSE, !.input = FALSE, !.attr = "normal", !.len = 0]
Header == [o |-> "SOH", valid |-> TRUE, line |-> 0, attention |-> {"F3"}]
WTD(cc1, cc2, orders) == [c |-> "WTD", cc1 |-> cc1, cc2 |-> cc2, orders |-> orders]
Output(cmds) == [op |-> "OUTPUT", cmds |-> cmds]
Clear == [c |-> "CLEAR_UNIT", rows |-> Rows, cols |-> Cols]
Read(op, cc1) == [c |-> "READ", op |-> op, cc1 |-> cc1, cc2 |-> {}]
Error(text) == [c |-> "ERROR", ic |-> [row |-> 0, col |-> 1], text |-> text]

\* Two entry fields, one that wants a Field Exit and right-adjusts, and a label
Form == Output(<<Clear, WTD(0, {"unlock"},
    <<Header, At(0, 0), Entry, At(1, 0), [Entry EXCEPT !.fer = TRUE, !.adjust = "zero"],
      At(2, 0), Label, Write(<<"L">>)>>)>>)

\* Lengths the host leaves open, Tab order by number, a sign, a field that wraps
OpenForm == Output(<<Clear, WTD(0, {"unlock"},
    <<At(0, 0), [Entry EXCEPT !.len = 0, !.reseq = 2], At(0, 3), Label,
      At(1, 0), [Entry EXCEPT !.reseq = 1, !.signed = TRUE],
      At(1, 3), [Entry EXCEPT !.len = 3]>>)>>)

\* A field in three parts
GroupForm == Output(<<Clear, WTD(0, {"unlock"},
    <<At(0, 0), [Entry EXCEPT !.cont = "first"],
      At(1, 0), [Entry EXCEPT !.cont = "middle", !.len = 1], Write(<<"m">>),
      At(2, 0), [Entry EXCEPT !.cont = "last", !.len = 1]>>)>>)

\* A sign-on screen of bare attributes, the last of them hidden
SignOn == Output(<<Clear, WTD(0, {"unlock"},
    <<At(0, 0), Write(<<"S">>), At(1, 0), Attr("normal"), At(1, 2), Attr("hidden")>>)>>)

\* Another format, after a reset of the modified flags; a field written again
Rewrite == Output(<<WTD(2, {"unlock"}, <<At(0, 1), Entry, Write(<<"x">>)>>)>>)
Redefine == Output(<<WTD(0, {"unlock"}, <<At(1, 0), [Entry EXCEPT !.adjust = "blank"]>>)>>)
\* Cells only, the cursor left alone; a move of it; a record that is cut
Touch == Output(<<WTD(1, {"unlock", "keep"}, <<At(0, 1), Write(<<"y">>)>>)>>)
Moves == Output(<<WTD(0, {}, <<[o |-> "MC", row |-> 1, col |-> 1]>>)>>)
CutOff == Output(<<WTD(0, {"unlock"},
    <<At(0, 1), [o |-> "TD", text |-> <<"z", Nul>>], [o |-> "CUT"]>>)>>)
BadHeader == Output(<<WTD(0, {}, <<[Header EXCEPT !.valid = FALSE], At(0, 0), Entry>>)>>)
\* Fields erased by control characters, and by addresses
Nulled == Output(<<Read("INPUT_FIELDS", 5)>>)
AllReset == Output(<<WTD(3, {"unlock"}, <<>>)>>)
ReadModified == Output(<<Read("MDT_FIELDS_ALT", 0)>>)
Erased == Output(<<WTD(0, {"unlock"},
    <<At(0, 3), [o |-> "EA", row |-> 3, col |-> 4],
      [o |-> "RA", row |-> 0, col |-> 0, ch |-> "-"],
      [o |-> "IC", row |-> 1, col |-> 1]>>)>>)
Format == Output(<<[c |-> "CLEAR_FORMAT_TABLE"], [c |-> "QUERY"]>>)
Refuse == Output(<<Error(<<"E">>)>>)
Asks == Output(<<[c |-> "QUERY"], [c |-> "SKIPPED"]>>)

FormRecords ==
    {Form, OpenForm, GroupForm, SignOn, Rewrite, Redefine, Touch, Moves, CutOff, BadHeader,
     Nulled, AllReset, ReadModified, Erased, Format, Refuse, Asks}

\* Popups: saved, painted over, taken off; windows; errors; rolled rows
Popup == [op |-> "SAVE", cmds |-> <<Clear, WTD(0, {"unlock"},
    <<At(1, 1), Write(<<"p", "q", "p">>), At(2, 1), Entry>>)>>]
\* A window opens at the cursor: the host puts it there first
Prompt == [op |-> "SAVE", cmds |-> <<WTD(0, {}, <<[o |-> "MC", row |-> 0, col |-> 0]>>),
    WTD(0, {"unlock"}, <<[o |-> "WINDOW", depth |-> 1, width |-> 2], At(0, 0), Entry,
      [o |-> "SELECTION"], [o |-> "SCROLLBAR"]>>)>>]
TakeOff == [op |-> "RESTORE", cmds |-> <<>>]
TakeOffAnd == [op |-> "RESTORE", cmds |-> <<WTD(0, {}, <<At(3, 0), Write(<<"d">>)>>)>>]
CloseWindow == Output(<<WTD(0, {"unlock"}, <<[o |-> "REM_WINDOW"], [o |-> "REM_SELECTION"]>>)>>)
CloseAll == Output(<<WTD(0, {}, <<[o |-> "REM_SCROLLBAR"], [o |-> "REM_ALL"]>>)>>)
Rolls == Output(<<[c |-> "ROLL", top |-> 1, bot |-> 2, lines |-> -1],
                  [c |-> "ORDERS", orders |-> <<At(2, 0), Write(<<"r">>)>>]>>)
Wide == Output(<<[Clear EXCEPT !.cols = Cols + 1]>>)
Reads == Output(<<Read("MDT_FIELDS", 0)>>)

PopupRecords ==
    {Form, Popup, Prompt, TakeOff, TakeOffAnd, CloseWindow, CloseAll, Rolls, Wide,
     Refuse, Reads}


TypedTexts == {<<"a">>, <<"b", "-">>}
OneText == {<<"a">>}
=============================================================================
