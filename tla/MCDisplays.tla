----------------------------- MODULE MCDisplays -----------------------------
(***************************************************************************)
(* What the hosts of the displays send and what is typed, on screens of a  *)
(* few cells.                                                              *)
(***************************************************************************)
EXTENDS Displays, TLC

\* 3270: orders and records
At(a) == [o |-> "SBA", addr |-> a]
SF(attr) == [o |-> "SF", attr |-> attr]
Text(text) == [o |-> "TEXT", text |-> text]
W(c, wcc, orders) == [c |-> c, wcc |-> wcc, orders |-> orders]
Form == W("EW", {"restore"}, <<At(6), SF({}), [o |-> "IC"], At(1), SF({"prot", "mdt"}),
      Text(<<"L">>),
          SF({}), Text(<<"x">>)>>)
Tiny == [rows |-> 2, cols |-> 4]
Tall == [rows |-> 3, cols |-> 4]
Recs == {Form,
  W("EWA", {"restore"}, <<At(0), SF({}), At(3), SF({"mdt"}), At(5), [o |-> "SFE",
      attr |-> None]>>),
  W("WRITE", {"restore", "reset"}, <<>>),
  W("WRITE", {"restore"}, <<At(4), Text(<<"y">>)>>),
  W("WRITE", {}, <<At(1), [o |-> "MF", attr |-> {"mdt"}], [o |-> "MF", attr |-> None],
      [o |-> "PT"], [o |-> "PT"], [o |-> "IC"]>>),
  W("WRITE", {}, <<At(2), [o |-> "EUA", addr |-> 2], [o |-> "EUA", addr |-> 0]>>),
  W("WRITE", {}, <<At(5), [o |-> "RA", addr |-> 5, ch |-> "-"]>>),
  W("WRITE", {}, <<At(7), [o |-> "RA", addr |-> 1, ch |-> "nul"]>>),
  W("EW", {}, <<>>),
  [c |-> "EAU"], [c |-> "QUERY"],
  [c |-> "READ", kind |-> "buffer"], [c |-> "READ", kind |-> "modified"], [c |-> "READ",
      kind |-> "all"]}
Txts == {<<"a">>, <<"b", "c">>}

\* VT: parameters, chunks (some cut inside of a sequence) and text
VtNumbers == "1" :> 1 @@ "2" :> 2 @@ "3" :> 3 @@ "5" :> 5 @@ "6" :> 6 @@ "7" :> 7 @@
             "38" :> 38 @@ "47" :> 47 @@ "1049" :> 1049
VtChunks == {
  <<"ESC", "[", "3", "H">>,
  <<"ESC", "[", "2", ";", "3", "r">>, <<"ESC", "[", "?", "6", "h">>,
  <<"ESC", "[", "r", "ESC", "[", "3", "B", "ESC", "[", "2", "G", "LF", "x", "ESC", "[", "?",
      "6", "l">>,
  <<"ESC", "[", "?", "7", "l", "ESC", "[", "?", "1", "h">>,
  <<"ESC", "[", "?", "1049", "h">>, <<"ESC", "[", "?", "1049", "l">>,
  <<"ESC", "7", "ESC", "[", "?", "47", "h">>, <<"ESC", "8", "ESC", "[", "?", "47", "l">>,
  <<"ESC", "M", "ESC", "[", "6", "n", "BEL">>, <<"ESC", "E">>, <<"ESC", "c">>,
  <<"ESC", "[", "7", "m", "_", "_", "_">>, <<"ESC", "[", "38", ";", "5", ";", "7", "m">>,
  <<"P:", " ", "x">>, <<"ESC", "[", "1">>, <<"J", "ESC", "\\">>, <<"ESC", "]", "x">>,
  <<"ESC", "O", "P", "ESC", "(", "0", "BS", "HT">>,
  <<"ESC", "P", "x", "BEL", "ESC", "(", "B", "SO", "ESC", "Z">>,
  <<"SI", "ESC", "[", "L", "CR", "ESC", "[", "C">>,
  <<"ESC", "[", "M", "ESC", "[", "2", "@", "ESC", "[", "5", "n">>,
  <<"ESC", "[", "P", "ESC", "[", "D", "ESC", "[", "X", "ESC", "[", "c">>,
  <<"ESC", "[", "S", "ESC", "[", "A", "ESC", "[", "I">>,
  <<"ESC", "[", "T", "ESC", "[", "E", "ESC", "[", "K", "ESC", "[", "2", "d", "ESC", "[", "F",
      "ESC", "[", " ", "c">>}
VtTexts == {<<"a", "q">>, <<"_", "c", "_", "_">>}

\* 6530
HpNumbers == "1" :> 1 @@ "2" :> 2 @@ "3" :> 3
HpChunks == {
  <<"FF", "ESC", ")", "L", "ESC", "(", " ", " ", "ESC", ")", "L", "NUL">>,
  <<"ESC", "[", "2", ";", "2", "H">>, <<"ESC", "(">>, <<"HT">>, <<"x", "BEL">>,
  <<"CR", "LF", "x">>,
  <<"ESC", "[", "2", ";", "3", "H", "BS", "ESC", ")", "x", "ESC">>, <<"K">>,
  <<"ESC", "J">>, <<"ESC", "[", ";", "2", "H", "CR", "CR">>,
  <<"ESC", "[", "1", "J", "ESC", "[", "H", "ESC", "[", "K">>, <<"ESC", "[", "2", "J">>,
  <<"ESC", "&", "d">>,
  <<"J", "ESC", "&", "x", "ESC", "x", "ESC", "[", "3", "J", "ESC", "[", ";", "J", "ESC", "[", "x">>}
HpTexts == {<<"a">>, <<"b", "c">>}
=============================================================================
