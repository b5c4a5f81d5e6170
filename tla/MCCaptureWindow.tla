-------------------------- MODULE MCCaptureWindow --------------------------
(***************************************************************************)
(* Files that vary in the scores, of which the requests get labels, and    *)
(* files that vary in the cells, of which they do not.                     *)
(***************************************************************************)
EXTENDS CaptureWindow, TLC

CONSTANTS amount, region, channel

TheRules == [missingIncrease |-> <<1, 20>>, unseen |-> <<1, 50>>, outOfRange |-> <<1, 100>>,
             typeError |-> <<1, 1000>>, duplicates |-> <<1, 100>>]
TheFeatures == {amount, region, channel}

Cells(a, r, c) == (amount :> a) @@ (region :> r) @@ (channel :> c)
PlainCells == Cells(Number(2), Text("north"), Text("web"))

Row(id, ts, score, cells) == [id |-> id, ts |-> ts, score |-> score, cells |-> cells]
Plain(id, ts, score) == Row(id, ts, score, PlainCells)

TheBaseline ==
  <<Row("b1", 0, 0, Cells(Number(1), Text("north"), Text("web"))),
    Row("b2", 0, 2, Cells(Number(2), Text("south"), Missing)),
    Row("b3", 0, 4, Cells(Number(5), Text("north"), Text("shop")))>>
Labelled(id, y, ts) == [id |-> id, y |-> y, ts |-> ts]
SomeBaselines == {<<TheBaseline, <<Labelled("b1", 0, 0), Labelled("b3", 1, 0)>>>>}

\* Three rows, the last of them in another window or a repeated request.
ScoreFiles ==
  {<<Plain("r1", 1, s[1]), Plain("r2", 1, s[2]), last>> :
     s \in [1 .. 2 -> {0, 2, 4}],
     last \in {Plain("r3", 2, 2), Plain("r1", 1, 4)}}

\* A label of the last request may have no date.
SomeLabels ==
  {Labelled(id, y, ts) : id \in {"r1", "r2"}, y \in {0, 1}, ts \in {1, 2}}
  \cup {Labelled("r3", y, ts) : y \in {0, 1}, ts \in {None, 2}}

\* Two rows whose cells can be anything; the second may lack the features.
Amounts  == {Number(1), Number(9), Infinite, Text("n/a"), Missing}
Regions  == {Text("north"), Text("east"), Missing}
CellsOf(a) == {Cells(x, r, Text("web")) : x \in a, r \in Regions}
Nothing == [f \in {} |-> Missing]
CellFiles ==
  {<<Row("f1", 1, 2, c), Row("f2", 1, 2, d)>> :
     c \in CellsOf(Amounts), d \in CellsOf({Number(2), Infinite, Text("n/a"), Missing})}
  \cup {<<Row("f1", 1, 2, c)>> : c \in CellsOf(Amounts) \cup {Nothing}}

AllFiles == ScoreFiles \cup CellFiles
TheWindows == {<<None, None>>, <<1, 2>>, <<3, None>>}
TheDates == {None, 1}
PCase(a, r, c) == (amount :> a) @@ (region :> r) @@ (channel :> c)
\* Only the files that vary in the cells vary in the p-values too.
SomePValues(frame) ==
  {PCase(1, 7, 7)} \cup
  (IF \A k \in DOMAIN frame : frame[k].cells = PlainCells THEN {}
   ELSE {PCase(4, 5, 6), PCase(20, 1, 3), PCase(5, 1, 20)})
TheCutoffs == {1, 3, 5, 7}
=============================================================================
