----------------------------- MODULE MCSfcEngine ----------------------------
(* Two charts: "line" has a selection, a timed step, a loop back and an    *)
(* abort chain; "fork" splits into two branches, one timed, that join.     *)
EXTENDS SfcEngine, Integers

MCCharts == {"line", "fork"}
MCStepsOf == [c \in MCCharts |->
  IF c = "line" THEN {"I", "PRESS", "BURN", "DONE", "ABORT", "ABORT_DONE"}
  ELSE {"F", "L", "R", "R2", "END"}]
MCSteps == UNION {MCStepsOf[c] : c \in MCCharts}

(* name, chart, from, to, delay (-1: untimed), in document order           *)
Table == <<
  <<"go",    "line", {"I"},         {"PRESS"},      -1>>,
  <<"skip",  "line", {"I"},         {"BURN"},       -1>>,
  <<"hold",  "line", {"PRESS"},     {"BURN"},        2>>,
  <<"again", "line", {"BURN"},      {"I"},          -1>>,
  <<"cut",   "line", {"BURN"},      {"DONE"},       -1>>,
  <<"safe",  "line", {"ABORT"},     {"ABORT_DONE"},  1>>,
  <<"split", "fork", {"F"},         {"L", "R"},     -1>>,
  <<"right", "fork", {"R"},         {"R2"},          2>>,
  <<"join",  "fork", {"L", "R2"},   {"END"},        -1>> >>
Row(tr) == CHOOSE i \in DOMAIN Table : Table[i][1] = tr

MCTrans == {Table[i][1] : i \in DOMAIN Table}
MCChartOf == [tr \in MCTrans |-> Table[Row(tr)][2]]
MCFrom == [tr \in MCTrans |-> Table[Row(tr)][3]]
MCTo == [tr \in MCTrans |-> Table[Row(tr)][4]]
MCTimed == {tr \in MCTrans : Table[Row(tr)][5] # -1}
MCDelay == [tr \in MCTimed |-> Table[Row(tr)][5]]
MCOrder == [c \in MCCharts |->
  LET mine == SelectSeq(Table, LAMBDA r : r[2] = c) IN [i \in DOMAIN mine |-> mine[i][1]]]
MCInitial == [c \in MCCharts |-> IF c = "line" THEN "I" ELSE "F"]
MCAbortStep == [c \in MCCharts |-> IF c = "line" THEN "ABORT" ELSE "none"]
=============================================================================
