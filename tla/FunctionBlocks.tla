--------------------------- MODULE FunctionBlocks ---------------------------
(***************************************************************************)
(* The standard function blocks of fb.py: timers, counters, triggers and   *)
(* bistables.  An instance is a record of its fields, which are values,    *)
(* and of its memory (prev, up, down, running), which is Boolean.  Times   *)
(* are exact, so the compensated sum of accumulate and the tolerance       *)
(* TIME_EPS, which only make the floats behave as if they were, vanish.    *)
(***************************************************************************)
EXTENDS PlcValues

Timers   == {"TON", "TOF", "TP"}
Counters == {"CTU", "CTD", "CTUD"}
Triggers == {"R_TRIG", "F_TRIG"}
Latches  == {"SR", "RS"}
BlockTypes == Timers \cup Counters \cup Triggers \cup Latches

InputsOf(t) ==
  CASE t \in Timers   -> <<"IN", "PT">>
    [] t = "CTU"      -> <<"CU", "R", "PV">>
    [] t = "CTD"      -> <<"CD", "LD", "PV">>
    [] t = "CTUD"     -> <<"CU", "CD", "R", "LD", "PV">>
    [] t \in Triggers -> <<"CLK">>
    [] t = "SR"       -> <<"S1", "R">>
    [] t = "RS"       -> <<"S", "R1">>

OutputsOf(t) ==
  CASE t \in Timers         -> <<"Q", "ET">>
    [] t \in {"CTU", "CTD"} -> <<"Q", "CV">>
    [] t = "CTUD"           -> <<"QU", "QD", "CV">>
    [] t \in Triggers       -> <<"Q">>
    [] t \in Latches        -> <<"Q1", "Q">>    \* Q is an alias of Q1

Elements(s) == {s[i] : i \in DOMAIN s}
FieldsOf(t) == Elements(InputsOf(t)) \cup Elements(OutputsOf(t))
FieldType(f) == CASE f \in {"PT", "ET"} -> "TIME"
                  [] f \in {"PV", "CV"} -> "DINT"
                  [] OTHER              -> "BOOL"

(* A new instance: every field at its default.  F_TRIG remembers a low input
   that was never there, so that power-up is no falling edge. *)
NewBlock(t) ==
  [f \in FieldsOf(t) \cup {"fb", "prev", "up", "down", "running"} |->
     CASE f = "fb"   -> t
       [] f = "prev" -> t = "F_TRIG"
       [] f \in {"up", "down", "running"} -> FALSE
       [] OTHER      -> DefaultValue(FieldType(f))]

(* VarDecl.make, for a symbol with a type, a block type fb and a value init. *)
NoValue == [k |-> "none"]
MakeValue(sym) ==
  CASE sym.fb # "none"                        -> NewBlock(sym.fb)
    [] sym.fb = "none" /\ sym.init # NoValue  -> sym.init
    [] sym.fb = "none" /\ sym.init = NoValue  -> DefaultValue(sym.type)

GetField(b, f) == IF b.fb \in Latches /\ f = "Q" THEN b.Q1 ELSE b[f]

-----------------------------------------------------------------------------
ResetEt(b) == [b EXCEPT !.ET = RealV(0, 1)]
ElapsedLater(b) == Less(b.PT, b.ET)       \* Mutant of Elapsed: a scan too late
Elapsed(b) == ~Less(b.ET, b.PT)
NoDelay(b) == b.PT.n <= 0

(* _advance: ET stops at PT. *)
Advance(b, dt) ==
  IF Elapsed(b) THEN b
  ELSE LET sum == Kernel("add", b.ET, dt)
       IN  [b EXCEPT !.ET = IF Less(sum, b.PT) THEN sum ELSE Float(b.PT)]

OnDelay(b, dt) ==
  LET t == IF Truth(b.IN) /\ b.prev THEN Advance(b, dt) ELSE ResetEt(b)
  IN  [t EXCEPT !.Q = BoolV(Truth(b.IN) /\ Elapsed(t)), !.prev = Truth(b.IN)]

OffDelay(b, dt) ==
  LET on == Truth(b.IN)
      t  == CASE on           -> [ResetEt(b) EXCEPT !.Q = BoolV(TRUE)]
              [] ~on /\ b.prev -> [ResetEt(b) EXCEPT !.Q = BoolV(Truth(b.Q) /\ ~NoDelay(b))]
              [] ~on /\ ~b.prev /\ Truth(b.Q) ->
                   LET a == Advance(b, dt) IN [a EXCEPT !.Q = BoolV(~Elapsed(a))]
              [] OTHER         -> b
  IN  [t EXCEPT !.prev = on]

Pulse(b, dt) ==
  LET on == Truth(b.IN)
      t  == CASE b.running ->
                   LET a == Advance(b, dt)
                   IN  [a EXCEPT !.running = ~Elapsed(a), !.Q = BoolV(Truth(b.Q) /\ ~Elapsed(a))]
              [] ~b.running /\ on /\ ~b.prev ->
                   [ResetEt(b) EXCEPT !.running = ~NoDelay(b), !.Q = BoolV(~NoDelay(b))]
              [] ~b.running /\ ~on -> ResetEt(b)
              [] OTHER             -> b
  IN  [t EXCEPT !.prev = on]

(* Counting saturates at the ends of the integer range. *)
Up(cv)   == IF cv.n < IntMax THEN IntV(cv.n + 1) ELSE cv
Down(cv) == IF cv.n > IntMin THEN IntV(cv.n - 1) ELSE cv

CountUp(b) ==
  LET cv == CASE Truth(b.R)           -> IntV(0)
              [] ~Truth(b.R) /\ Truth(b.CU) /\ ~b.up -> Up(b.CV)
              [] OTHER                -> b.CV
  IN  [b EXCEPT !.CV = cv, !.Q = BoolV(cv.n >= b.PV.n), !.up = Truth(b.CU)]

CountDown(b) ==
  LET cv == CASE Truth(b.LD)          -> b.PV
              [] ~Truth(b.LD) /\ Truth(b.CD) /\ ~b.down -> Down(b.CV)
              [] OTHER                -> b.CV
  IN  [b EXCEPT !.CV = cv, !.Q = BoolV(cv.n <= 0), !.down = Truth(b.CD)]

CountUpDown(b) ==
  LET up   == Truth(b.CU) /\ ~b.up
      down == Truth(b.CD) /\ ~b.down
      cv   == CASE Truth(b.R)                   -> IntV(0)
                [] ~Truth(b.R) /\ Truth(b.LD)   -> b.PV
                [] ~Truth(b.R) /\ ~Truth(b.LD) /\ up /\ ~down -> Up(b.CV)
                [] ~Truth(b.R) /\ ~Truth(b.LD) /\ down /\ ~up -> Down(b.CV)
                [] OTHER                        -> b.CV
  IN  [b EXCEPT !.CV = cv, !.QU = BoolV(cv.n >= b.PV.n), !.QD = BoolV(cv.n <= 0),
                !.up = Truth(b.CU), !.down = Truth(b.CD)]

(* execute of every block type; prev of a trigger is its memory _m. *)
Execute(b, dt) ==
  CASE b.fb = "TON"    -> OnDelay(b, dt)
    [] b.fb = "TOF"    -> OffDelay(b, dt)
    [] b.fb = "TP"     -> Pulse(b, dt)
    [] b.fb = "CTU"    -> CountUp(b)
    [] b.fb = "CTD"    -> CountDown(b)
    [] b.fb = "CTUD"   -> CountUpDown(b)
    [] b.fb = "R_TRIG" -> [b EXCEPT !.Q = BoolV(Truth(b.CLK) /\ ~b.prev), !.prev = Truth(b.CLK)]
    [] b.fb = "F_TRIG" -> [b EXCEPT !.Q = BoolV(~Truth(b.CLK) /\ ~b.prev), !.prev = ~Truth(b.CLK)]
    [] b.fb = "SR"     -> [b EXCEPT !.Q1 = BoolV(Truth(b.S1) \/ (~Truth(b.R) /\ Truth(b.Q1)))]
    [] b.fb = "RS"     -> [b EXCEPT !.Q1 = BoolV(~Truth(b.R1) /\ (Truth(b.S) \/ Truth(b.Q1)))]
=============================================================================
