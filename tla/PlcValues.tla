----------------------------- MODULE PlcValues -----------------------------
(***************************************************************************)
(* The values of PLC programs: types.py, the operator kernels of nodes.py  *)
(* and compiler.py, and the standard functions of funcs.py.                *)
(*                                                                         *)
(* The engine computes with Python objects, so a value is a record of the  *)
(* Python type k ("bool", "int", "real", "str") and the number n/d; a      *)
(* float is an exact fraction (its rounding and its overflow are left out) *)
(* and a string stands for itself.  An operation that raises returns the   *)
(* fault the engine reports for it: a value whose k is a fault kind.       *)
(***************************************************************************)
EXTENDS Integers, Sequences, FiniteSets

CONSTANTS
  IntMax,            \* the greatest INT, 2^31 - 1 in the code
  MathFn(_, _)       \* what the C library returns for EXP, SIN, ... of a value

ASSUME IntMaxIsPositive == IntMax \in Nat \ {0}

IntMin == -IntMax - 1

IntTypes     == {"INT", "DINT"}
NumericTypes == IntTypes \cup {"REAL"}
ValueTypes   == NumericTypes \cup {"BOOL", "TIME", "STRING"}
FaultKinds   == {"div_zero", "math", "loop", "internal"}

IntV(i)     == [k |-> "int",  n |-> i, d |-> 1]
RealV(p, q) == [k |-> "real", n |-> p, d |-> q]
BoolV(b)    == [k |-> "bool", n |-> IF b THEN 1 ELSE 0, d |-> 1]
StrV(s)     == [k |-> "str",  n |-> s, d |-> 1]
FaultV(f)   == [k |-> f, n |-> 0, d |-> 1]
PNone       == [p |-> "none"]    \* the part of a program that is not there

IsFault(v)  == v.k \in FaultKinds
Truth(v)    == v.n # 0
Float(v)    == RealV(v.n, v.d)

(* wrap32: two's complement of the integer width. *)
Wrap(i) == ((i - IntMin) % (2 * (IntMax + 1))) + IntMin

(* int(x) of a number cuts toward zero; round() goes to the nearest integer,
   to the even one of two. *)
Trunc(v) == IF v.n >= 0 THEN v.n \div v.d ELSE -((-v.n) \div v.d)
Round(v) == LET f == v.n \div v.d  twice == 2 * (v.n - f * v.d)
            IN  IF twice > v.d \/ (twice = v.d /\ f % 2 = 1) THEN f + 1 ELSE f

DefaultValue(t) ==
  CASE t = "BOOL"            -> BoolV(FALSE)
    [] t \in IntTypes        -> IntV(0)
    [] t \in {"REAL","TIME"} -> RealV(0, 1)
    [] t = "STRING"          -> StrV(0)

(* coerce_value; int() and float() of a text that is no number raise. *)
Coerce(v, t) ==
  CASE t = "BOOL"            -> BoolV(Truth(v))
    [] t = "STRING"          -> StrV(v.n)
    [] t \in IntTypes /\ v.k # "str"        -> IntV(Wrap(Trunc(v)))
    [] t \in {"REAL","TIME"} /\ v.k # "str" -> Float(v)
    [] OTHER                 -> FaultV("internal")

(* The type of a + b for operand types a and b, "none" if they do not mix. *)
Promote(a, b) ==
  CASE a = b /\ a \in NumericTypes \cup {"TIME"} -> a
    [] a # b /\ {a, b} \subseteq IntTypes        -> "DINT"
    [] a # b /\ {a, b} \subseteq NumericTypes /\ ~({a, b} \subseteq IntTypes) -> "REAL"
    [] OTHER                                     -> "none"

Assignable(src, dst) ==
  \/ src = dst
  \/ src \in IntTypes /\ dst \in IntTypes \cup {"REAL"}

-----------------------------------------------------------------------------
(* Operator kernels: Python's numbers keep int and int an int, whatever the *)
(* width; only the wrapping kernels cut it.                                 *)

Less(a, b) == a.n * b.d < b.n * a.d
Same(a, b) == a.n * b.d = b.n * a.d
Number(a, b, p, q) == IF a.k = "real" \/ b.k = "real" THEN RealV(p, q) ELSE IntV(p)

Abs(i)     == IF i < 0 THEN -i ELSE i
IDiv(i, j) == LET q == Abs(i) \div Abs(j) IN Wrap(IF (i < 0) # (j < 0) THEN -q ELSE q)
IModFloored(i, j) == LET r == i % Abs(j) IN IF j < 0 /\ r # 0 THEN r + j ELSE r   \* Mutant of IMod: Python's %
IMod(i, j) == LET r == Abs(i) % Abs(j) IN IF i < 0 THEN -r ELSE r

(* The quotient of two fractions, with a positive denominator. *)
Quotient(a, b) == LET s == IF b.n < 0 THEN -1 ELSE 1
                  IN  RealV(s * a.n * b.d, s * a.d * b.n)

(* math.pow: a domain error for 0 to a negative power and for a negative
   number to a broken one; a broken power is left to the C library. *)
Pow(a, b) ==
  LET whole == b.n % b.d = 0
      e     == Abs(b.n) \div b.d
  IN  CASE a.n = 0 /\ b.n < 0                -> FaultV("math")
        [] a.n < 0 /\ ~whole                 -> FaultV("math")
        [] a.n > 0 /\ ~whole                 -> MathFn("POW", a)
        [] b.n = 0                           -> RealV(1, 1)
        [] a.n = 0 /\ b.n > 0                -> RealV(0, 1)
        [] a.n # 0 /\ whole /\ b.n > 0       -> RealV(a.n^e, a.d^e)
        [] a.n # 0 /\ whole /\ b.n < 0       -> Quotient(RealV(a.d^e, 1), RealV(a.n^e, 1))

Kernel(fn, a, b) ==
  CASE fn = "wrap_add" -> IntV(Wrap(a.n + b.n))
    [] fn = "wrap_sub" -> IntV(Wrap(a.n - b.n))
    [] fn = "wrap_mul" -> IntV(Wrap(a.n * b.n))
    [] fn = "idiv"     -> IF b.n = 0 THEN FaultV("div_zero") ELSE IntV(IDiv(a.n, b.n))
    [] fn = "imod"     -> IF b.n = 0 THEN FaultV("div_zero") ELSE IntV(IMod(a.n, b.n))
    [] fn = "add"      -> Number(a, b, a.n * b.d + b.n * a.d, a.d * b.d)
    [] fn = "sub"      -> Number(a, b, a.n * b.d - b.n * a.d, a.d * b.d)
    [] fn = "mul"      -> Number(a, b, a.n * b.n, a.d * b.d)
    [] fn = "real_div" -> IF b.n = 0 THEN FaultV("div_zero") ELSE Quotient(a, b)
    [] fn = "pow"      -> Pow(a, b)
    [] fn = "="        -> BoolV(Same(a, b))
    [] fn = "<>"       -> BoolV(~Same(a, b))
    [] fn = "<"        -> BoolV(Less(a, b))
    [] fn = ">"        -> BoolV(Less(b, a))
    [] fn = "<="       -> BoolV(~Less(b, a))
    [] fn = ">="       -> BoolV(~Less(a, b))

-----------------------------------------------------------------------------
(* Standard functions: the result type for argument types ("none" where     *)
(* resolve_function raises) and the value of a call.                        *)

SimpleMath == {"SQRT", "EXP", "LN", "LOG", "SIN", "COS", "TAN"}

NumOrTime(t) == t \in NumericTypes \cup {"TIME"}

(* _common: promote pairwise from the left; equal types stay. *)
Common(ts) ==
  LET acc[i \in 1..Len(ts)] ==
        IF i = 1 THEN ts[1]
        ELSE IF acc[i-1] = ts[i] THEN ts[i]
        ELSE IF acc[i-1] = "none" THEN "none" ELSE Promote(acc[i-1], ts[i])
  IN  acc[Len(ts)]

AllIn(ts, S) == \A i \in DOMAIN ts : ts[i] \in S
One(ts, S, result) == IF Len(ts) = 1 /\ AllIn(ts, S) THEN result ELSE "none"

FunctionType(f, ts) ==
  CASE f \in SimpleMath                     -> One(ts, NumericTypes, "REAL")
    [] f = "ABS"                            -> One(ts, NumericTypes \cup {"TIME"}, ts[1])
    [] f \in {"MIN", "MAX"} /\ Len(ts) >= 2 /\ AllIn(ts, NumericTypes \cup {"TIME"})
                                            -> Common(ts)
    [] f = "LIMIT" /\ Len(ts) = 3 /\ AllIn(ts, NumericTypes \cup {"TIME"})
                                            -> Common(ts)
    [] f = "SEL" /\ Len(ts) = 3 /\ ts[1] = "BOOL"        -> Common(Tail(ts))
    [] f = "MUX" /\ Len(ts) >= 3 /\ ts[1] \in IntTypes   -> Common(Tail(ts))
    [] f \in {"TRUNC", "REAL_TO_INT"}       -> One(ts, NumericTypes, "DINT")
    [] f = "INT_TO_REAL"                    -> One(ts, IntTypes, "REAL")
    [] f = "BOOL_TO_INT"                    -> One(ts, {"BOOL"}, "DINT")
    [] f = "TIME_TO_REAL"                   -> One(ts, {"TIME"}, "REAL")
    [] f = "REAL_TO_TIME"                   -> One(ts, NumericTypes, "TIME")
    [] OTHER                                -> "none"

(* Python's min and max: the first argument no other one beats. *)
FirstLeast(vs)    == vs[CHOOSE i \in DOMAIN vs : /\ \A j \in DOMAIN vs : ~Less(vs[j], vs[i])
                                                 /\ \A j \in 1..(i-1) : Less(vs[i], vs[j])]
FirstGreatest(vs) == vs[CHOOSE i \in DOMAIN vs : /\ \A j \in DOMAIN vs : ~Less(vs[i], vs[j])
                                                 /\ \A j \in 1..(i-1) : Less(vs[j], vs[i])]

Call(f, vs) ==
  CASE f = "ABS"   -> IF vs[1].k = "int" THEN IntV(Wrap(Abs(vs[1].n)))
                                         ELSE RealV(Abs(vs[1].n), vs[1].d)
    [] f = "MIN"   -> FirstLeast(vs)
    [] f = "MAX"   -> FirstGreatest(vs)
    [] f = "LIMIT" -> IF Less(vs[2], vs[1]) THEN vs[1]
                      ELSE IF Less(vs[3], vs[2]) THEN vs[3] ELSE vs[2]
    [] f = "SEL"   -> IF Truth(vs[1]) THEN vs[3] ELSE vs[2]
    [] f = "MUX"   -> IF vs[1].n \in 0..(Len(vs) - 2) THEN vs[vs[1].n + 2] ELSE FaultV("math")
    [] f = "TRUNC"        -> IntV(Wrap(Trunc(vs[1])))
    [] f = "REAL_TO_INT"  -> IntV(Wrap(Round(vs[1])))
    [] f = "BOOL_TO_INT"  -> IntV(vs[1].n)
    [] f \in {"INT_TO_REAL", "TIME_TO_REAL", "REAL_TO_TIME"} -> Float(vs[1])
    [] f = "SQRT" /\ vs[1].n < 0           -> FaultV("math")
    [] f \in {"LN", "LOG"} /\ vs[1].n <= 0 -> FaultV("math")
    [] OTHER                               -> MathFn(f, vs[1])
=============================================================================
