---------------------------- MODULE LadderProofs ----------------------------
(***************************************************************************)
(* Type soundness of ladder programs, for every document, every set of     *)
(* tags and every width of the integers: what LadderCompiler accepts keeps *)
(* the types of all values when it runs, and can fail only by a division   *)
(* by zero.  So an image that only accepted ladders scan is always typed.  *)
(***************************************************************************)
EXTENDS PlcRuntimeProofs, LadderCompiler, LadderRun, SequenceTheorems

-----------------------------------------------------------------------------
(* Variables of a program.                                                 *)

(* Program p reads a value of type t in the store s under key.             *)
Reads(p, s, key, t) ==
  \/ s \in {"local", "global"} /\ key \in Owned(p, s) /\ p.syms[key].fb = "none" /\ t = p.syms[key].type
  \/ s = "input"  /\ key \in TagsOf("in")  /\ t = Tags[key].type
  \/ s = "output" /\ key \in TagsOf("out") /\ t = Tags[key].type
  \/ s = "sys"    /\ key \in DOMAIN SysVars /\ t = SysVars[key]

(* It may store one there.                                                 *)
Writes(p, s, key, t) == s \in {"local", "global", "output"} /\ Reads(p, s, key, t)

(* It owns a block of type fb.                                             *)
Owns(p, key, fb) == key \in Owned(p, "local") /\ p.syms[key].fb = fb

(* The parts of a typed context.                                           *)
LEMMA ContextParts ==
  ASSUME NEW p, NEW c, TypedContext(c, p)
  PROVE  /\ Over(c, {"store", "dt", "steps", "written"}) /\ c.steps = << >>
         /\ Over(c.store, {"local", "global", "input", "output", "sys"})
         /\ Over(c.store.local, Owned(p, "local")) /\ Over(c.store.input, TagsOf("in"))
         /\ Owned(p, "global") \subseteq DOMAIN c.store.global
         /\ Over(c.store.output, TagsOf("out")) /\ IsReal(c.dt) /\ TypedSys(c.store.sys)
         /\ \A n \in Owned(p, "local")  : Suits(c.store.local[n], p.syms[n])
         /\ \A n \in Owned(p, "global") : Suits(c.store.global[n], p.syms[n])
         /\ \A n \in TagsOf("out") : IsValue(c.store.output[n], Tags[n].type)
         /\ \A n \in TagsOf("in")  : IsValue(c.store.input[n], Tags[n].type)
         /\ DOMAIN c.store.local = Owned(p, "local") /\ DOMAIN c.store.input = TagsOf("in")
         /\ DOMAIN c.store.output = TagsOf("out")
<1>1. /\ Over(c.store.local, Owned(p, "local")) /\ Over(c.store.input, TagsOf("in"))
      /\ Over(c.store.output, TagsOf("out"))
  BY Zenon DEF TypedContext, IsContext
<1>2. \A f, D : Over(f, D) => DOMAIN f = D
  BY DEF Over
<1> QED BY <1>1, <1>2, Zenon DEF TypedContext, IsContext, TypedStore

(* The stores and the other parts of a context together are typed.         *)
LEMMA ContextOfParts ==
  ASSUME NEW p, NEW c,
         Over(c, {"store", "dt", "steps", "written"}), c.steps = << >>,
         Over(c.store, {"local", "global", "input", "output", "sys"}),
         Over(c.store.local, Owned(p, "local")), Over(c.store.input, TagsOf("in")),
         Owned(p, "global") \subseteq DOMAIN c.store.global,
         Over(c.store.output, TagsOf("out")), IsReal(c.dt), TypedSys(c.store.sys),
         \A n \in Owned(p, "local")  : Suits(c.store.local[n], p.syms[n]),
         \A n \in Owned(p, "global") : Suits(c.store.global[n], p.syms[n]),
         \A n \in TagsOf("out") : IsValue(c.store.output[n], Tags[n].type),
         \A n \in TagsOf("in")  : IsValue(c.store.input[n], Tags[n].type)
  PROVE  TypedContext(c, p)
BY Zenon DEF TypedContext, IsContext, TypedStore

(* A value of a type is no fault.                                          *)
LEMMA ValueIsNoFault ==
  ASSUME NEW t \in ValueTypes, NEW v, IsValue(v, t)
  PROVE  ~IsFault(v)
<1>1. Typed(v, t)
  BY ValueIsTyped
<1> QED BY <1>1 DEF Typed, KindOf, IsFault, FaultKinds, ValueTypes, NumericTypes, IntTypes

(* A load gives a value of the type of the variable.                       *)
LEMMA LoadGivesValue ==
  ASSUME NEW p, NEW c, TypedContext(c, p), NEW s, NEW key, NEW t, Reads(p, s, key, t)
  PROVE  IsValue(Load(c, s, key), t)
<1>1. CASE s = "local"
  <2>1. key \in Owned(p, "local") /\ p.syms[key].fb = "none" /\ t = p.syms[key].type
    BY <1>1 DEF Reads
  <2>2. Load(c, s, key) = c.store.local[key]
    BY <1>1, <2>1, ContextParts DEF Load
  <2>3. Suits(c.store.local[key], p.syms[key])
    BY <2>1, ContextParts
  <2> QED BY <2>1, <2>2, <2>3 DEF Suits
<1>2. CASE s = "global"
  <2>1. key \in Owned(p, "global") /\ p.syms[key].fb = "none" /\ t = p.syms[key].type
    BY <1>2 DEF Reads
  <2>2. Load(c, s, key) = c.store.global[key]
    BY <1>2, <2>1, ContextParts DEF Load
  <2>3. Suits(c.store.global[key], p.syms[key])
    BY <2>1, ContextParts
  <2> QED BY <2>1, <2>2, <2>3 DEF Suits
<1>3. CASE s = "input"
  <2>1. key \in TagsOf("in") /\ t = Tags[key].type
    BY <1>3 DEF Reads
  <2>2. Load(c, s, key) = c.store.input[key]
    BY <1>3, <2>1, ContextParts DEF Load
  <2> QED BY <2>1, <2>2, ContextParts
<1>4. CASE s = "output"
  <2>1. key \in TagsOf("out") /\ t = Tags[key].type
    BY <1>4 DEF Reads
  <2>2. Load(c, s, key) = c.store.output[key]
    BY <1>4, <2>1, ContextParts DEF Load
  <2> QED BY <2>1, <2>2, ContextParts
<1>5. CASE s = "sys"
  <2>1. key \in {"SYS_ABORT", "SYS_SCAN_TIME", "SYS_FIRST_SCAN", "SYS_TIME"} /\ t = SysVars[key]
    BY <1>5 DEF Reads, SysVars
  <2>2. TypedSys(c.store.sys)
    BY ContextParts
  <2>3. Load(c, s, key) = c.store.sys[key]
    BY <1>5, <2>1, <2>2 DEF Load, TypedSys
  <2>4. IsValue(c.store.sys[key], SysVars[key])
    BY <2>1, <2>2 DEF TypedSys, SysVars, IsValue, IntTypes
  <2> QED BY <2>1, <2>3, <2>4
<1> QED BY <1>1, <1>2, <1>3, <1>4, <1>5 DEF Reads

(* A store with one more value, or with one value replaced.                *)
Put(f, key, v) == [x \in DOMAIN f \cup {key} |-> IF x = key THEN v ELSE f[x]]

LEMMA PutValue ==
  ASSUME NEW f, NEW key, NEW v
  PROVE  /\ DOMAIN Put(f, key, v) = DOMAIN f \cup {key} /\ Put(f, key, v)[key] = v
         /\ \A x \in DOMAIN f \ {key} : Put(f, key, v)[x] = f[x]
         /\ \A D : Over(f, D) /\ key \in D => Over(Put(f, key, v), D)
<1>1. ASSUME NEW D, Over(f, D), key \in D PROVE Over(Put(f, key, v), D)
  <2>1. DOMAIN f \cup {key} = D
    BY <1>1 DEF Over
  <2> QED BY <2>1 DEF Put, Over
<1> QED BY <1>1 DEF Put

(* What a store changes: one value of one store.                           *)
LEMMA StoreParts ==
  ASSUME NEW p, NEW c, TypedContext(c, p), NEW s \in {"local", "global", "output"}, NEW key, NEW v,
         NEW d, d = Store(c, s, key, v)
  PROVE  /\ Over(d, {"store", "dt", "steps", "written"}) /\ d.steps = c.steps /\ d.dt = c.dt
         /\ Over(d.store, {"local", "global", "input", "output", "sys"})
         /\ \A x \in {"local", "global", "input", "output", "sys"} \ {s} : d.store[x] = c.store[x]
         /\ d.store[s] = Put(c.store[s], key, v)
<1> DEFINE u == Put(c.store[s], key, v)
           w == IF s = "output" THEN c.written \cup {key} ELSE c.written
           e == [c EXCEPT !.store[s] = u, !.written = w]
<1>1. d = e
  BY Zenon DEF Store, Put
<1>2. Over(c, {"store", "dt", "steps", "written"}) /\ Over(c.store, {"local", "global", "input", "output", "sys"})
  BY ContextParts
<1> HIDE DEF u, w
<1>3. /\ Over(e, {"store", "dt", "steps", "written"}) /\ e.steps = c.steps /\ e.dt = c.dt
      /\ e.store = [c.store EXCEPT ![s] = u]
  BY <1>2 DEF Over
<1> HIDE DEF e
<1>4. Over(e.store, {"local", "global", "input", "output", "sys"}) /\ e.store[s] = u
      /\ \A x \in {"local", "global", "input", "output", "sys"} \ {s} : e.store[x] = c.store[x]
  BY <1>2, <1>3 DEF Over
<1> QED BY <1>1, <1>3, <1>4, Zenon DEF u

(* A store of a value that suits its variable keeps a context typed.       *)
LEMMA StoreKeepsContext ==
  ASSUME NEW p, NEW c, TypedContext(c, p), NEW s \in {"local", "global", "output"}, NEW key, NEW v,
         s # "output" => key \in Owned(p, s) /\ Suits(v, p.syms[key]),
         s = "output" => key \in TagsOf("out") /\ IsValue(v, Tags[key].type)
  PROVE  TypedContext(Store(c, s, key, v), p)
<1> DEFINE d == Store(c, s, key, v)
<1>1. /\ Over(d, {"store", "dt", "steps", "written"}) /\ d.steps = c.steps /\ d.dt = c.dt
      /\ Over(d.store, {"local", "global", "input", "output", "sys"})
      /\ \A x \in {"local", "global", "input", "output", "sys"} \ {s} : d.store[x] = c.store[x]
      /\ d.store[s] = Put(c.store[s], key, v)
  BY StoreParts
<1> HIDE DEF d
<1>2. d.steps = << >> /\ IsReal(d.dt) /\ TypedSys(d.store.sys) /\ d.store.input = c.store.input
      /\ Over(d.store.input, TagsOf("in"))
      /\ \A n \in TagsOf("in")  : IsValue(d.store.input[n], Tags[n].type)
  <2>1. d.store["input"] = c.store["input"] /\ d.store["sys"] = c.store["sys"]
    BY <1>1
  <2> QED BY <1>1, <2>1, ContextParts
<1>3. /\ Over(c.store.local, Owned(p, "local")) /\ DOMAIN c.store.local = Owned(p, "local")
      /\ Owned(p, "global") \subseteq DOMAIN c.store.global
      /\ Over(c.store.output, TagsOf("out")) /\ DOMAIN c.store.output = TagsOf("out")
      /\ \A n \in Owned(p, "local")  : Suits(c.store.local[n], p.syms[n])
      /\ \A n \in Owned(p, "global") : Suits(c.store.global[n], p.syms[n])
      /\ \A n \in TagsOf("out") : IsValue(c.store.output[n], Tags[n].type)
  BY ContextParts
<1>4. /\ Over(d.store.local, Owned(p, "local"))
      /\ \A n \in Owned(p, "local") : Suits(d.store.local[n], p.syms[n])
  <2>1. CASE s = "local"
    <3>1. d.store.local = Put(c.store.local, key, v) /\ key \in Owned(p, "local") /\ Suits(v, p.syms[key])
      BY <1>1, <2>1
    <3> DEFINE f == c.store.local
    <3>2. /\ DOMAIN Put(f, key, v) = DOMAIN f \cup {key} /\ Put(f, key, v)[key] = v
          /\ \A x \in DOMAIN f \ {key} : Put(f, key, v)[x] = f[x]
          /\ \A D : Over(f, D) /\ key \in D => Over(Put(f, key, v), D)
      <4> HIDE DEF f
      <4> QED BY PutValue
    <3> QED BY <1>3, <3>1, <3>2
  <2>2. CASE s # "local"
    <3>1. d.store["local"] = c.store["local"]
      BY <1>1, <2>2
    <3> QED BY <1>3, <3>1
  <2> QED BY <2>1, <2>2
<1>5. /\ Owned(p, "global") \subseteq DOMAIN d.store.global
      /\ \A n \in Owned(p, "global") : Suits(d.store.global[n], p.syms[n])
  <2>1. CASE s = "global"
    <3>1. d.store.global = Put(c.store.global, key, v) /\ key \in Owned(p, "global") /\ Suits(v, p.syms[key])
      BY <1>1, <2>1
    <3> DEFINE f == c.store.global
    <3>2. /\ DOMAIN Put(f, key, v) = DOMAIN f \cup {key} /\ Put(f, key, v)[key] = v
          /\ \A x \in DOMAIN f \ {key} : Put(f, key, v)[x] = f[x]
          /\ \A D : Over(f, D) /\ key \in D => Over(Put(f, key, v), D)
      <4> HIDE DEF f
      <4> QED BY PutValue
    <3> QED BY <1>3, <3>1, <3>2
  <2>2. CASE s # "global"
    <3>1. d.store["global"] = c.store["global"]
      BY <1>1, <2>2
    <3> QED BY <1>3, <3>1
  <2> QED BY <2>1, <2>2
<1>6. /\ Over(d.store.output, TagsOf("out"))
      /\ \A n \in TagsOf("out") : IsValue(d.store.output[n], Tags[n].type)
  <2>1. CASE s = "output"
    <3>1. d.store.output = Put(c.store.output, key, v) /\ key \in TagsOf("out") /\ IsValue(v, Tags[key].type)
      BY <1>1, <2>1
    <3> DEFINE f == c.store.output
    <3>2. /\ DOMAIN Put(f, key, v) = DOMAIN f \cup {key} /\ Put(f, key, v)[key] = v
          /\ \A x \in DOMAIN f \ {key} : Put(f, key, v)[x] = f[x]
          /\ \A D : Over(f, D) /\ key \in D => Over(Put(f, key, v), D)
      <4> HIDE DEF f
      <4> QED BY PutValue
    <3> QED BY <1>3, <3>1, <3>2
  <2>2. CASE s # "output"
    <3>1. d.store["output"] = c.store["output"]
      BY <1>1, <2>2
    <3> QED BY <1>3, <3>1
  <2> QED BY <2>1, <2>2
<1> QED BY <1>1, <1>2, <1>4, <1>5, <1>6, ContextOfParts, Zenon DEF d

(* A value of the type of a variable is stored in it.                      *)
LEMMA WriteKeepsContext ==
  ASSUME NEW p, NEW c, TypedContext(c, p), NEW s, NEW key, NEW t, Writes(p, s, key, t),
         NEW v, IsValue(v, t)
  PROVE  TypedContext(Store(c, s, key, v), p)
<1>1. s \in {"local", "global", "output"}
  BY DEF Writes
<1>2. s # "output" => key \in Owned(p, s) /\ Suits(v, p.syms[key])
  BY DEF Writes, Reads, Suits
<1>3. s = "output" => key \in TagsOf("out") /\ IsValue(v, Tags[key].type)
  BY DEF Writes, Reads
<1> QED BY <1>1, <1>2, <1>3, StoreKeepsContext

(* A block of a program is loaded, and stored back.                        *)
LEMMA BlockInContext ==
  ASSUME NEW p, NEW c, TypedContext(c, p), NEW fb \in BlockTypes, NEW key, Owns(p, key, fb)
  PROVE  /\ IsBlock(Load(c, "local", key), fb)
         /\ \A b : IsBlock(b, fb) => TypedContext(Store(c, "local", key, b), p)
<1>1. fb # "none"
  BY DEF BlockTypes, Timers, Counters, Triggers, Latches
<1>2. key \in Owned(p, "local") /\ p.syms[key].fb = fb
  BY DEF Owns
<1>3. IsBlock(c.store.local[key], fb)
  BY <1>1, <1>2, ContextParts DEF Suits
<1>4. Load(c, "local", key) = c.store.local[key]
  BY <1>2, ContextParts DEF Load
<1>5. ASSUME NEW b, IsBlock(b, fb) PROVE TypedContext(Store(c, "local", key, b), p)
  <2>1. Suits(b, p.syms[key])
    BY <1>1, <1>2, <1>5 DEF Suits
  <2> QED BY <1>2, <2>1, StoreKeepsContext
<1> QED BY <1>3, <1>4, <1>5

-----------------------------------------------------------------------------
(* The operators that a ladder has: comparison and arithmetic.             *)

Arithmetic == {"+", "-", "*", "/"}
LadderOps  == Relations \cup Arithmetic

(* A value of a numeric type, or a time, is a number.                      *)
LEMMA ValueIsNumber ==
  ASSUME NEW t \in NumericTypes \cup {"TIME"}, NEW v, IsValue(v, t)
  PROVE  /\ IsNumber(v) /\ (t \in IntTypes => IsInt(v))
         /\ t \in {"REAL", "TIME"} => v.k = "real"
<1>1. CASE t \in IntTypes
  <2>1. PICK i \in IntMin .. IntMax : v = IntV(i)
    BY <1>1 DEF IsValue, IsInt
  <2> QED BY <1>1, <2>1, Widths DEF IntV, IsNumber, IsInt, IntTypes
<1>2. CASE t \in {"REAL", "TIME"}
  <2>1. PICK n \in Int, d \in Nat \ {0} : v = RealV(n, d)
    BY <1>2 DEF IsValue, IsReal
  <2> QED BY <1>2, <2>1 DEF RealV, IsNumber, IntTypes
<1> QED BY <1>1, <1>2 DEF NumericTypes

(* A quotient of numbers is a number, with a positive denominator.         *)
LEMMA QuotientIsReal ==
  ASSUME NEW a, IsNumber(a), NEW b, IsNumber(b), b.n # 0
  PROVE  IsReal(Quotient(a, b))
<1>1. PICK p \in Int, q \in Nat \ {0} : p = a.n /\ q = a.d
  BY DEF IsNumber
<1>2. PICK r \in Int, s \in Nat \ {0} : r = b.n /\ s = b.d
  BY DEF IsNumber
<1> DEFINE g == IF r < 0 THEN -1 ELSE 1
<1>3. Quotient(a, b) = RealV(g * p * s, g * q * r)
  BY <1>1, <1>2 DEF Quotient
<1>4. CASE r < 0
  <2>1. g * p * s \in Int
    BY <1>4
  <2>2. q * (-r) \in Nat \ {0}
    BY <1>4
  <2>3. g * q * r = q * (-r)
    BY <1>4
  <2> HIDE DEF g
  <2> QED BY <1>3, <2>1, <2>2, <2>3 DEF IsReal
<1>5. CASE ~(r < 0)
  <2>0. r \in Nat \ {0}
    BY <1>2, <1>5
  <2>1. g * p * s \in Int
    BY <1>5
  <2>2. q * r \in Nat \ {0}
    BY <2>0
  <2>3. g * q * r = q * r
    BY <1>5
  <2> HIDE DEF g
  <2> QED BY <1>3, <2>1, <2>2, <2>3 DEF IsReal
<1> QED BY <1>4, <1>5

(* The arithmetic on reals, and on integers, one of which may be no real.  *)
LEMMA RealArithmetic ==
  ASSUME NEW a, IsNumber(a), NEW b, IsNumber(b), a.k = "real" \/ b.k = "real"
  PROVE  /\ IsReal(Kernel("add", a, b)) /\ IsReal(Kernel("sub", a, b)) /\ IsReal(Kernel("mul", a, b))
<1>1. PICK p \in Int, q \in Nat \ {0} : p = a.n /\ q = a.d
  BY DEF IsNumber
<1>2. PICK r \in Int, s \in Nat \ {0} : r = b.n /\ s = b.d
  BY DEF IsNumber
<1>3. \A x, y : Number(a, b, x, y) = RealV(x, y)
  BY DEF Number
<1>4. /\ Kernel("add", a, b) = RealV(p * s + r * q, q * s)
      /\ Kernel("sub", a, b) = RealV(p * s - r * q, q * s)
      /\ Kernel("mul", a, b) = RealV(p * r, q * s)
  <2>1. /\ Kernel("add", a, b) = Number(a, b, a.n * b.d + b.n * a.d, a.d * b.d)
        /\ Kernel("sub", a, b) = Number(a, b, a.n * b.d - b.n * a.d, a.d * b.d)
        /\ Kernel("mul", a, b) = Number(a, b, a.n * b.n, a.d * b.d)
    BY Zenon DEF Kernel
  <2> QED BY <1>1, <1>2, <1>3, <2>1, Zenon
<1>5. p * s \in Int /\ r * q \in Int /\ p * r \in Int /\ q * s \in Nat \ {0}
  OBVIOUS
<1>6. p * s + r * q \in Int /\ p * s - r * q \in Int
  BY <1>5
<1> QED BY <1>4, <1>5, <1>6 DEF IsReal

(* Integers are cut to their width.                                        *)
LEMMA IntArithmetic ==
  ASSUME NEW a, IsInt(a), NEW b, IsInt(b)
  PROVE  /\ IsInt(Kernel("wrap_add", a, b)) /\ IsInt(Kernel("wrap_sub", a, b))
         /\ IsInt(Kernel("wrap_mul", a, b))
         /\ IsInt(Kernel("idiv", a, b)) \/ Kernel("idiv", a, b) = FaultV("div_zero")
<1>1. PICK i \in Int : i = a.n
  BY Widths DEF IsInt, IntV
<1>2. PICK j \in Int : j = b.n
  BY Widths DEF IsInt, IntV
<1>3. \A x \in Int : IsInt(IntV(Wrap(x)))
  BY WrapIsInt DEF IsInt
<1>4. i + j \in Int /\ i - j \in Int /\ i * j \in Int
  OBVIOUS
<1>5. /\ Kernel("wrap_add", a, b) = IntV(Wrap(i + j)) /\ Kernel("wrap_sub", a, b) = IntV(Wrap(i - j))
      /\ Kernel("wrap_mul", a, b) = IntV(Wrap(i * j))
      /\ Kernel("idiv", a, b) = IF j = 0 THEN FaultV("div_zero") ELSE IntV(IDiv(i, j))
  BY <1>1, <1>2, Zenon DEF Kernel
<1>6. ASSUME j # 0 PROVE IsInt(IntV(IDiv(i, j)))
  <2>1. Abs(i) \in Nat /\ Abs(j) \in Nat \ {0}
    BY <1>6 DEF Abs
  <2> DEFINE q == Abs(i) \div Abs(j)
             x == IF (i < 0) # (j < 0) THEN -q ELSE q
  <2>2. q \in Int
    BY <2>1
  <2>3. x \in Int
    <3> HIDE DEF q
    <3> QED BY <2>2
  <2>4. IDiv(i, j) = Wrap(x)
    BY Zenon DEF IDiv
  <2> HIDE DEF x
  <2> QED BY <1>3, <2>3, <2>4
<1> QED BY <1>3, <1>4, <1>5, <1>6

(* The operands that an arithmetic operator takes, by the type it gives.   *)
LEMMA ArithmeticTypes ==
  ASSUME NEW fn \in Arithmetic, NEW lt \in ValueTypes, NEW rt \in ValueTypes,
         NEW t, t = ArithmeticType(fn, lt, rt), t # "none"
  PROVE  /\ t \in IntTypes \cup {"REAL", "TIME"}
         /\ lt \in NumericTypes \cup {"TIME"} /\ rt \in NumericTypes \cup {"TIME"}
         /\ t \in IntTypes => lt \in IntTypes /\ rt \in IntTypes
         /\ t \notin IntTypes => lt \in {"REAL", "TIME"} \/ rt \in {"REAL", "TIME"}
BY DEF ArithmeticType, Promote, Arithmetic, ValueTypes, NumericTypes, IntTypes

(* An operator on two values of its types gives a value of the type that   *)
(* the compiler gives the expression, unless it divides by zero.           *)
LEMMA OperatorKeepsTypes ==
  ASSUME NEW fn \in LadderOps, NEW lt \in ValueTypes, NEW rt \in ValueTypes,
         NEW t, t = BinaryType(fn, lt, rt), t # "none",
         NEW a, IsValue(a, lt), NEW b, IsValue(b, rt)
  PROVE  /\ t \in ValueTypes
         /\ LET v == Kernel(KernelOf(fn, t), a, b) IN IsValue(v, t) \/ v = FaultV("div_zero")
<1> DEFINE v == Kernel(KernelOf(fn, t), a, b)
<1>1. CASE fn \in Relations
  <2>1. t = "BOOL" /\ KernelOf(fn, t) = fn
    BY <1>1 DEF BinaryType, KernelOf, Relations, Logical
  <2>2. PICK x : v = BoolV(x)
    BY <1>1, <2>1, Zenon DEF Relations, Kernel
  <2> QED BY <2>1, <2>2, BoolIsValue DEF ValueTypes
<1>2. CASE fn \in Arithmetic
  <2>1. t = ArithmeticType(fn, lt, rt)
    BY <1>2 DEF BinaryType, Relations, Logical, Arithmetic
  <2>2. /\ t \in IntTypes \cup {"REAL", "TIME"}
        /\ lt \in NumericTypes \cup {"TIME"} /\ rt \in NumericTypes \cup {"TIME"}
        /\ t \in IntTypes => lt \in IntTypes /\ rt \in IntTypes
        /\ t \notin IntTypes => lt \in {"REAL", "TIME"} \/ rt \in {"REAL", "TIME"}
    BY <1>2, <2>1, ArithmeticTypes
  <2>3. IsNumber(a) /\ IsNumber(b)
    BY <2>2, ValueIsNumber
  <2>4. CASE t \in IntTypes
    <3>1. IsInt(a) /\ IsInt(b)
      BY <2>2, <2>4, ValueIsNumber
    <3>2. KernelOf(fn, t) \in {"wrap_add", "wrap_sub", "wrap_mul", "idiv"}
      BY <1>2, <2>4 DEF KernelOf, Relations, Arithmetic
    <3>3. IsInt(v) \/ v = FaultV("div_zero")
      BY <3>1, <3>2, IntArithmetic
    <3> QED BY <2>4, <3>3 DEF IsValue, ValueTypes, NumericTypes, IntTypes
  <2>5. CASE t \notin IntTypes
    <3>1. a.k = "real" \/ b.k = "real"
      BY <2>2, <2>5, ValueIsNumber
    <3>2. KernelOf(fn, t) \in {"add", "sub", "mul", "real_div"}
      BY <1>2, <2>5 DEF KernelOf, Relations, Arithmetic
    <3>3. Kernel("real_div", a, b) = IF b.n = 0 THEN FaultV("div_zero") ELSE Quotient(a, b)
      BY Zenon DEF Kernel
    <3>4. IsReal(Kernel("real_div", a, b)) \/ Kernel("real_div", a, b) = FaultV("div_zero")
      BY <2>3, <3>3, QuotientIsReal
    <3>5. IsReal(v) \/ v = FaultV("div_zero")
      BY <2>3, <3>1, <3>2, <3>4, RealArithmetic
    <3> QED BY <2>2, <2>5, <3>5 DEF IsValue, ValueTypes, NumericTypes, IntTypes
  <2> QED BY <2>4, <2>5
<1> QED BY <1>1, <1>2 DEF LadderOps

-----------------------------------------------------------------------------
(* Expressions of a program.                                               *)

(* An operand that gives a value of its type whenever p runs.              *)
IsOperandOf(p, e) ==
  /\ e.op \in {"lit", "var"} /\ e.type \in ValueTypes
  /\ \A c : TypedContext(c, p) => IsValue(Leaf(c, e), e.type)

(* An expression that gives one, or divides by zero.                       *)
IsExpressionOf(p, e) ==
  /\ e.op # "power" /\ e.type \in ValueTypes
  /\ \A c : TypedContext(c, p) => IsValue(Result(c, e), e.type) \/ Result(c, e) = FaultV("div_zero")

(* The result of an operand is its value, never a fault.                   *)
LEMMA OperandResult ==
  ASSUME NEW p, NEW e, IsOperandOf(p, e), NEW c, TypedContext(c, p)
  PROVE  Result(c, e) = Leaf(c, e) /\ IsValue(Result(c, e), e.type) /\ ~IsFault(Result(c, e))
<1>1. Result(c, e) = Leaf(c, e)
  BY DEF Result, IsOperandOf
<1>2. IsValue(Leaf(c, e), e.type) /\ e.type \in ValueTypes
  BY DEF IsOperandOf
<1> QED BY <1>1, <1>2, ValueIsNoFault

(* An operand is an expression.                                            *)
LEMMA OperandIsExpression ==
  ASSUME NEW p, NEW e, IsOperandOf(p, e)
  PROVE  IsExpressionOf(p, e)
<1>1. e.op # "power" /\ e.type \in ValueTypes
  BY DEF IsOperandOf
<1> QED BY <1>1, OperandResult DEF IsExpressionOf

(* An operator on two operands is one.                                     *)
LEMMA OperatorIsExpression ==
  ASSUME NEW p, NEW fn \in LadderOps, NEW l, NEW r, l.bad \/ IsOperandOf(p, l), r.bad \/ IsOperandOf(p, r),
         ~BinaryNode(fn, l, r).bad
  PROVE  IsExpressionOf(p, BinaryNode(fn, l, r))
<1> DEFINE e == BinaryNode(fn, l, r)
           t == BinaryType(fn, l.type, r.type)
<1>1. e # BadNode
  <2>1. BadNode.bad
    BY DEF BadNode
  <2> QED BY <2>1, Zenon
<1>2. fn \notin Logical
  BY DEF LadderOps, Arithmetic, Relations, Logical
<1>3. ~(l.bad \/ r.bad) /\ t # "none"
      /\ e = [op |-> "binary", fn |-> KernelOf(fn, t), l |-> l, r |-> r, type |-> t, bad |-> FALSE]
  BY <1>1, <1>2 DEF BinaryNode
<1> HIDE DEF e
<1>4. IsOperandOf(p, l) /\ IsOperandOf(p, r)
  BY <1>3
<1>5. e.op = "binary" /\ e.fn = KernelOf(fn, t) /\ e.l = l /\ e.r = r /\ e.type = t
  BY <1>3
<1>6. l.type \in ValueTypes /\ r.type \in ValueTypes
  BY <1>4 DEF IsOperandOf
<1> HIDE DEF t
<1>7. ASSUME NEW c, TypedContext(c, p)
      PROVE  /\ t \in ValueTypes
             /\ IsValue(Result(c, e), t) \/ Result(c, e) = FaultV("div_zero")
  <2> DEFINE a == Leaf(c, l)  b == Leaf(c, r)
  <2>1. IsValue(a, l.type) /\ ~IsFault(a) /\ IsValue(b, r.type) /\ ~IsFault(b)
    <3>1. /\ Result(c, l) = a /\ IsValue(Result(c, l), l.type) /\ ~IsFault(Result(c, l))
          /\ Result(c, r) = b /\ IsValue(Result(c, r), r.type) /\ ~IsFault(Result(c, r))
      BY <1>4, <1>7, OperandResult
    <3> QED BY <3>1, Zenon
  <2>2. Result(c, e) = Kernel(KernelOf(fn, t), a, b)
    BY <1>5, <2>1, Zenon DEF Result, Combined
  <2> HIDE DEF a, b
  <2> QED BY <1>3, <1>6, <2>1, <2>2, OperatorKeepsTypes DEF t
<1>8. t \in ValueTypes
  BY <1>3, <1>6 DEF t, BinaryType, LadderOps, Arithmetic, Relations, Logical, ArithmeticType, Promote,
     ValueTypes, NumericTypes, IntTypes
<1> QED BY <1>5, <1>7, <1>8 DEF IsExpressionOf, e

(* A value that is assigned, converted to a real where that is needed.     *)
LEMMA ConvertedFits ==
  ASSUME NEW st \in ValueTypes, NEW t \in ValueTypes, Assignable(st, t), NEW v, IsValue(v, st), NEW conv,
         t = "REAL" /\ st \in IntTypes => conv, conv => t = "REAL"
  PROVE  IsValue(Convert(conv, v), t)
<1>0. ~IsFault(v)
  BY ValueIsNoFault
<1>1. CASE conv
  <2>1. Convert(conv, v) = RealV(v.n, v.d) /\ st \in NumericTypes
    BY <1>0, <1>1 DEF Convert, Assignable, NumericTypes, Float
  <2>2. IsNumber(v)
    BY <2>1, ValueIsNumber
  <2> QED BY <1>1, <2>1, <2>2 DEF IsValue, IsReal, IsNumber, IntTypes
<1>2. CASE ~conv
  <2>1. Convert(conv, v) = v
    BY <1>2 DEF Convert
  <2>2. st = t \/ (st \in IntTypes /\ t \in IntTypes)
    BY <1>2 DEF Assignable
  <2> QED BY <2>1, <2>2 DEF IsValue, IntTypes
<1> QED BY <1>1, <1>2

-----------------------------------------------------------------------------
(* Elements without elements inside.                                       *)

(* What comes out of an element: a typed context, and no fault but one.    *)
GoodFlow(p, f) ==
  /\ Over(f, {"ctx", "power", "sig"}) /\ TypedContext(f.ctx, p) /\ f.power \in BOOLEAN
  /\ f.sig \in {"go", "div_zero"}

(* An element that runs well in every typed context.                       *)
RunsWell(p, x) ==
  \A c : \A power \in BOOLEAN : TypedContext(c, p) => GoodFlow(p, RunNode(c, x, power))

LEMMA FlowIsGood ==
  ASSUME NEW p, NEW c, TypedContext(c, p), NEW power \in BOOLEAN
  PROVE  GoodFlow(p, Flow(c, power)) /\ GoodFlow(p, Broken(c, FaultV("div_zero")))
BY DEF GoodFlow, Flow, Broken, FaultV, Over

(* A contact.                                                              *)
LEMMA ContactRunsWell ==
  ASSUME NEW p, NEW x, x.el = "contact", x.kind \in {"NO", "NC", "P", "N"}, IsOperandOf(p, x.expr),
         x.kind \in {"P", "N"} => Writes(p, "local", x.key, "BOOL")
  PROVE  RunsWell(p, x)
<1> SUFFICES ASSUME NEW c, NEW power \in BOOLEAN, TypedContext(c, p) PROVE GoodFlow(p, RunNode(c, x, power))
  BY DEF RunsWell
<1>1. RunNode(c, x, power) = RunContact(c, x, power)
  BY DEF RunNode
<1> DEFINE v    == Result(c, x.expr)
           now  == Truth(v)
           prev == Truth(Load(c, "local", x.key))
           kept == Store(c, "local", x.key, BoolV(now))
<1>2. ~IsFault(v)
  BY OperandResult
<1>3. now \in BOOLEAN /\ prev \in BOOLEAN
  BY DEF Truth
<1>4. x.kind \in {"P", "N"} => TypedContext(kept, p)
  <2>1. IsValue(BoolV(now), "BOOL")
    BY BoolIsValue
  <2> QED BY <2>1, WriteKeepsContext
<1>5. RunContact(c, x, power) =
        CASE IsFault(v) -> Broken(c, v)
          [] ~IsFault(v) /\ x.kind = "NO" -> Flow(c, power /\ now)
          [] ~IsFault(v) /\ x.kind = "NC" -> Flow(c, power /\ ~now)
          [] ~IsFault(v) /\ x.kind = "P"  -> Flow(kept, power /\ now /\ ~prev)
          [] ~IsFault(v) /\ x.kind = "N"  -> Flow(kept, power /\ ~now /\ prev)
  BY Zenon DEF RunContact
<1> HIDE DEF v, now, prev, kept
<1>6. CASE x.kind = "NO"
  <2>1. RunContact(c, x, power) = Flow(c, power /\ now)
    BY <1>2, <1>5, <1>6
  <2> QED BY <1>1, <1>3, <2>1, FlowIsGood
<1>7. CASE x.kind = "NC"
  <2>1. RunContact(c, x, power) = Flow(c, power /\ ~now)
    BY <1>2, <1>5, <1>7
  <2> QED BY <1>1, <1>3, <2>1, FlowIsGood
<1>8. CASE x.kind = "P"
  <2>1. RunContact(c, x, power) = Flow(kept, power /\ now /\ ~prev)
    BY <1>2, <1>5, <1>8
  <2> QED BY <1>1, <1>3, <1>4, <1>8, <2>1, FlowIsGood
<1>9. CASE x.kind = "N"
  <2>1. RunContact(c, x, power) = Flow(kept, power /\ ~now /\ prev)
    BY <1>2, <1>5, <1>9
  <2> QED BY <1>1, <1>3, <1>4, <1>9, <2>1, FlowIsGood
<1> QED BY <1>6, <1>7, <1>8, <1>9

(* A coil.                                                                 *)
LEMMA CoilRunsWell ==
  ASSUME NEW p, NEW x, x.el = "coil", x.kind \in {"COIL", "SET", "RESET", "NEGATED"},
         Writes(p, x.scope, x.key, "BOOL")
  PROVE  RunsWell(p, x)
<1> SUFFICES ASSUME NEW c, NEW power \in BOOLEAN, TypedContext(c, p) PROVE GoodFlow(p, RunNode(c, x, power))
  BY DEF RunsWell
<1>1. RunNode(c, x, power) = RunCoil(c, x, power)
  BY DEF RunNode
<1> DEFINE put(b) == Flow(Store(c, x.scope, x.key, BoolV(b)), power)
<1>2. \A b : GoodFlow(p, put(b))
  <2> TAKE b
  <2>1. IsValue(BoolV(b), "BOOL")
    BY BoolIsValue
  <2>2. TypedContext(Store(c, x.scope, x.key, BoolV(b)), p)
    BY <2>1, WriteKeepsContext
  <2> QED BY <2>2, FlowIsGood
<1>3. RunCoil(c, x, power) =
        CASE x.kind = "COIL"    -> put(power)
          [] x.kind = "NEGATED" -> put(~power)
          [] x.kind \in {"SET", "RESET"} -> IF power THEN put(x.kind = "SET") ELSE Flow(c, power)
  BY Zenon DEF RunCoil
<1> HIDE DEF put
<1>4. GoodFlow(p, Flow(c, power))
  BY FlowIsGood
<1>5. RunCoil(c, x, power) \in {put(power), put(~power), put(x.kind = "SET"), Flow(c, power)}
  BY <1>3
<1> QED BY <1>1, <1>2, <1>4, <1>5, Zenon

(* A comparison.                                                           *)
LEMMA CompareRunsWell ==
  ASSUME NEW p, NEW x, x.el = "compare", IsExpressionOf(p, x.expr)
  PROVE  RunsWell(p, x)
<1> SUFFICES ASSUME NEW c, NEW power \in BOOLEAN, TypedContext(c, p) PROVE GoodFlow(p, RunNode(c, x, power))
  BY DEF RunsWell
<1>1. RunNode(c, x, power) = RunCompare(c, x, power)
  BY DEF RunNode
<1> DEFINE v == Result(c, x.expr)
<1>2. RunCompare(c, x, power) = IF ~power THEN Flow(c, FALSE)
                                ELSE IF IsFault(v) THEN Broken(c, v) ELSE Flow(c, Truth(v))
  BY Zenon DEF RunCompare
<1>3. IsFault(v) => v = FaultV("div_zero")
  BY ValueIsNoFault DEF IsExpressionOf
<1>4. Truth(v) \in BOOLEAN
  BY DEF Truth
<1> HIDE DEF v
<1> QED BY <1>1, <1>2, <1>3, <1>4, FlowIsGood

(* A move, or the result of an arithmetic box.                             *)
LEMMA StoreRunsWell ==
  ASSUME NEW p, NEW x, x.el = "store", IsExpressionOf(p, x.expr), NEW t \in ValueTypes,
         Writes(p, x.scope, x.key, t), Assignable(x.expr.type, t), x.conv = ToReal(x.expr, t)
  PROVE  RunsWell(p, x)
<1> SUFFICES ASSUME NEW c, NEW power \in BOOLEAN, TypedContext(c, p) PROVE GoodFlow(p, RunNode(c, x, power))
  BY DEF RunsWell
<1>1. RunNode(c, x, power) = RunStore(c, x, power)
  BY DEF RunNode
<1> DEFINE r == Result(c, x.expr)
           v == Convert(x.conv, r)
           after == Store(c, x.scope, x.key, v)
<1>2. RunStore(c, x, power) = IF ~power THEN Flow(c, FALSE)
                              ELSE IF IsFault(v) THEN Broken(c, v) ELSE Flow(after, TRUE)
  BY Zenon DEF RunStore
<1>3. CASE r = FaultV("div_zero")
  <2>1. IsFault(r)
    BY <1>3 DEF IsFault, FaultV, FaultKinds
  <2>2. v = FaultV("div_zero")
    BY <1>3, <2>1 DEF Convert
  <2>3. IsFault(v)
    BY <1>3, <2>1, <2>2
  <2> HIDE DEF v, after
  <2> QED BY <1>1, <1>2, <2>2, <2>3, FlowIsGood
<1>4. CASE IsValue(r, x.expr.type)
  <2>1. IsValue(v, t)
    BY <1>4, ConvertedFits DEF ToReal, IsExpressionOf
  <2>2. TypedContext(after, p)
    BY <2>1, WriteKeepsContext
  <2>3. ~IsFault(v)
    BY <2>1, ValueIsNoFault
  <2> HIDE DEF v, after
  <2> QED BY <1>1, <1>2, <2>2, <2>3, FlowIsGood
<1> QED BY <1>3, <1>4 DEF IsExpressionOf

-----------------------------------------------------------------------------
(* Timers and counters.                                                    *)

(* What a rung does with an output of its block of type fb: nothing, or it *)
(* is stored in a variable that takes it.                                  *)
IsOutputOf(p, fb, o) ==
  \/ o.field = "none"
  \/ /\ o.field \in Elements(OutputsOf(fb))
     /\ \E t \in ValueTypes : /\ Writes(p, o.scope, o.key, t) /\ Assignable(FieldType(o.field), t)
                              /\ o.conv = (t = "REAL")

(* An output of a block is stored.                                         *)
LEMMA OutputIsStored ==
  ASSUME NEW p, NEW c, TypedContext(c, p), NEW fb \in Timers \cup {"CTU", "CTD"}, NEW b, IsBlock(b, fb),
         NEW o, IsOutputOf(p, fb, o)
  PROVE  TypedContext(StoreOut(c, b, o), p)
<1> DEFINE f == o.field
<1>1. CASE f = "none"
  BY <1>1 DEF StoreOut
<1>2. CASE f # "none"
  <2>1. PICK t \in ValueTypes : /\ Writes(p, o.scope, o.key, t) /\ Assignable(FieldType(f), t)
                                /\ o.conv = (t = "REAL")
    BY <1>2 DEF IsOutputOf
  <2>2. fb \in BlockTypes /\ fb \notin Latches
    BY DEF BlockTypes, Timers, Counters, Triggers, Latches
  <2>3. f \in FieldsOf(fb) /\ f # "PT"
    BY <1>2, <2>2, NoDelayIsAnOutput DEF IsOutputOf, FieldsOf
  <2>4. GetField(b, f) = b[f] /\ FieldFits(b[f], f)
    BY <2>2, <2>3 DEF GetField, IsBlock
  <2>5. IsValue(b[f], FieldType(f))
    BY <2>3, <2>4 DEF FieldFits
  <2>6. FieldType(f) \in ValueTypes
    BY <2>2, <2>3, FieldsAreNamed, FieldTypes DEF ValueTypes, NumericTypes, IntTypes, FieldNames
  <2>7. IsValue(Convert(o.conv, b[f]), t)
    BY <2>1, <2>5, <2>6, ConvertedFits
  <2>8. StoreOut(c, b, o) = Store(c, o.scope, o.key, Convert(o.conv, b[f]))
    BY <1>2, <2>4 DEF StoreOut
  <2> QED BY <2>1, <2>7, <2>8, WriteKeepsContext
<1> QED BY <1>1, <1>2

(* A block that is called with inputs that fit.                            *)
LEMMA BlockRunsWell ==
  ASSUME NEW p, NEW c, TypedContext(c, p), NEW fb \in Timers \cup {"CTU", "CTD"},
         NEW x, Owns(p, x.key, fb), IsOutputOf(p, fb, x.outs[1]), IsOutputOf(p, fb, x.outs[2]),
         NEW ins, IsInputs(ins, fb), \A f \in DOMAIN ins : ~IsFault(ins[f])
  PROVE  GoodFlow(p, RunBlock(c, x, ins))
<1> DEFINE old == Load(c, "local", x.key)
           b == Execute(SetInputs(old, ins), c.dt)
           bad == {f \in DOMAIN ins : IsFault(ins[f])}
<1>0. fb \in BlockTypes
  BY DEF BlockTypes, Counters
<1>1. RunBlock(c, x, ins) = PassOn(c, x, b)
  <2>1. bad = {}
    OBVIOUS
  <2> QED BY <2>1, Zenon DEF RunBlock
<1>2. IsBlock(b, fb)
  <2>1. IsBlock(old, fb)
    BY <1>0, BlockInContext
  <2>2. SetInputs(old, ins) = SetFields(old, ins)
    BY Zenon DEF SetInputs, SetFields
  <2>3. IsBlock(SetInputs(old, ins), fb)
    <3> HIDE DEF old
    <3> QED BY <1>0, <2>1, <2>2, SetIsBlock
  <2>4. IsReal(c.dt)
    BY ContextParts
  <2> HIDE DEF old
  <2> QED BY <1>0, <2>3, <2>4, BlocksKeepTypes
<1> HIDE DEF b
<1> DEFINE d == Store(c, "local", x.key, b)
           e == StoreOut(d, b, x.outs[1])
<1>3. TypedContext(d, p)
  BY <1>0, <1>2, BlockInContext
<1> HIDE DEF d
<1>4. TypedContext(e, p)
  BY <1>2, <1>3, OutputIsStored
<1> HIDE DEF e
<1>5. TypedContext(StoreOut(e, b, x.outs[2]), p)
  BY <1>2, <1>4, OutputIsStored
<1>6. PassOn(c, x, b) = Flow(StoreOut(e, b, x.outs[2]), Truth(b.Q))
  BY Zenon DEF PassOn, d, e
<1>7. Truth(b.Q) \in BOOLEAN
  BY DEF Truth
<1> QED BY <1>1, <1>5, <1>6, <1>7, FlowIsGood

(* An input that may be left out: an operand, or the power of the rung.    *)
IsDriveOf(p, e) == e.op = "power" \/ IsOperandOf(p, e)

(* As a truth value it fits every Boolean field.                           *)
LEMMA DriveFits ==
  ASSUME NEW p, NEW e, IsDriveOf(p, e), NEW c, TypedContext(c, p), NEW power
  PROVE  /\ ~IsFault(AsBool(Reading(c, e, power)))
         /\ \A f \in FieldNames \ {"PT", "ET", "PV", "CV"} : FieldFits(AsBool(Reading(c, e, power)), f)
<1> DEFINE v == Reading(c, e, power)
<1>1. ~IsFault(v)
  <2>1. CASE e.op = "power"
    <3>1. v = BoolV(power)
      BY <2>1 DEF Reading
    <3> QED BY <3>1 DEF BoolV, IsFault, FaultKinds
  <2>2. CASE e.op # "power"
    <3>1. v = Result(c, e)
      BY <2>2 DEF Reading
    <3>2. IsOperandOf(p, e)
      BY <2>2 DEF IsDriveOf
    <3> QED BY <3>1, <3>2, OperandResult
  <2> QED BY <2>1, <2>2
<1>2. AsBool(v) = BoolV(Truth(v))
  BY <1>1 DEF AsBool
<1> HIDE DEF v
<1>3. ~IsFault(AsBool(v))
  BY <1>2 DEF BoolV, IsFault, FaultKinds
<1>4. ASSUME NEW f \in FieldNames \ {"PT", "ET", "PV", "CV"} PROVE FieldFits(AsBool(v), f)
  <2>1. IsBool(AsBool(v))
    BY <1>2, BoolIsValue
  <2>2. IsValue(AsBool(v), FieldType(f))
    BY <2>1, FieldValue
  <2> QED BY <2>2, ValueFits
<1> QED BY <1>3, <1>4 DEF v

(* A timer, whose delay may be any number.                                 *)
LEMMA TimerRunsWell ==
  ASSUME NEW p, NEW fb \in Timers, NEW x, x.el = "timer", Owns(p, x.key, fb),
         IsOutputOf(p, fb, x.outs[1]), IsOutputOf(p, fb, x.outs[2]),
         IsOperandOf(p, x.pt), NumOrTime(x.pt.type), IsDriveOf(p, x.in)
  PROVE  RunsWell(p, x)
<1> SUFFICES ASSUME NEW c, NEW power \in BOOLEAN, TypedContext(c, p) PROVE GoodFlow(p, RunNode(c, x, power))
  BY DEF RunsWell
<1> DEFINE in == AsBool(Reading(c, x.in, power))
           pt == Result(c, x.pt)
           ins == [IN |-> in, PT |-> pt]
<1>1. RunNode(c, x, power) = RunTimer(c, x, power)
  BY DEF RunNode
<1>2. RunTimer(c, x, power) = RunBlock(c, x, ins)
  BY Zenon DEF RunTimer
<1>3. ~IsFault(in) /\ FieldFits(in, "IN")
  BY DriveFits DEF FieldNames
<1>4. ~IsFault(pt) /\ FieldFits(pt, "PT")
  <2>1. IsValue(pt, x.pt.type) /\ ~IsFault(pt)
    BY OperandResult
  <2>2. IsNumber(pt)
    BY <2>1, ValueIsNumber DEF NumOrTime
  <2> QED BY <2>1, <2>2 DEF FieldFits
<1> HIDE DEF in, pt
<1>5. IsInputs(ins, fb) /\ \A f \in DOMAIN ins : ~IsFault(ins[f])
  BY <1>3, <1>4, Fields DEF IsInputs
<1> HIDE DEF ins
<1> QED BY <1>1, <1>2, <1>5, BlockRunsWell

(* A counter.                                                              *)
LEMMA CounterRunsWell ==
  ASSUME NEW p, NEW x, x.el = "counter", x.fb \in {"CTU", "CTD"}, Owns(p, x.key, x.fb),
         IsOutputOf(p, x.fb, x.outs[1]), IsOutputOf(p, x.fb, x.outs[2]),
         IsOperandOf(p, x.pv), x.pv.type \in IntTypes, IsDriveOf(p, x.drive), IsOperandOf(p, x.reset)
  PROVE  RunsWell(p, x)
<1> SUFFICES ASSUME NEW c, NEW power \in BOOLEAN, TypedContext(c, p) PROVE GoodFlow(p, RunNode(c, x, power))
  BY DEF RunsWell
<1> DEFINE drive == AsBool(Reading(c, x.drive, power))
           reset == AsBool(Result(c, x.reset))
           pv == Result(c, x.pv)
           up == [CU |-> drive, R |-> reset, PV |-> pv]
           down == [CD |-> drive, LD |-> reset, PV |-> pv]
<1>1. RunNode(c, x, power) = RunCounter(c, x, power)
  BY DEF RunNode
<1>2. RunCounter(c, x, power) = RunBlock(c, x, IF x.fb = "CTU" THEN up ELSE down)
  BY Zenon DEF RunCounter
<1>3. ~IsFault(drive) /\ FieldFits(drive, "CU") /\ FieldFits(drive, "CD")
  BY DriveFits DEF FieldNames
<1>4. ~IsFault(reset) /\ FieldFits(reset, "R") /\ FieldFits(reset, "LD")
  <2>1. Reading(c, x.reset, power) = Result(c, x.reset)
    BY DEF Reading, IsOperandOf
  <2>2. IsDriveOf(p, x.reset)
    BY DEF IsDriveOf
  <2> QED BY <2>1, <2>2, DriveFits DEF FieldNames
<1>5. ~IsFault(pv) /\ FieldFits(pv, "PV")
  <2>1. IsValue(pv, x.pv.type) /\ ~IsFault(pv)
    BY OperandResult
  <2>2. IsInt(pv)
    BY <2>1 DEF IsValue
  <2>3. IsValue(pv, FieldType("PV"))
    BY <2>2, FieldValue
  <2> QED BY <2>1, <2>3, ValueFits
<1> HIDE DEF drive, reset, pv
<1>6. CASE x.fb = "CTU"
  <2>1. IsInputs(up, "CTU") /\ \A f \in DOMAIN up : ~IsFault(up[f])
    BY <1>3, <1>4, <1>5, Fields DEF IsInputs
  <2> HIDE DEF up, down
  <2> QED BY <1>1, <1>2, <1>6, <2>1, BlockRunsWell
<1>7. CASE x.fb = "CTD"
  <2>1. IsInputs(down, "CTD") /\ \A f \in DOMAIN down : ~IsFault(down[f])
    BY <1>3, <1>4, <1>5, Fields DEF IsInputs
  <2> HIDE DEF up, down
  <2> QED BY <1>1, <1>2, <1>7, <2>1, BlockRunsWell
<1> QED BY <1>6, <1>7

-----------------------------------------------------------------------------
(* Elements inside elements.                                               *)

(* An element inside another one that runs well.                           *)
Sound(p, x) ==
  \A c : \A power \in BOOLEAN : TypedContext(c, p) => GoodFlow(p, RunElement(c, x, power))

Kinds == {"series", "parallel", "rungs"}

(* The flow through the first n elements of a list.                        *)
IsFlow(kind, c, xs, power, n, f) ==
  f = [i \in 0 .. n |-> IF i = 0 THEN Flow(c, StartPower(kind, power))
                         ELSE RunNext(kind, power, f[i - 1], xs[i])]

(* The recursive definition of RunItems defines a function.                *)
LEMMA FlowExists ==
  ASSUME NEW kind, NEW c, NEW xs, Len(xs) \in Nat, NEW power
  PROVE  \E f : IsFlow(kind, c, xs, power, Len(xs), f)
<1> DEFINE L == Len(xs)
           E == Flow(c, StartPower(kind, power))
           Step(a, i) == RunNext(kind, power, a, xs[i])
           S == {n \in 0 .. L : \E f : IsFlow(kind, c, xs, power, n, f)}
<1>0. L \in Nat
  OBVIOUS
<1> HIDE DEF L, Step, E
<1>1. 0 \in S
  <2> DEFINE z == [i \in 0 .. 0 |-> E]
  <2>1. \A i \in 0 .. 0 : i = 0
    OBVIOUS
  <2>2. z = [i \in 0 .. 0 |-> IF i = 0 THEN E ELSE Step(z[i - 1], i)]
    BY <2>1, Zenon
  <2>3. IsFlow(kind, c, xs, power, 0, z)
    <3> HIDE DEF z
    <3> QED BY <2>2, Zenon DEF IsFlow, Step, E
  <2> QED BY <2>3, <1>0
<1>2. ASSUME NEW n \in 0 .. L - 1, n \in S PROVE n + 1 \in S
  <2>1. PICK f : IsFlow(kind, c, xs, power, n, f)
    BY <1>2
  <2>2. f = [i \in 0 .. n |-> IF i = 0 THEN E ELSE Step(f[i - 1], i)]
    BY <2>1, Zenon DEF IsFlow, Step, E
  <2> DEFINE v == Step(f[n], n + 1)
             g == [i \in 0 .. n + 1 |-> IF i = n + 1 THEN v ELSE f[i]]
  <2>3. ASSUME NEW i \in 0 .. n + 1
        PROVE  g[i] = IF i = 0 THEN E ELSE Step(g[i - 1], i)
    <3>1. CASE i = n + 1
      <4>1. g[i] = v /\ g[i - 1] = f[n] /\ i # 0
        BY <3>1, <1>0
      <4> HIDE DEF g
      <4> QED BY <4>1, <3>1
    <3>2. CASE i # n + 1
      <4>1. i \in 0 .. n /\ g[i] = f[i] /\ (i # 0 => g[i - 1] = f[i - 1])
        BY <3>2, <1>0
      <4> HIDE DEF g
      <4> QED BY <4>1, <2>2
    <3> QED BY <3>1, <3>2
  <2>4. g = [i \in 0 .. n + 1 |-> IF i = 0 THEN E ELSE Step(g[i - 1], i)]
    <3>1. g = [i \in 0 .. n + 1 |-> g[i]]
      OBVIOUS
    <3> HIDE DEF g
    <3> QED BY <3>1, <2>3
  <2>5. IsFlow(kind, c, xs, power, n + 1, g)
    <3> HIDE DEF g
    <3> QED BY <2>4, Zenon DEF IsFlow, Step, E
  <2>6. n + 1 \in 0 .. L
    BY <1>0
  <2> QED BY <2>5, <2>6
<1>3. L \in S
  <2> HIDE DEF S
  <2>1. \A n \in 0 .. L : n \in S
    BY <1>0, <1>1, <1>2, IntervalInduction
  <2> QED BY <1>0, <2>1
<1> QED BY <1>3 DEF L

(* RunItems is the last value of the flow, which goes element by element.  *)
LEMMA RunItemsIsFlow ==
  ASSUME NEW kind, NEW c, NEW xs, Len(xs) \in Nat, NEW power
  PROVE  \E f : /\ f[0] = Flow(c, StartPower(kind, power))
                /\ \A n \in 0 .. Len(xs) - 1 : f[n + 1] = RunNext(kind, power, f[n], xs[n + 1])
                /\ RunItems(kind, c, xs, power) = f[Len(xs)]
<1> DEFINE L == Len(xs)
           Run(f) == [i \in 0 .. Len(xs) |-> IF i = 0 THEN Flow(c, StartPower(kind, power))
                                              ELSE RunNext(kind, power, f[i - 1], xs[i])]
           flow == CHOOSE f : f = Run(f)
<1>1. \A f : IsFlow(kind, c, xs, power, Len(xs), f) <=> f = Run(f)
  BY Zenon DEF IsFlow
<1>2. RunItems(kind, c, xs, power) = flow[Len(xs)]
  BY Zenon DEF RunItems
<1>3. flow = Run(flow)
  <2>1. \E f : f = Run(f)
    BY FlowExists, <1>1
  <2> HIDE DEF Run
  <2> QED BY <2>1, Zenon
<1>4. IsFlow(kind, c, xs, power, Len(xs), flow)
  <2> HIDE DEF Run, flow
  <2> QED BY <1>1, <1>3
<1> HIDE DEF Run, flow
<1>5. flow[0] = Flow(c, StartPower(kind, power))
      /\ \A n \in 0 .. L - 1 : flow[n + 1] = RunNext(kind, power, flow[n], xs[n + 1])
  <2>0. L \in Nat
    OBVIOUS
  <2>1. flow = [i \in 0 .. L |-> IF i = 0 THEN Flow(c, StartPower(kind, power))
                                  ELSE RunNext(kind, power, flow[i - 1], xs[i])]
    BY <1>4 DEF IsFlow
  <2> HIDE DEF L
  <2>2. 0 \in 0 .. L /\ \A n \in 0 .. L - 1 : n + 1 \in 0 .. L /\ n + 1 # 0 /\ (n + 1) - 1 = n
    BY <2>0
  <2> QED BY <2>1, <2>2
<1> QED BY <1>2, <1>5

(* One element more.                                                       *)
LEMMA NextKeepsFlow ==
  ASSUME NEW p, NEW kind \in Kinds, NEW power \in BOOLEAN, NEW f, GoodFlow(p, f), NEW x, Sound(p, x)
  PROVE  GoodFlow(p, RunNext(kind, power, f, x))
<1>1. TypedContext(f.ctx, p) /\ f.power \in BOOLEAN
  BY DEF GoodFlow
<1>2. CASE f.sig # "go"
  BY <1>2 DEF RunNext
<1>3. CASE f.sig = "go" /\ kind = "series"
  <2>1. RunNext(kind, power, f, x) = RunElement(f.ctx, x, f.power)
    BY <1>3 DEF RunNext
  <2> QED BY <1>1, <2>1 DEF Sound
<1>4. CASE f.sig = "go" /\ kind = "rungs"
  <2>1. RunNext(kind, power, f, x) = RunElement(f.ctx, x, TRUE)
    BY <1>4 DEF RunNext
  <2> QED BY <1>1, <2>1 DEF Sound
<1>5. CASE f.sig = "go" /\ kind = "parallel"
  <2> DEFINE g == RunElement(f.ctx, x, power)
             h == [g EXCEPT !.power = @ \/ f.power]
  <2>1. RunNext(kind, power, f, x) = h
    BY <1>5 DEF RunNext
  <2>2. GoodFlow(p, g)
    BY <1>1 DEF Sound
  <2> HIDE DEF g
  <2>3. Over(g, {"ctx", "power", "sig"}) /\ g.power \in BOOLEAN
    BY <2>2 DEF GoodFlow
  <2>4. Over(h, {"ctx", "power", "sig"}) /\ h.ctx = g.ctx /\ h.sig = g.sig /\ h.power = (g.power \/ f.power)
    BY <2>3 DEF Over
  <2> HIDE DEF h
  <2> QED BY <1>1, <2>1, <2>2, <2>3, <2>4 DEF GoodFlow
<1> QED BY <1>2, <1>3, <1>4, <1>5 DEF Kinds

(* A list of elements that run well runs well.                             *)
LEMMA ItemsRunWell ==
  ASSUME NEW p, NEW kind \in Kinds, NEW c, TypedContext(c, p), NEW power \in BOOLEAN,
         NEW xs, Len(xs) \in Nat, \A i \in 1 .. Len(xs) : Sound(p, xs[i])
  PROVE  GoodFlow(p, RunItems(kind, c, xs, power))
<1> DEFINE L == Len(xs)
<1>1. PICK f : /\ f[0] = Flow(c, StartPower(kind, power))
               /\ \A n \in 0 .. L - 1 : f[n + 1] = RunNext(kind, power, f[n], xs[n + 1])
               /\ RunItems(kind, c, xs, power) = f[L]
  BY RunItemsIsFlow
<1> DEFINE S == {n \in 0 .. L : GoodFlow(p, f[n])}
<1>0. L \in Nat
  OBVIOUS
<1>2. 0 \in S
  <2>1. StartPower(kind, power) \in BOOLEAN
    BY DEF StartPower, Kinds
  <2> QED BY <1>0, <1>1, <2>1, FlowIsGood
<1>3. ASSUME NEW n \in 0 .. L - 1, n \in S PROVE n + 1 \in S
  <2>1. GoodFlow(p, f[n])
    BY <1>3
  <2>2. n + 1 \in 1 .. L /\ n + 1 \in 0 .. L
    BY <1>0
  <2>3. Sound(p, xs[n + 1])
    BY <2>2
  <2>4. f[n + 1] = RunNext(kind, power, f[n], xs[n + 1])
    BY <1>1
  <2> HIDE DEF L
  <2> QED BY <2>1, <2>2, <2>3, <2>4, NextKeepsFlow
<1>4. L \in S
  <2> HIDE DEF S, L
  <2>1. \A n \in 0 .. L : n \in S
    BY <1>0, <1>2, <1>3, IntervalInduction
  <2> QED BY <1>0, <2>1
<1> QED BY <1>1, <1>4

-----------------------------------------------------------------------------
(* Environments of the compiler.                                           *)

(* The tags, and symbols as declarations make them, each under its name.   *)
IsEnv(E) ==
  /\ Over(E, {"tags", "syms", "steps", "loop", "bad"}) /\ E.tags = Tags /\ E.bad \in BOOLEAN
  /\ \A n \in DOMAIN E.syms : IsSymbol(E.syms[n]) /\ E.syms[n].key = n

(* What has symbols, a program or an environment, has those of E.          *)
Has(p, E) == \A n \in DOMAIN E.syms : n \in DOMAIN p.syms /\ p.syms[n] = E.syms[n]

(* A step of the compiler only adds symbols, and keeps a diagnostic.       *)
Leads(E, F) == IsEnv(F) /\ Has(F, E) /\ (E.bad => F.bad)

LEMMA LeadsOn ==
  ASSUME NEW E, NEW F, NEW G, Leads(E, F), Leads(F, G)
  PROVE  Leads(E, G)
BY DEF Leads, Has

(* What has the symbols of a later environment has those of an earlier one. *)
LEMMA HasEarlier ==
  ASSUME NEW E, NEW F, Leads(E, F), NEW p, Has(p, F)
  PROVE  Has(p, E)
BY DEF Leads, Has

(* A diagnostic is all that changes.                                       *)
LEMMA MarkedEnv ==
  ASSUME NEW E, IsEnv(E), NEW b \in BOOLEAN, E.bad => b
  PROVE  Leads(E, [E EXCEPT !.bad = b]) /\ [E EXCEPT !.bad = b].bad = b
         /\ [E EXCEPT !.bad = b].syms = E.syms
<1> DEFINE F == [E EXCEPT !.bad = b]
<1>1. Over(E, {"tags", "syms", "steps", "loop", "bad"})
  BY DEF IsEnv
<1>2. Over(F, {"tags", "syms", "steps", "loop", "bad"}) /\ F.tags = E.tags /\ F.syms = E.syms /\ F.bad = b
  BY <1>1 DEF Over
<1> HIDE DEF F
<1>3. IsEnv(F)
  BY <1>2, Zenon DEF IsEnv
<1> QED BY <1>2, <1>3 DEF Leads, Has, F

(* A symbol is added.                                                      *)
LEMMA AddedSymbol ==
  ASSUME NEW E, IsEnv(E), NEW n, n \notin DOMAIN E.syms, NEW sym, IsSymbol(sym), sym.key = n
  PROVE  /\ Leads(E, AddSymbol(E, n, sym))
         /\ n \in DOMAIN AddSymbol(E, n, sym).syms /\ AddSymbol(E, n, sym).syms[n] = sym
<1> DEFINE u == [x \in DOMAIN E.syms \cup {n} |-> IF x = n THEN sym ELSE E.syms[x]]
           F == [E EXCEPT !.syms = u]
<1>1. AddSymbol(E, n, sym) = F
  BY Zenon DEF AddSymbol
<1>2. Over(E, {"tags", "syms", "steps", "loop", "bad"}) /\ E.tags = Tags /\ E.bad \in BOOLEAN
      /\ \A x \in DOMAIN E.syms : IsSymbol(E.syms[x]) /\ E.syms[x].key = x
  BY Zenon DEF IsEnv
<1>3. DOMAIN u = DOMAIN E.syms \cup {n} /\ u[n] = sym /\ \A x \in DOMAIN E.syms : u[x] = E.syms[x]
  OBVIOUS
<1> HIDE DEF u
<1>4. Over(F, {"tags", "syms", "steps", "loop", "bad"}) /\ F.tags = E.tags /\ F.syms = u /\ F.bad = E.bad
  BY <1>2 DEF Over
<1> HIDE DEF F
<1>5. \A x \in DOMAIN F.syms : IsSymbol(F.syms[x]) /\ F.syms[x].key = x
  BY <1>2, <1>3, <1>4
<1>6. IsEnv(F)
  BY <1>2, <1>4, <1>5 DEF IsEnv
<1>7. Has(F, E)
  BY <1>3, <1>4 DEF Has
<1> QED BY <1>1, <1>3, <1>4, <1>6, <1>7 DEF Leads

-----------------------------------------------------------------------------
(* Documents.                                                              *)

(* A literal is a value of its type.  (For an integer this means that it   *)
(* is in range: JsonCompiler.literal takes any.)                           *)
IsLiteral(o) == o.type \in ValueTypes /\ IsValue(o.v, o.type)
IsOperand(o) == o.o \in {"lit", "name", "none"} /\ (o.o = "lit" => IsLiteral(o))

(* A declaration, with or without an initial value.                        *)
IsDeclaration(d) == d.init = PNone \/ IsLiteral(d.init)

(* What coerce_value takes.                                                *)
LEMMA LiteralIsConverted ==
  ASSUME NEW o, IsLiteral(o), NEW t \in ValueTypes, LiteralValue(o, t) # NoValue
  PROVE  IsValue(LiteralValue(o, t), t)
<1>1. Assignable(o.type, t) /\ LiteralValue(o, t) = Coerce(o.v, t)
  BY DEF LiteralValue
<1>2. Accepted(o.v, t)
  <2>1. CASE t \in {"BOOL", "STRING"}
    BY <2>1 DEF Accepted
  <2>2. CASE t \notin {"BOOL", "STRING"}
    <3>1. o.type \in NumericTypes \cup {"TIME"}
      BY <1>1, <2>2 DEF Assignable, ValueTypes, NumericTypes, IntTypes
    <3>2. IsNumber(o.v)
      BY <3>1, ValueIsNumber DEF IsLiteral
    <3> QED BY <3>2 DEF Accepted
  <2> QED BY <2>1, <2>2
<1> QED BY <1>1, <1>2, AcceptedGivesValue

(* A declaration adds its symbol, or leaves a diagnostic.                  *)
LEMMA DeclarationLeads ==
  ASSUME NEW E, IsEnv(E), NEW d, IsDeclaration(d), NEW F, F = DeclareJson(E, d)
  PROVE  /\ Leads(E, F)
         /\ ~F.bad => /\ d.name \in DOMAIN F.syms
                      /\ F.syms[d.name].fb = IF IsBlockType(d) THEN d.type ELSE "none"
                      /\ F.syms[d.name].scope = IF d.global THEN "global" ELSE "local"
<1> DEFINE t == TypeNamed(d.type)
           init == IF HasInit(d) THEN LiteralValue(d.init, t) ELSE NoValue
           wrong == \/ d.name \in DOMAIN E.syms \cup DOMAIN E.tags \cup {}
                    \/ ~IsBlockType(d) /\ t \notin ValueTypes
                    \/ d.init # PNone /\ init = NoValue
                    \/ d.constant /\ init = NoValue /\ ~IsBlockType(d)
           sym == Symbol(IF d.global THEN "global" ELSE "local", d.name,
                         IF IsBlockType(d) THEN "none" ELSE t,
                         IF IsBlockType(d) THEN d.type ELSE "none", d.constant, init)
<1>1. F = IF wrong THEN [E EXCEPT !.bad = TRUE] ELSE AddSymbol(E, d.name, sym)
  BY Zenon DEF DeclareJson, DeclareAs
<1>2. sym.scope = (IF d.global THEN "global" ELSE "local") /\ sym.key = d.name
      /\ sym.type = (IF IsBlockType(d) THEN "none" ELSE t)
      /\ sym.fb = (IF IsBlockType(d) THEN d.type ELSE "none") /\ sym.init = init
  BY DEF Symbol
<1>3. CASE wrong
  BY <1>1, <1>3, MarkedEnv
<1>4. CASE ~wrong
  <2>0. d.name \notin DOMAIN E.syms /\ (IsBlockType(d) \/ t \in ValueTypes)
    BY <1>4
  <2>1. ASSUME IsBlockType(d) PROVE IsSymbol(sym)
    <3>1. d.type \in BlockTypes /\ d.type # "none"
      BY <2>1 DEF IsBlockType, BlockTypes, Timers, Counters, Triggers, Latches
    <3> HIDE DEF sym, init
    <3> QED BY <1>2, <2>1, <3>1 DEF IsSymbol
  <2>2. ASSUME ~IsBlockType(d) PROVE IsSymbol(sym)
    <3>1. ASSUME init # NoValue PROVE IsValue(init, t)
      <4>1. HasInit(d) /\ init = LiteralValue(d.init, t)
        BY <3>1
      <4>2. IsLiteral(d.init) /\ t \in ValueTypes
        BY <4>1 DEF HasInit, IsDeclaration
      <4> HIDE DEF t, init
      <4> QED BY <3>1, <4>1, <4>2, LiteralIsConverted
    <3> HIDE DEF sym, init
    <3> QED BY <1>2, <2>0, <2>2, <3>1 DEF IsSymbol
  <2>3. IsSymbol(sym)
    BY <2>1, <2>2
  <2> HIDE DEF sym, init, wrong
  <2>4. F = AddSymbol(E, d.name, sym)
    BY <1>1, <1>4
  <2> QED BY <1>2, <2>0, <2>3, <2>4, AddedSymbol
<1> QED BY <1>3, <1>4

(* A hidden local of an element.                                           *)
LEMMA HideLeads ==
  ASSUME NEW E, IsEnv(E), NEW n, NEW type, NEW fb,
         (type = "BOOL" /\ fb = "none") \/ fb \in BlockTypes,
         NEW F, F = Hide(E, n, type, fb)
  PROVE  /\ Leads(E, F)
         /\ ~F.bad => /\ n \in DOMAIN F.syms /\ F.syms[n].scope = "local"
                      /\ F.syms[n].fb = fb /\ F.syms[n].type = type
<1> DEFINE sym == Symbol("local", n, type, fb, FALSE, NoValue)
<1>1. sym.scope = "local" /\ sym.key = n /\ sym.type = type /\ sym.fb = fb /\ sym.init = NoValue
  BY DEF Symbol
<1>2. F = IF n \in DOMAIN E.syms THEN [E EXCEPT !.bad = TRUE] ELSE AddSymbol(E, n, sym)
  BY Zenon DEF Hide
<1> HIDE DEF sym
<1>3. IsSymbol(sym)
  <2>1. fb \in BlockTypes => fb # "none"
    BY DEF BlockTypes, Timers, Counters, Triggers, Latches
  <2> QED BY <1>1, <2>1 DEF IsSymbol, ValueTypes
<1>4. CASE n \in DOMAIN E.syms
  BY <1>2, <1>4, MarkedEnv
<1>5. CASE n \notin DOMAIN E.syms
  BY <1>1, <1>2, <1>3, <1>5, AddedSymbol
<1> QED BY <1>4, <1>5

(* The block of a box: it is hidden, declared by the box or declared       *)
(* before; the program owns it.                                            *)
LEMMA InstanceLeads ==
  ASSUME NEW E, IsEnv(E), NEW n, n.fb \in BlockTypes, NEW I, I = Instance(E, n)
  PROVE  /\ Leads(E, I.env)
         /\ ~I.env.bad => \A p : Has(p, I.env) => Owns(p, I.key, n.fb)
<1>0. SUFFICES /\ Leads(E, I.env)
               /\ ~I.env.bad => /\ I.key \in DOMAIN I.env.syms /\ I.env.syms[I.key].fb = n.fb
                                /\ I.env.syms[I.key].scope = "local"
  BY DEF Has, Owns, Owned
<1>1. CASE n.instance = ""
  <2> DEFINE F == Hide(E, HiddenName(n), "none", n.fb)
  <2>1. I.env = F /\ I.key = HiddenName(n)
    BY <1>1 DEF Instance
  <2>2. Leads(E, F) /\ (~F.bad => /\ HiddenName(n) \in DOMAIN F.syms /\ F.syms[HiddenName(n)].scope = "local"
                                  /\ F.syms[HiddenName(n)].fb = n.fb)
    BY HideLeads
  <2> HIDE DEF F
  <2> QED BY <2>1, <2>2
<1>2. CASE n.instance # "" /\ n.instance \notin DOMAIN E.syms
  <2> DEFINE d == [name |-> n.instance, type |-> n.fb, init |-> PNone, global |-> FALSE, constant |-> FALSE]
             F == DeclareJson(E, d)
  <2>1. I.env = F /\ I.key = n.instance
    BY <1>2 DEF Instance
  <2>2. IsBlockType(d) /\ IsDeclaration(d) /\ d.type = n.fb /\ d.name = n.instance /\ ~d.global
    BY DEF IsBlockType, IsDeclaration
  <2> HIDE DEF d
  <2>3. Leads(E, F) /\ (~F.bad => /\ d.name \in DOMAIN F.syms
                                  /\ F.syms[d.name].fb = IF IsBlockType(d) THEN d.type ELSE "none"
                                  /\ F.syms[d.name].scope = IF d.global THEN "global" ELSE "local")
    BY <2>2, DeclarationLeads
  <2> HIDE DEF F
  <2>4. ~F.bad => /\ n.instance \in DOMAIN F.syms /\ F.syms[n.instance].fb = n.fb
                  /\ F.syms[n.instance].scope = "local"
    BY <2>2, <2>3, Zenon
  <2> QED BY <2>1, <2>3, <2>4
<1>3. CASE n.instance # "" /\ n.instance \in DOMAIN E.syms
  <2> DEFINE s == E.syms[n.instance]
             b == E.bad \/ s.fb # n.fb \/ s.scope # "local"
             F == [E EXCEPT !.bad = b]
  <2>1. I = [env |-> F, key |-> n.instance]
    BY <1>3, Zenon DEF Instance
  <2>2. I.env = F /\ I.key = n.instance
    BY <2>1
  <2>3. b \in BOOLEAN /\ (E.bad => b)
    BY DEF IsEnv
  <2>4. ~b => s.fb = n.fb /\ s.scope = "local"
    OBVIOUS
  <2> HIDE DEF b
  <2>5. Leads(E, F) /\ F.bad = b /\ F.syms = E.syms
    BY <2>3, MarkedEnv
  <2> HIDE DEF F
  <2> QED BY <1>3, <2>2, <2>4, <2>5
<1> QED BY <1>1, <1>2, <1>3

-----------------------------------------------------------------------------
(* Names, operands and destinations.                                       *)

(* A name that lookup finds and that is no block is a typed variable.      *)
LEMMA LookupReads ==
  ASSUME TypedTags, NEW E, IsEnv(E), NEW p, Has(p, E), NEW n,
         NEW s, s = Lookup(E, n), s # NoSym, s.fb = "none"
  PROVE  /\ s.type \in ValueTypes /\ Reads(p, s.scope, s.key, s.type)
         /\ s.scope \notin {"input", "sys"} => Writes(p, s.scope, s.key, s.type)
<1>0. E.tags = Tags /\ \A x \in DOMAIN E.syms : IsSymbol(E.syms[x]) /\ E.syms[x].key = x
  BY Zenon DEF IsEnv
<1>1. CASE n \in DOMAIN E.syms
  <2>0. s = E.syms[n]
    BY <1>1, Zenon DEF Lookup
  <2>1. s = E.syms[n] /\ IsSymbol(s) /\ s.key = n
    BY <1>0, <1>1, <2>0
  <2>2. n \in DOMAIN p.syms /\ p.syms[n] = s
    BY <1>1, <2>1 DEF Has
  <2>3. s.scope \in {"local", "global"} /\ s.type \in ValueTypes
    BY <2>1 DEF IsSymbol
  <2>4. n \in Owned(p, s.scope)
    BY <2>2 DEF Owned
  <2> QED BY <2>1, <2>2, <2>3, <2>4 DEF Reads, Writes
<1>2. CASE n \notin DOMAIN E.syms /\ n \in DOMAIN Tags
  <2>1. s = Symbol(IF Tags[n].dir = "in" THEN "input" ELSE "output", n, Tags[n].type, "none", FALSE, NoValue)
    <3>1. s = Symbol(IF E.tags[n].dir = "in" THEN "input" ELSE "output", n, E.tags[n].type, "none", FALSE, NoValue)
      <4>1. n \in DOMAIN E.tags
        BY <1>0, <1>2
      <4> QED BY <1>2, <4>1 DEF Lookup
    <3> QED BY <1>0, <3>1
  <2>2. s.scope = (IF Tags[n].dir = "in" THEN "input" ELSE "output") /\ s.key = n /\ s.type = Tags[n].type
    BY <2>1 DEF Symbol
  <2>3. Tags[n].type \in ValueTypes /\ Tags[n].dir \in {"in", "out"}
    BY <1>2 DEF TypedTags
  <2>4. n \in TagsOf(Tags[n].dir)
    BY <1>2 DEF TagsOf
  <2> QED BY <2>2, <2>3, <2>4 DEF Reads, Writes
<1>3. CASE n \notin DOMAIN E.syms /\ n \notin DOMAIN Tags /\ n \in DOMAIN SysVars
  <2>1. s = Symbol("sys", n, SysVars[n], "none", FALSE, NoValue)
    BY <1>0, <1>3 DEF Lookup
  <2>2. s.scope = "sys" /\ s.key = n /\ s.type = SysVars[n]
    BY <2>1 DEF Symbol
  <2>3. SysVars[n] \in ValueTypes
    BY <1>3 DEF SysVars, ValueTypes, NumericTypes
  <2> QED BY <1>3, <2>2, <2>3 DEF Reads
<1>4. CASE n \notin DOMAIN E.syms /\ n \notin DOMAIN Tags /\ n \notin DOMAIN SysVars
  BY <1>0, <1>4 DEF Lookup
<1> QED BY <1>1, <1>2, <1>3, <1>4

(* An operand that compiles gives a value of its type.                     *)
LEMMA OperandCompiles ==
  ASSUME TypedTags, NEW E, IsEnv(E), NEW p, Has(p, E), NEW o, IsOperand(o)
  PROVE  Operand(E, o).bad \/ IsOperandOf(p, Operand(E, o))
<1>1. CASE o.o = "lit"
  <2> DEFINE e == Operand(E, o)
  <2>1. e = [op |-> "lit", v |-> o.v, type |-> o.type, bad |-> FALSE]
    BY <1>1 DEF Operand, LitNode
  <2> HIDE DEF e
  <2>2. e.op = "lit" /\ e.v = o.v /\ e.type = o.type
    BY <2>1
  <2>3. \A c : Leaf(c, e) = o.v
    BY <2>2 DEF Leaf
  <2>4. o.type \in ValueTypes /\ IsValue(o.v, o.type)
    BY <1>1 DEF IsOperand, IsLiteral
  <2> QED BY <2>2, <2>3, <2>4 DEF IsOperandOf, e
<1>2. CASE o.o = "name"
  <2> DEFINE s == Lookup(E, o.name)
             e == Operand(E, o)
  <2>1. e = IF s = NoSym \/ FbSym(E, o.name) THEN BadNode ELSE VarNode(s)
    BY <1>2 DEF Operand, NameNode
  <2>2. CASE s = NoSym \/ FbSym(E, o.name)
    BY <2>1, <2>2 DEF BadNode
  <2>3. CASE ~(s = NoSym \/ FbSym(E, o.name))
    <3>1. e = [op |-> "var", scope |-> s.scope, key |-> s.key, type |-> s.type, bad |-> FALSE]
      BY <2>1, <2>3 DEF VarNode
    <3>2. s.fb = "none"
      BY <2>3 DEF Lookup, FbSym, Symbol
    <3> HIDE DEF e, s
    <3>3. s.type \in ValueTypes /\ Reads(p, s.scope, s.key, s.type)
      BY <2>3, <3>2, LookupReads DEF s
    <3>4. e.op = "var" /\ e.scope = s.scope /\ e.key = s.key /\ e.type = s.type
      BY <3>1
    <3>5. \A c : Leaf(c, e) = Load(c, s.scope, s.key)
      BY <3>4 DEF Leaf
    <3>6. \A c : TypedContext(c, p) => IsValue(Load(c, s.scope, s.key), s.type)
      BY <3>3, LoadGivesValue
    <3> QED BY <3>3, <3>4, <3>5, <3>6 DEF IsOperandOf, e
  <2> QED BY <2>2, <2>3
<1>3. CASE o.o = "none"
  BY <1>3 DEF Operand, BadNode
<1> QED BY <1>1, <1>2, <1>3 DEF IsOperand

(* So is one that may be left out.                                         *)
LEMMA OptionalCompiles ==
  ASSUME TypedTags, NEW E, IsEnv(E), NEW p, Has(p, E), NEW o, IsOperand(o), ~Optional(E, o).bad
  PROVE  IsDriveOf(p, Optional(E, o))
<1>1. CASE o = NoOperand
  BY <1>1 DEF Optional, IsDriveOf
<1>2. CASE o # NoOperand
  BY <1>2, OperandCompiles DEF Optional, IsDriveOf
<1> QED BY <1>1, <1>2

(* A destination is a variable that the program may write.                 *)
LEMMA TargetWrites ==
  ASSUME TypedTags, NEW E, IsEnv(E), NEW p, Has(p, E), NEW n, NEW want,
         NEW s, s = Target(E, n, want), s # NoSym
  PROVE  /\ s = Lookup(E, n) /\ s.type \in ValueTypes /\ Writes(p, s.scope, s.key, s.type)
         /\ want # "any" => s.type = want
<1> DEFINE l == Lookup(E, n)
<1>1. l # NoSym /\ l.scope \notin {"input", "sys"} /\ l.fb = "none" /\ want \in {"any", l.type} /\ s = l
  BY DEF Target
<1> QED BY <1>1, LookupReads

-----------------------------------------------------------------------------
(* The elements that the compiler makes.                                   *)

(* A step of the compiler: the environment goes on, and without a          *)
(* diagnostic the element runs well in whatever has its symbols.           *)
Makes(E, r) ==
  /\ Leads(E, r.env)
  /\ ~r.env.bad => \A p : Has(p, r.env) => RunsWell(p, r.el)

LEMMA WrongMakes ==
  ASSUME NEW E, NEW F, Leads(E, F)
  PROVE  Makes(E, WrongEl(F))
<1> DEFINE G == [F EXCEPT !.bad = TRUE]
<1>1. IsEnv(F)
  BY DEF Leads
<1>2. Leads(F, G) /\ G.bad = TRUE
  BY <1>1, MarkedEnv
<1>3. WrongEl(F).env = G
  BY DEF WrongEl, Done
<1> HIDE DEF G
<1>4. Leads(E, G)
  BY <1>2, LeadsOn
<1> QED BY <1>2, <1>3, <1>4 DEF Makes

LEMMA DoneMakes ==
  ASSUME NEW E, NEW F, Leads(E, F), NEW ok, NEW x,
         ok /\ ~F.bad => \A p : Has(p, F) => RunsWell(p, x)
  PROVE  Makes(E, DoneIf(ok, F, x))
<1>1. CASE ok
  <2>1. DoneIf(ok, F, x).env = F /\ DoneIf(ok, F, x).el = x
    BY <1>1 DEF DoneIf, Done
  <2> QED BY <1>1, <2>1 DEF Makes
<1>2. CASE ~ok
  BY <1>2, WrongMakes DEF DoneIf
<1> QED BY <1>1, <1>2

LEMMA LeadsToItself ==
  ASSUME NEW E, IsEnv(E)
  PROVE  Leads(E, E)
BY DEF Leads, Has

(* A contact, with its edge memory if it has one.                          *)
LEMMA ContactMakes ==
  ASSUME TypedTags, NEW E, IsEnv(E), NEW n, IsOperand(n.operand)
  PROVE  Makes(E, ContactEl(E, n))
<1> DEFINE e   == Operand(E, n.operand)
           key == "#edge:" \o n.id
           ok  == ~e.bad /\ e.type = "BOOL" /\ n.kind \in {"NO", "NC", "P", "N"}
           F   == IF n.kind \in {"P", "N"} THEN Hide(E, key, "BOOL", "none") ELSE E
           x   == [el |-> "contact", kind |-> n.kind, expr |-> e, key |-> key]
<1>1. ContactEl(E, n) = DoneIf(ok, F, x)
  BY Zenon DEF ContactEl
<1>2. Leads(E, F) /\ (n.kind \in {"P", "N"} /\ ~F.bad =>
                        /\ key \in DOMAIN F.syms /\ F.syms[key].scope = "local"
                        /\ F.syms[key].fb = "none" /\ F.syms[key].type = "BOOL")
  <2>1. ASSUME n.kind \in {"P", "N"}
        PROVE  /\ Leads(E, F)
               /\ ~F.bad => /\ key \in DOMAIN F.syms /\ F.syms[key].scope = "local"
                            /\ F.syms[key].fb = "none" /\ F.syms[key].type = "BOOL"
    <3>1. F = Hide(E, key, "BOOL", "none")
      BY <2>1
    <3> HIDE DEF F, key
    <3> QED BY <3>1, HideLeads
  <2>2. ASSUME n.kind \notin {"P", "N"} PROVE Leads(E, F)
    BY <2>2, LeadsToItself
  <2> QED BY <2>1, <2>2
<1>3. x.el = "contact" /\ x.kind = n.kind /\ x.expr = e /\ x.key = key
  OBVIOUS
<1> HIDE DEF F, x, key, e
<1>4. ASSUME ok, ~F.bad, NEW p, Has(p, F) PROVE RunsWell(p, x)
  <2>1. IsOperandOf(p, e)
    <3>1. Has(p, E)
      BY <1>2, <1>4, HasEarlier
    <3> QED BY <1>4, <3>1, OperandCompiles DEF e
  <2>2. n.kind \in {"P", "N"} => Writes(p, "local", key, "BOOL")
    BY <1>2, <1>4 DEF Has, Writes, Reads, Owned
  <2> QED BY <1>3, <1>4, <2>1, <2>2, ContactRunsWell
<1> QED BY <1>1, <1>2, <1>4, DoneMakes

(* A coil.                                                                 *)
LEMMA CoilMakes ==
  ASSUME TypedTags, NEW E, IsEnv(E), NEW n
  PROVE  Makes(E, CoilEl(E, n))
<1> DEFINE s  == Target(E, n.operand.name, "BOOL")
           ok == n.kind \in {"COIL", "SET", "RESET", "NEGATED"}
           x  == [el |-> "coil", kind |-> n.kind, scope |-> s.scope, key |-> s.key]
<1>1. CoilEl(E, n) = IF s = NoSym THEN WrongEl(E) ELSE DoneIf(ok, E, x)
  BY Zenon DEF CoilEl
<1>2. Leads(E, E)
  BY LeadsToItself
<1>3. x.el = "coil" /\ x.kind = n.kind /\ x.scope = s.scope /\ x.key = s.key
  OBVIOUS
<1> HIDE DEF x, s
<1>4. ASSUME s # NoSym, ok, NEW p, Has(p, E) PROVE RunsWell(p, x)
  <2>1. s.type = "BOOL" /\ Writes(p, s.scope, s.key, s.type)
    BY <1>4, TargetWrites DEF s
  <2> QED BY <1>3, <1>4, <2>1, CoilRunsWell
<1>5. s # NoSym => Makes(E, DoneIf(ok, E, x))
  BY <1>2, <1>4, DoneMakes
<1> QED BY <1>1, <1>2, <1>5, WrongMakes

(* The outputs of a block that are stored fit where they go.               *)
LEMMA OutsCompile ==
  ASSUME TypedTags, NEW E, IsEnv(E), NEW p, Has(p, E), NEW fb \in Timers \cup {"CTU", "CTD"},
         NEW outs, OutsFit(E, outs)
  PROVE  IsOutputOf(p, fb, OutList(E, fb, outs)[1]) /\ IsOutputOf(p, fb, OutList(E, fb, outs)[2])
<1> DEFINE os == OutputsOf(fb)
           l  == OutList(E, fb, outs)
<1>1. DOMAIN os = {1, 2}
  <2>1. os \in {<<"Q", "ET">>, <<"Q", "CV">>}
    BY DEF OutputsOf, Timers, Triggers, Latches
  <2> HIDE DEF os
  <2> QED BY <2>1
<1>2. ASSUME NEW i \in {1, 2} PROVE IsOutputOf(p, fb, l[i])
  <2> DEFINE f == os[i]
             n == outs[f]
             s == Lookup(E, n)
             t == Target(E, n, "any")
  <2>1. l[i] = IF f \in DOMAIN outs THEN Out(E, f, n) ELSE NoOut
    BY <1>1 DEF OutList
  <2>2. CASE f \notin DOMAIN outs
    BY <2>1, <2>2 DEF NoOut, IsOutputOf
  <2>3. CASE f \in DOMAIN outs
    <3>1. t # NoSym /\ Assignable(FieldType(f), t.type)
      BY <2>3 DEF OutsFit
    <3>2. t = s /\ t.type \in ValueTypes /\ Writes(p, t.scope, t.key, t.type)
      BY <3>1, TargetWrites
    <3>3. f \in Elements(OutputsOf(fb))
      BY <1>1 DEF Elements
    <3> HIDE DEF s, t, os, l
    <3>4. l[i] = [field |-> f, scope |-> s.scope, key |-> s.key, conv |-> s.type = "REAL"]
      BY <2>1, <2>3 DEF Out, s
    <3>5. l[i].field = f /\ l[i].scope = s.scope /\ l[i].key = s.key /\ l[i].conv = (s.type = "REAL")
      BY <3>4
    <3> QED BY <3>1, <3>2, <3>3, <3>5 DEF IsOutputOf, os
  <2> QED BY <2>2, <2>3
<1> QED BY <1>2

(* A timer.                                                                *)
LEMMA TimerMakes ==
  ASSUME TypedTags, NEW E, IsEnv(E), NEW n, IsOperand(n.pt), IsOperand(n.in)
  PROVE  Makes(E, TimerEl(E, n))
<1>1. CASE n.fb \notin Timers
  <2>1. TimerEl(E, n) = WrongEl(E)
    BY <1>1 DEF TimerEl
  <2> QED BY <2>1, LeadsToItself, WrongMakes
<1>2. CASE n.fb \in Timers
  <2> DEFINE I == Instance(E, n)
             F == I.env
             pt == Operand(F, n.pt)
             in == Optional(F, n.in)
             outs == OutList(F, n.fb, n.outs)
             ok == ~pt.bad /\ NumOrTime(pt.type) /\ ~in.bad /\ OutsFit(F, n.outs)
             x == [el |-> "timer", key |-> I.key, pt |-> pt, in |-> in, outs |-> outs]
  <2>1. TimerEl(E, n) = DoneIf(ok, F, x)
    BY <1>2, Zenon DEF TimerEl, TimerOf
  <2>2. n.fb \in BlockTypes
    BY <1>2 DEF BlockTypes
  <2>3. Leads(E, F) /\ (~F.bad => \A p : Has(p, F) => Owns(p, I.key, n.fb))
    BY <2>2, InstanceLeads
  <2>4. x.el = "timer" /\ x.key = I.key /\ x.pt = pt /\ x.in = in /\ x.outs = outs
    OBVIOUS
  <2> HIDE DEF x, I
  <2>5. ASSUME ok, ~F.bad, NEW p, Has(p, F) PROVE RunsWell(p, x)
    <3>1. IsEnv(F)
      BY <2>3 DEF Leads
    <3>2. IsOperandOf(p, pt)
      BY <2>5, <3>1, OperandCompiles
    <3>3. IsDriveOf(p, in)
      BY <2>5, <3>1, OptionalCompiles
    <3>4. IsOutputOf(p, n.fb, outs[1]) /\ IsOutputOf(p, n.fb, outs[2])
      BY <1>2, <2>5, <3>1, OutsCompile
    <3>5. Owns(p, I.key, n.fb)
      BY <2>3, <2>5
    <3>6. NumOrTime(pt.type)
      BY <2>5
    <3> HIDE DEF ok, pt, in, outs
    <3> QED BY <1>2, <2>4, <3>2, <3>3, <3>4, <3>5, <3>6, TimerRunsWell
  <2> HIDE DEF ok
  <2> QED BY <2>1, <2>3, <2>5, DoneMakes
<1> QED BY <1>1, <1>2

(* A counter.                                                              *)
LEMMA CounterMakes ==
  ASSUME TypedTags, NEW E, IsEnv(E), NEW n, IsOperand(n.pv), IsOperand(n.drive), IsOperand(n.reset)
  PROVE  Makes(E, CounterEl(E, n))
<1>1. CASE n.fb \notin {"CTU", "CTD"}
  <2>1. CounterEl(E, n) = WrongEl(E)
    BY <1>1 DEF CounterEl
  <2> QED BY <2>1, LeadsToItself, WrongMakes
<1>2. CASE n.fb \in {"CTU", "CTD"}
  <2> DEFINE I == Instance(E, n)
             F == I.env
             pv == Operand(F, n.pv)
             drive == Optional(F, n.drive)
             reset == IF n.reset = NoOperand THEN LitNode("BOOL", BoolV(FALSE)) ELSE Operand(F, n.reset)
             outs == OutList(F, n.fb, n.outs)
             ok == ~pv.bad /\ pv.type \in IntTypes /\ ~drive.bad /\ ~reset.bad /\ OutsFit(F, n.outs)
             x == [el |-> "counter", fb |-> n.fb, key |-> I.key, pv |-> pv, drive |-> drive,
                   reset |-> reset, outs |-> outs]
  <2>1. CounterEl(E, n) = DoneIf(ok, F, x)
    BY <1>2, Zenon DEF CounterEl, CounterOf
  <2>2. n.fb \in BlockTypes
    BY <1>2 DEF BlockTypes, Counters
  <2>3. Leads(E, F) /\ (~F.bad => \A p : Has(p, F) => Owns(p, I.key, n.fb))
    BY <2>2, InstanceLeads
  <2>4. x.el = "counter" /\ x.fb = n.fb /\ x.key = I.key /\ x.pv = pv /\ x.drive = drive
        /\ x.reset = reset /\ x.outs = outs
    OBVIOUS
  <2> HIDE DEF x, I
  <2>5. ASSUME ok, ~F.bad, NEW p, Has(p, F) PROVE RunsWell(p, x)
    <3>1. IsEnv(F)
      BY <2>3 DEF Leads
    <3>2. IsOperandOf(p, pv)
      BY <2>5, <3>1, OperandCompiles
    <3>3. IsDriveOf(p, drive)
      BY <2>5, <3>1, OptionalCompiles
    <3>4. IsOutputOf(p, n.fb, outs[1]) /\ IsOutputOf(p, n.fb, outs[2])
      BY <1>2, <2>5, <3>1, OutsCompile
    <3>5. Owns(p, I.key, n.fb)
      BY <2>3, <2>5
    <3>6. IsOperandOf(p, reset)
      <4>1. CASE n.reset = NoOperand
        <5>1. reset = [op |-> "lit", v |-> BoolV(FALSE), type |-> "BOOL", bad |-> FALSE]
          BY <4>1 DEF LitNode
        <5> HIDE DEF reset
        <5>2. reset.op = "lit" /\ reset.v = BoolV(FALSE) /\ reset.type = "BOOL"
          BY <5>1
        <5>3. \A c : Leaf(c, reset) = BoolV(FALSE)
          BY <5>2 DEF Leaf
        <5> QED BY <5>2, <5>3, BoolIsValue DEF IsOperandOf, ValueTypes
      <4>2. CASE n.reset # NoOperand
        <5>1. reset = Operand(F, n.reset) /\ ~reset.bad
          BY <2>5, <4>2
        <5> HIDE DEF reset
        <5> QED BY <2>5, <3>1, <5>1, OperandCompiles
      <4> QED BY <4>1, <4>2
    <3>7. pv.type \in IntTypes
      BY <2>5
    <3> HIDE DEF ok, pv, drive, reset, outs
    <3> QED BY <1>2, <2>4, <3>2, <3>3, <3>4, <3>5, <3>6, <3>7, CounterRunsWell
  <2> HIDE DEF ok
  <2> QED BY <2>1, <2>3, <2>5, DoneMakes
<1> QED BY <1>1, <1>2

(* A comparison.                                                           *)
LEMMA CompareMakes ==
  ASSUME TypedTags, NEW E, IsEnv(E), NEW n, IsOperand(n.a), IsOperand(n.b)
  PROVE  Makes(E, CompareEl(E, n))
<1>0. Leads(E, E)
  BY LeadsToItself
<1>1. CASE n.fn \notin DOMAIN CompareOps
  <2>1. CompareEl(E, n) = WrongEl(E)
    BY <1>1 DEF CompareEl
  <2> QED BY <1>0, <2>1, WrongMakes
<1>2. CASE n.fn \in DOMAIN CompareOps
  <2> DEFINE e == BinaryNode(CompareOps[n.fn], Operand(E, n.a), Operand(E, n.b))
             x == [el |-> "compare", expr |-> e]
  <2>1. CompareEl(E, n) = DoneIf(~e.bad, E, x)
    BY <1>2, Zenon DEF CompareEl
  <2>2. CompareOps[n.fn] \in LadderOps
    BY <1>2 DEF CompareOps, LadderOps, Relations
  <2>3. x.el = "compare" /\ x.expr = e
    OBVIOUS
  <2> HIDE DEF x
  <2>4. ASSUME ~e.bad, NEW p, Has(p, E) PROVE RunsWell(p, x)
    <3>1. /\ Operand(E, n.a).bad \/ IsOperandOf(p, Operand(E, n.a))
          /\ Operand(E, n.b).bad \/ IsOperandOf(p, Operand(E, n.b))
      BY <2>4, OperandCompiles
    <3>2. IsExpressionOf(p, e)
      BY <2>2, <2>4, <3>1, OperatorIsExpression
    <3> HIDE DEF e
    <3> QED BY <2>3, <3>2, CompareRunsWell
  <2> HIDE DEF e
  <2> QED BY <1>0, <2>1, <2>4, DoneMakes
<1> QED BY <1>1, <1>2

(* A value that is stored.                                                 *)
LEMMA StoreMakes ==
  ASSUME TypedTags, NEW E, IsEnv(E), NEW e, NEW dst,
         ~e.bad => \A p : Has(p, E) => IsExpressionOf(p, e)
  PROVE  Makes(E, StoreEl(E, e, dst))
<1> DEFINE s  == Target(E, dst, "any")
           ok == Fits(e, s.type)
           x  == [el |-> "store", expr |-> e, scope |-> s.scope, key |-> s.key, conv |-> ToReal(e, s.type)]
<1>0. Leads(E, E)
  BY LeadsToItself
<1>1. StoreEl(E, e, dst) = IF s = NoSym THEN WrongEl(E) ELSE DoneIf(ok, E, x)
  BY Zenon DEF StoreEl
<1>2. x.el = "store" /\ x.expr = e /\ x.scope = s.scope /\ x.key = s.key /\ x.conv = ToReal(e, s.type)
  OBVIOUS
<1> HIDE DEF x, s
<1>3. ASSUME s # NoSym, ok, NEW p, Has(p, E) PROVE RunsWell(p, x)
  <2>1. s.type \in ValueTypes /\ Writes(p, s.scope, s.key, s.type)
    BY <1>3, TargetWrites DEF s
  <2>2. ~e.bad /\ Assignable(e.type, s.type)
    BY <1>3 DEF Fits
  <2>3. IsExpressionOf(p, e)
    BY <1>3, <2>2
  <2> QED BY <1>2, <2>1, <2>2, <2>3, StoreRunsWell
<1>4. s # NoSym => Makes(E, DoneIf(ok, E, x))
  <2> HIDE DEF ok
  <2> QED BY <1>0, <1>3, DoneMakes
<1> QED BY <1>0, <1>1, <1>4, WrongMakes

(* A move.                                                                 *)
LEMMA MoveMakes ==
  ASSUME TypedTags, NEW E, IsEnv(E), NEW n, IsOperand(n.src)
  PROVE  Makes(E, StoreEl(E, Operand(E, n.src), n.dst))
<1> DEFINE e == Operand(E, n.src)
<1>1. ASSUME ~e.bad, NEW p, Has(p, E) PROVE IsExpressionOf(p, e)
  <2>1. IsOperandOf(p, e)
    BY <1>1, OperandCompiles
  <2> HIDE DEF e
  <2> QED BY <2>1, OperandIsExpression
<1> HIDE DEF e
<1>2. Makes(E, StoreEl(E, e, n.dst))
  BY <1>1, StoreMakes
<1> QED BY <1>2 DEF e

(* An arithmetic box.                                                      *)
LEMMA MathMakes ==
  ASSUME TypedTags, NEW E, IsEnv(E), NEW n, IsOperand(n.a), IsOperand(n.b)
  PROVE  Makes(E, MathEl(E, n))
<1>1. CASE n.fn \notin DOMAIN MathOps
  <2>1. MathEl(E, n) = WrongEl(E)
    BY <1>1 DEF MathEl
  <2> QED BY <2>1, LeadsToItself, WrongMakes
<1>2. CASE n.fn \in DOMAIN MathOps
  <2> DEFINE e == BinaryNode(MathOps[n.fn], Operand(E, n.a), Operand(E, n.b))
  <2>1. MathEl(E, n) = StoreEl(E, e, n.dst)
    BY <1>2, Zenon DEF MathEl
  <2>2. MathOps[n.fn] \in LadderOps
    BY <1>2 DEF MathOps, LadderOps, Arithmetic
  <2>3. ASSUME ~e.bad, NEW p, Has(p, E) PROVE IsExpressionOf(p, e)
    <3>1. /\ Operand(E, n.a).bad \/ IsOperandOf(p, Operand(E, n.a))
          /\ Operand(E, n.b).bad \/ IsOperandOf(p, Operand(E, n.b))
      BY <2>3, OperandCompiles
    <3> QED BY <2>2, <2>3, <3>1, OperatorIsExpression
  <2> HIDE DEF e
  <2> QED BY <2>1, <2>3, StoreMakes
<1> QED BY <1>1, <1>2

-----------------------------------------------------------------------------
(* Nodes inside nodes.                                                     *)

(* A node without nodes inside, whose operands are operands.               *)
IsBox(n) ==
  /\ n.t = "contact" => IsOperand(n.operand)
  /\ n.t = "timer"   => IsOperand(n.pt) /\ IsOperand(n.in)
  /\ n.t = "counter" => IsOperand(n.pv) /\ IsOperand(n.drive) /\ IsOperand(n.reset)
  /\ n.t \in {"compare", "math"} => IsOperand(n.a) /\ IsOperand(n.b)
  /\ n.t = "move"    => IsOperand(n.src)

LEMMA BoxMakes ==
  ASSUME TypedTags, NEW E, IsEnv(E), NEW n, IsBox(n), n.t \notin {"series", "parallel"}
  PROVE  Makes(E, NodeEl(E, n))
<1>1. CASE n.t = "contact"
  BY <1>1, ContactMakes DEF NodeEl, IsBox
<1>2. CASE n.t = "coil"
  BY <1>2, CoilMakes DEF NodeEl
<1>3. CASE n.t = "timer"
  BY <1>3, TimerMakes DEF NodeEl, IsBox
<1>4. CASE n.t = "counter"
  BY <1>4, CounterMakes DEF NodeEl, IsBox
<1>5. CASE n.t = "compare"
  BY <1>5, CompareMakes DEF NodeEl, IsBox
<1>6. CASE n.t = "move"
  BY <1>6, MoveMakes DEF NodeEl, IsBox
<1>7. CASE n.t = "math"
  BY <1>7, MathMakes DEF NodeEl, IsBox
<1>8. CASE n.t \notin {"contact", "coil", "timer", "counter", "compare", "move", "math"}
  <2>1. NodeEl(E, n) = WrongEl(E)
    BY <1>8 DEF NodeEl
  <2> QED BY <2>1, LeadsToItself, WrongMakes
<1> QED BY <1>1, <1>2, <1>3, <1>4, <1>5, <1>6, <1>7, <1>8

(* The first n steps of the compilation of a list of nodes.                *)
IsChain(E, xs, n, f) ==
  f = [i \in 0 .. n |-> IF i = 0 THEN Done(E, NoElement) ELSE NetworkEl(f[i - 1].env, xs[i])]

(* The recursive definition of GroupEl defines a function.                 *)
LEMMA ChainExists ==
  ASSUME NEW E, NEW xs, Len(xs) \in Nat
  PROVE  \E f : IsChain(E, xs, Len(xs), f)
<1> DEFINE L == Len(xs)
           Z == Done(E, NoElement)
           Step(a, i) == NetworkEl(a.env, xs[i])
           S == {n \in 0 .. L : \E f : IsChain(E, xs, n, f)}
<1>0. L \in Nat
  OBVIOUS
<1> HIDE DEF L, Step, Z
<1>1. 0 \in S
  <2> DEFINE z == [i \in 0 .. 0 |-> Z]
  <2>1. \A i \in 0 .. 0 : i = 0
    OBVIOUS
  <2>2. z = [i \in 0 .. 0 |-> IF i = 0 THEN Z ELSE Step(z[i - 1], i)]
    BY <2>1, Zenon
  <2>3. IsChain(E, xs, 0, z)
    <3> HIDE DEF z
    <3> QED BY <2>2, Zenon DEF IsChain, Step, Z
  <2> QED BY <2>3, <1>0
<1>2. ASSUME NEW n \in 0 .. L - 1, n \in S PROVE n + 1 \in S
  <2>1. PICK f : IsChain(E, xs, n, f)
    BY <1>2
  <2>2. f = [i \in 0 .. n |-> IF i = 0 THEN Z ELSE Step(f[i - 1], i)]
    BY <2>1, Zenon DEF IsChain, Step, Z
  <2> DEFINE v == Step(f[n], n + 1)
             g == [i \in 0 .. n + 1 |-> IF i = n + 1 THEN v ELSE f[i]]
  <2>3. ASSUME NEW i \in 0 .. n + 1
        PROVE  g[i] = IF i = 0 THEN Z ELSE Step(g[i - 1], i)
    <3>1. CASE i = n + 1
      <4>1. g[i] = v /\ g[i - 1] = f[n] /\ i # 0
        BY <3>1, <1>0
      <4> HIDE DEF g
      <4> QED BY <4>1, <3>1
    <3>2. CASE i # n + 1
      <4>1. i \in 0 .. n /\ g[i] = f[i] /\ (i # 0 => g[i - 1] = f[i - 1])
        BY <3>2, <1>0
      <4> HIDE DEF g
      <4> QED BY <4>1, <2>2
    <3> QED BY <3>1, <3>2
  <2>4. g = [i \in 0 .. n + 1 |-> IF i = 0 THEN Z ELSE Step(g[i - 1], i)]
    <3>1. g = [i \in 0 .. n + 1 |-> g[i]]
      OBVIOUS
    <3> HIDE DEF g
    <3> QED BY <3>1, <2>3
  <2>5. IsChain(E, xs, n + 1, g)
    <3> HIDE DEF g
    <3> QED BY <2>4, Zenon DEF IsChain, Step, Z
  <2>6. n + 1 \in 0 .. L
    BY <1>0
  <2> QED BY <2>5, <2>6
<1>3. L \in S
  <2> HIDE DEF S
  <2>1. \A n \in 0 .. L : n \in S
    BY <1>0, <1>1, <1>2, IntervalInduction
  <2> QED BY <1>0, <2>1
<1> QED BY <1>3 DEF L

(* A node whose compilation and whose run are one step of the compiler's   *)
(* and of the runtime's recursion, as Ladder defines them.                 *)
Unfolds(n) ==
  \A E : /\ NetworkEl(E, n) = NodeEl(E, n)
         /\ \A c, power : RunElement(c, NetworkEl(E, n).el, power) = RunNode(c, NetworkEl(E, n).el, power)

(* A node that compiles to what runs well.                                 *)
CompilesWell(n) == \A E : IsEnv(E) => Makes(E, NetworkEl(E, n))

(* The nodes inside a node, through one environment after the other.       *)
LEMMA GroupCompiles ==
  ASSUME NEW E, IsEnv(E), NEW n, Len(n.items) \in Nat, DOMAIN n.items = 1 .. Len(n.items),
         \A i \in 1 .. Len(n.items) : Unfolds(n.items[i]) /\ CompilesWell(n.items[i]),
         NEW R, R = GroupEl(E, n)
  PROVE  /\ Leads(E, R.env)
         /\ ~R.env.bad => \E xs : /\ R.el = [el |-> n.t, items |-> xs] /\ Len(xs) = Len(n.items)
                                  /\ \A p : Has(p, R.env) => \A i \in 1 .. Len(xs) : Sound(p, xs[i])
<1> DEFINE L == Len(n.items)
           Chain(f) == [i \in 0 .. Len(n.items) |-> IF i = 0 THEN Done(E, NoElement)
                                                     ELSE NetworkEl(f[i - 1].env, n.items[i])]
           made == CHOOSE f : f = Chain(f)
           F == made[L].env
           xs == [i \in DOMAIN n.items |-> made[i].el]
           ok == n.t = "series" \/ n.items # <<>>
           x == [el |-> n.t, items |-> xs]
<1>1. R = DoneIf(ok, F, x)
  BY Zenon DEF GroupEl
<1>2. made = Chain(made)
  <2>1. \A f : IsChain(E, n.items, Len(n.items), f) <=> f = Chain(f)
    BY Zenon DEF IsChain
  <2>2. \E f : f = Chain(f)
    BY ChainExists, <2>1
  <2> HIDE DEF Chain
  <2> QED BY <2>2, Zenon
<1>0. L \in Nat
  OBVIOUS
<1>3. made[0] = Done(E, NoElement)
      /\ \A i \in 1 .. L : made[i] = NetworkEl(made[i - 1].env, n.items[i])
  <2>0. \A i \in 1 .. L : i \in 0 .. L /\ i # 0
    BY <1>0
  <2>1. made = [i \in 0 .. L |-> IF i = 0 THEN Done(E, NoElement) ELSE NetworkEl(made[i - 1].env, n.items[i])]
    BY <1>2
  <2> HIDE DEF made, L
  <2> QED BY <1>0, <2>0, <2>1
<1> HIDE DEF made
<1>4. DOMAIN xs = 1 .. L /\ \A i \in 1 .. L : xs[i] = made[i].el
  OBVIOUS
<1>5. Len(xs) = L
  BY <1>0
<1> HIDE DEF xs, L
<1> DEFINE Good(i) == /\ Leads(E, made[i].env)
                      /\ ~made[i].env.bad =>
                           \A p : Has(p, made[i].env) => \A j \in 1 .. i : Sound(p, made[j].el)
           S == {i \in 0 .. L : Good(i)}
<1>6. 0 \in S
  <2>1. made[0].env = E
    BY <1>3 DEF Done
  <2>2. \A j \in 1 .. 0 : FALSE
    OBVIOUS
  <2>3. Good(0)
    BY <2>1, <2>2, LeadsToItself
  <2> QED BY <1>0, <2>3
<1>7. ASSUME NEW i \in 0 .. L - 1, i \in S PROVE i + 1 \in S
  <2> DEFINE D == made[i].env
             G == made[i + 1].env
             m == n.items[i + 1]
  <2>0. i + 1 \in 1 .. L /\ i + 1 \in 0 .. L /\ (i + 1) - 1 = i
    BY <1>0
  <2>1. Good(i)
    BY <1>7
  <2>2. made[i + 1] = NetworkEl(D, m) /\ Unfolds(m) /\ CompilesWell(m)
    BY <1>3, <2>0 DEF L
  <2>3. IsEnv(D)
    BY <2>1 DEF Leads
  <2>4. Makes(D, made[i + 1])
    BY <2>2, <2>3 DEF CompilesWell
  <2>5. Leads(D, G)
    BY <2>4 DEF Makes
  <2>6. Leads(E, G)
    BY <2>1, <2>5, LeadsOn
  <2>7. ASSUME ~G.bad, NEW p, Has(p, G), NEW j \in 1 .. i + 1 PROVE Sound(p, made[j].el)
    <3>1. Has(p, D) /\ ~D.bad
      BY <2>5, <2>7, HasEarlier DEF Leads
    <3>2. CASE j = i + 1
      <4>1. RunsWell(p, made[i + 1].el)
        BY <2>4, <2>7 DEF Makes
      <4>2. \A c, power : RunElement(c, made[i + 1].el, power) = RunNode(c, made[i + 1].el, power)
        BY <2>2 DEF Unfolds
      <4> QED BY <3>2, <4>1, <4>2 DEF RunsWell, Sound
    <3>3. CASE j # i + 1
      <4>1. j \in 1 .. i
        BY <3>3, <1>0
      <4> QED BY <2>1, <3>1, <4>1
    <3> QED BY <3>2, <3>3
  <2> QED BY <2>0, <2>6, <2>7
<1>8. L \in S
  <2> HIDE DEF S
  <2>1. \A i \in 0 .. L : i \in S
    BY <1>0, <1>6, <1>7, IntervalInduction
  <2> QED BY <1>0, <2>1
<1>9. Good(L)
  BY <1>8
<1>10. CASE ok
  <2>1. R.env = F /\ R.el = x
    BY <1>1, <1>10 DEF DoneIf, Done
  <2>2. ASSUME ~F.bad, NEW p, Has(p, F), NEW i \in 1 .. Len(xs) PROVE Sound(p, xs[i])
    BY <1>4, <1>5, <1>9, <2>2
  <2>3. R.el = [el |-> n.t, items |-> xs] /\ Len(xs) = Len(n.items)
    BY <1>5, <2>1 DEF L
  <2> QED BY <1>9, <2>1, <2>2, <2>3
<1>11. CASE ~ok
  <2>1. R = WrongEl(F)
    BY <1>1, <1>11 DEF DoneIf
  <2>2. IsEnv(F)
    BY <1>9 DEF Leads
  <2>3. R.env = [F EXCEPT !.bad = TRUE]
    BY <2>1 DEF WrongEl, Done
  <2>4. Leads(F, R.env) /\ R.env.bad
    BY <2>2, <2>3, MarkedEnv
  <2> QED BY <1>9, <2>4, LeadsOn
<1> QED BY <1>10, <1>11

(* A series or a parallel of nodes that compile to what runs well.         *)
LEMMA GroupMakes ==
  ASSUME NEW E, IsEnv(E), NEW n, n.t \in {"series", "parallel"},
         Len(n.items) \in Nat, DOMAIN n.items = 1 .. Len(n.items),
         \A i \in 1 .. Len(n.items) : Unfolds(n.items[i]) /\ CompilesWell(n.items[i])
  PROVE  Makes(E, NodeEl(E, n))
<1> DEFINE R == GroupEl(E, n)
<1>1. NodeEl(E, n) = R
  BY DEF NodeEl
<1>2. /\ Leads(E, R.env)
      /\ ~R.env.bad => \E xs : /\ R.el = [el |-> n.t, items |-> xs] /\ Len(xs) = Len(n.items)
                               /\ \A p : Has(p, R.env) => \A i \in 1 .. Len(xs) : Sound(p, xs[i])
  BY GroupCompiles
<1> HIDE DEF R
<1>3. ASSUME ~R.env.bad, NEW p, Has(p, R.env) PROVE RunsWell(p, R.el)
  <2>1. PICK xs : /\ R.el = [el |-> n.t, items |-> xs] /\ Len(xs) = Len(n.items)
                  /\ \A i \in 1 .. Len(xs) : Sound(p, xs[i])
    BY <1>2, <1>3
  <2>2. R.el.el = n.t /\ R.el.items = xs
    BY <2>1
  <2>3. \A c, power : RunNode(c, R.el, power) = RunItems(n.t, c, xs, power)
    BY <2>2 DEF RunNode
  <2>4. ASSUME NEW c, NEW power \in BOOLEAN, TypedContext(c, p)
        PROVE  GoodFlow(p, RunItems(n.t, c, xs, power))
    BY <2>1, <2>4, ItemsRunWell DEF Kinds
  <2> QED BY <2>3, <2>4, Zenon DEF RunsWell
<1> QED BY <1>1, <1>2, <1>3, Zenon DEF Makes

(* The nodes of a document: each node that holds nodes holds a list of     *)
(* nodes of a lower rank, which are less deep.                             *)
IsNodes(N, rank) ==
  /\ rank \in [N -> Nat]
  /\ \A n \in N : /\ Unfolds(n) /\ IsBox(n)
                  /\ n.t \in {"series", "parallel"} =>
                       /\ n.items \in Seq(N)
                       /\ \A i \in 1 .. Len(n.items) : rank[n.items[i]] < rank[n]

(* By induction on the depth, every node compiles to what runs well.       *)
LEMMA NodesCompile ==
  ASSUME TypedTags, NEW N, NEW rank, IsNodes(N, rank), NEW m \in N
  PROVE  CompilesWell(m)
<1> DEFINE K == rank[m] + 1
           S == {k \in 0 .. K : \A n \in N : rank[n] < k => CompilesWell(n)}
<1>0. \A n \in N : rank[n] \in Nat
  BY DEF IsNodes
<1>1. K \in Nat
  BY <1>0
<1>2. 0 \in S
  BY <1>0, <1>1
<1>3. ASSUME NEW k \in 0 .. K - 1, k \in S PROVE k + 1 \in S
  <2>1. k + 1 \in 0 .. K
    BY <1>1
  <2>2. ASSUME NEW n \in N, rank[n] < k + 1 PROVE CompilesWell(n)
    <3> SUFFICES ASSUME NEW E, IsEnv(E) PROVE Makes(E, NetworkEl(E, n))
      BY DEF CompilesWell
    <3>1. Unfolds(n) /\ IsBox(n)
      BY DEF IsNodes
    <3>2. NetworkEl(E, n) = NodeEl(E, n)
      BY <3>1, Zenon DEF Unfolds
    <3>3. CASE n.t \notin {"series", "parallel"}
      BY <3>1, <3>2, <3>3, BoxMakes
    <3>4. CASE n.t \in {"series", "parallel"}
      <4>1. n.items \in Seq(N) /\ \A i \in 1 .. Len(n.items) : rank[n.items[i]] < rank[n]
        BY <3>4 DEF IsNodes
      <4>2. Len(n.items) \in Nat /\ DOMAIN n.items = 1 .. Len(n.items)
            /\ \A i \in 1 .. Len(n.items) : n.items[i] \in N
        BY <4>1
      <4>3. ASSUME NEW i \in 1 .. Len(n.items) PROVE Unfolds(n.items[i]) /\ CompilesWell(n.items[i])
        <5>1. n.items[i] \in N /\ rank[n.items[i]] < rank[n]
          BY <4>1, <4>2
        <5>2. rank[n.items[i]] < k
          <6> HIDE DEF K
          <6> QED BY <1>0, <1>1, <2>2, <5>1
        <5> QED BY <1>3, <5>1, <5>2 DEF IsNodes
      <4> QED BY <3>2, <3>4, <4>2, <4>3, GroupMakes
    <3> QED BY <3>3, <3>4
  <2> QED BY <2>1, <2>2
<1>4. K \in S
  <2> HIDE DEF S, K
  <2>1. \A k \in 0 .. K : k \in S
    BY <1>1, <1>2, <1>3, IntervalInduction
  <2> QED BY <1>1, <2>1
<1> QED BY <1>0, <1>4

-----------------------------------------------------------------------------
(* Documents as a whole.                                                   *)

(* The first n declarations of a document.                                 *)
IsDeclared(E, ds, n, f) ==
  f = [i \in 0 .. n |-> IF i = 0 THEN E ELSE DeclareJson(f[i - 1], ds[i])]

(* The recursive definition of DeclareVars defines a function.             *)
LEMMA DeclaredExists ==
  ASSUME NEW E, NEW ds, Len(ds) \in Nat
  PROVE  \E f : IsDeclared(E, ds, Len(ds), f)
<1> DEFINE L == Len(ds)
           Step(a, i) == DeclareJson(a, ds[i])
           S == {n \in 0 .. L : \E f : IsDeclared(E, ds, n, f)}
<1>0. L \in Nat
  OBVIOUS
<1> HIDE DEF L, Step
<1>1. 0 \in S
  <2> DEFINE z == [i \in 0 .. 0 |-> E]
  <2>1. \A i \in 0 .. 0 : i = 0
    OBVIOUS
  <2>2. z = [i \in 0 .. 0 |-> IF i = 0 THEN E ELSE Step(z[i - 1], i)]
    BY <2>1, Zenon
  <2>3. IsDeclared(E, ds, 0, z)
    <3> HIDE DEF z
    <3> QED BY <2>2, Zenon DEF IsDeclared, Step
  <2> QED BY <2>3, <1>0
<1>2. ASSUME NEW n \in 0 .. L - 1, n \in S PROVE n + 1 \in S
  <2>1. PICK f : IsDeclared(E, ds, n, f)
    BY <1>2
  <2>2. f = [i \in 0 .. n |-> IF i = 0 THEN E ELSE Step(f[i - 1], i)]
    BY <2>1, Zenon DEF IsDeclared, Step
  <2> DEFINE v == Step(f[n], n + 1)
             g == [i \in 0 .. n + 1 |-> IF i = n + 1 THEN v ELSE f[i]]
  <2>3. ASSUME NEW i \in 0 .. n + 1
        PROVE  g[i] = IF i = 0 THEN E ELSE Step(g[i - 1], i)
    <3>1. CASE i = n + 1
      <4>1. g[i] = v /\ g[i - 1] = f[n] /\ i # 0
        BY <3>1, <1>0
      <4> HIDE DEF g
      <4> QED BY <4>1, <3>1
    <3>2. CASE i # n + 1
      <4>1. i \in 0 .. n /\ g[i] = f[i] /\ (i # 0 => g[i - 1] = f[i - 1])
        BY <3>2, <1>0
      <4> HIDE DEF g
      <4> QED BY <4>1, <2>2
    <3> QED BY <3>1, <3>2
  <2>4. g = [i \in 0 .. n + 1 |-> IF i = 0 THEN E ELSE Step(g[i - 1], i)]
    <3>1. g = [i \in 0 .. n + 1 |-> g[i]]
      OBVIOUS
    <3> HIDE DEF g
    <3> QED BY <3>1, <2>3
  <2>5. IsDeclared(E, ds, n + 1, g)
    <3> HIDE DEF g
    <3> QED BY <2>4, Zenon DEF IsDeclared, Step
  <2>6. n + 1 \in 0 .. L
    BY <1>0
  <2> QED BY <2>5, <2>6
<1>3. L \in S
  <2> HIDE DEF S
  <2>1. \A n \in 0 .. L : n \in S
    BY <1>0, <1>1, <1>2, IntervalInduction
  <2> QED BY <1>0, <2>1
<1> QED BY <1>3 DEF L

(* The declarations of a document lead to an environment with symbols as   *)
(* declarations make them.                                                 *)
LEMMA VarsLead ==
  ASSUME NEW E, IsEnv(E), NEW ds, Len(ds) \in Nat, \A i \in 1 .. Len(ds) : IsDeclaration(ds[i])
  PROVE  Leads(E, DeclareVars(E, ds))
<1> DEFINE L == Len(ds)
           Env(f) == [i \in 0 .. Len(ds) |-> IF i = 0 THEN E ELSE DeclareJson(f[i - 1], ds[i])]
           env == CHOOSE f : f = Env(f)
           S == {i \in 0 .. L : Leads(E, env[i])}
<1>0. L \in Nat
  OBVIOUS
<1>1. DeclareVars(E, ds) = env[L]
  BY Zenon DEF DeclareVars
<1>2. env = Env(env)
  <2>1. \A f : IsDeclared(E, ds, Len(ds), f) <=> f = Env(f)
    BY Zenon DEF IsDeclared
  <2>2. \E f : f = Env(f)
    BY DeclaredExists, <2>1
  <2> HIDE DEF Env
  <2> QED BY <2>2, Zenon
<1>3. env[0] = E /\ \A i \in 1 .. L : env[i] = DeclareJson(env[i - 1], ds[i])
  <2>0. \A i \in 1 .. L : i \in 0 .. L /\ i # 0
    BY <1>0
  <2>1. env = [i \in 0 .. L |-> IF i = 0 THEN E ELSE DeclareJson(env[i - 1], ds[i])]
    BY <1>2
  <2> HIDE DEF env, L
  <2> QED BY <1>0, <2>0, <2>1
<1> HIDE DEF env
<1>4. 0 \in S
  BY <1>0, <1>3, LeadsToItself
<1>5. ASSUME NEW i \in 0 .. L - 1, i \in S PROVE i + 1 \in S
  <2>0. i + 1 \in 1 .. L /\ i + 1 \in 0 .. L /\ (i + 1) - 1 = i
    BY <1>0
  <2>1. Leads(E, env[i]) /\ IsEnv(env[i])
    BY <1>5 DEF Leads
  <2>2. env[i + 1] = DeclareJson(env[i], ds[i + 1]) /\ IsDeclaration(ds[i + 1])
    BY <1>3, <2>0 DEF L
  <2>3. Leads(env[i], env[i + 1])
    BY <2>1, <2>2, DeclarationLeads
  <2> QED BY <2>0, <2>1, <2>3, LeadsOn
<1>6. L \in S
  <2> HIDE DEF S, L
  <2>1. \A i \in 0 .. L : i \in S
    BY <1>0, <1>4, <1>5, IntervalInduction
  <2> QED BY <1>0, <2>1
<1> QED BY <1>1, <1>6

(* A ladder document: its declarations, and its rungs in a list of nodes.  *)
IsDocument(doc) ==
  /\ Len(doc.vars) \in Nat /\ \A i \in 1 .. Len(doc.vars) : IsDeclaration(doc.vars[i])
  /\ \E N, rank : IsNodes(N, rank) /\ doc.rungs \in Seq(N)

(* A program that is what a ladder document compiles to, run as a ladder.  *)
IsLadderOf(p, doc) ==
  /\ p.bad = CompileLadder(Tags, doc).bad
  /\ p.syms = CompileLadder(Tags, doc).syms /\ p.code = CompileLadder(Tags, doc).code
  /\ \A c : RunBody(c, p) = RunRungs(c, p.code)

(* A ladder document without a diagnostic runs well: LadderBody.execute    *)
(* leaves every variable a value of its type and raises nothing but a      *)
(* division by zero.                                                       *)
LEMMA LadderRunsWell ==
  ASSUME TypedTags, NEW doc, IsDocument(doc), NEW p, IsLadderOf(p, doc), ~p.bad
  PROVE  /\ \A n \in DOMAIN p.syms : IsSymbol(p.syms[n])
         /\ \A c : TypedContext(c, p) => GoodFlow(p, RunBody(c, p))
<1> DEFINE O == NewEnv(Tags, {})
           E == DeclareVars(O, doc.vars)
           n == Series(doc.rungs)
           R == GroupEl(E, n)
           C == CompileLadder(Tags, doc)
<1>1. IsEnv(O)
  <2>1. O = [tags |-> Tags, syms |-> << >>, steps |-> {}, loop |-> FALSE, bad |-> FALSE]
    BY DEF NewEnv
  <2> HIDE DEF O
  <2>2. O.tags = Tags /\ O.bad = FALSE /\ O.syms = << >>
    BY <2>1
  <2>3. Over(O, {"tags", "syms", "steps", "loop", "bad"})
    BY <2>1 DEF Over
  <2>4. DOMAIN O.syms = {}
    BY <2>2
  <2> QED BY <2>2, <2>3, <2>4 DEF IsEnv
<1>2. Leads(O, E) /\ IsEnv(E)
  BY <1>1, VarsLead DEF IsDocument, Leads
<1>3. n.t = "series" /\ n.items = doc.rungs
  BY DEF Series
<1>4. C = [bad |-> R.env.bad, syms |-> R.env.syms, code |-> R.el.items]
  BY Zenon DEF CompileLadder
<1>5. PICK N, rank : IsNodes(N, rank) /\ doc.rungs \in Seq(N)
  BY Zenon DEF IsDocument
<1> HIDE DEF E, n, O
<1>6. Len(n.items) \in Nat /\ DOMAIN n.items = 1 .. Len(n.items)
      /\ \A i \in 1 .. Len(n.items) : n.items[i] \in N
  BY <1>3, <1>5
<1>7. ASSUME NEW i \in 1 .. Len(n.items) PROVE Unfolds(n.items[i]) /\ CompilesWell(n.items[i])
  <2>1. n.items[i] \in N
    BY <1>6
  <2> QED BY <1>5, <2>1, NodesCompile DEF IsNodes
<1>8. /\ Leads(E, R.env)
      /\ ~R.env.bad => \E xs : /\ R.el = [el |-> n.t, items |-> xs] /\ Len(xs) = Len(n.items)
                               /\ \A q : Has(q, R.env) => \A i \in 1 .. Len(xs) : Sound(q, xs[i])
  BY <1>2, <1>6, <1>7, GroupCompiles
<1> HIDE DEF R
<1>9. p.bad = R.env.bad /\ p.syms = R.env.syms /\ p.code = R.el.items
  BY <1>4 DEF IsLadderOf
<1>10. Has(p, R.env) /\ IsEnv(R.env)
  BY <1>8, <1>9 DEF Has, Leads
<1>11. PICK xs : /\ R.el = [el |-> n.t, items |-> xs] /\ Len(xs) = Len(n.items)
                 /\ \A i \in 1 .. Len(xs) : Sound(p, xs[i])
  BY <1>8, <1>9, <1>10
<1>12. p.code = xs
  BY <1>9, <1>11
<1>13. \A i \in DOMAIN p.syms : IsSymbol(p.syms[i])
  BY <1>9, <1>10 DEF IsEnv
<1>14. ASSUME NEW c, TypedContext(c, p) PROVE GoodFlow(p, RunBody(c, p))
  <2>1. RunBody(c, p) = RunItems("rungs", c, xs, TRUE)
    BY <1>12 DEF IsLadderOf, RunRungs
  <2> QED BY <1>6, <1>11, <1>14, <2>1, ItemsRunWell DEF Kinds
<1> QED BY <1>13, <1>14

(* Type soundness: a ladder document that compiles without a diagnostic    *)
(* keeps the types of every variable, for any tags, any document and any   *)
(* width of the integers.  (LadderCompiler.compile, LadderBody.execute)    *)
THEOREM AcceptedLaddersKeepTypes ==
  ASSUME TypedTags, NEW doc, IsDocument(doc), NEW p, IsLadderOf(p, doc), ~p.bad
  PROVE  KeepsTypes(p) /\ \A c : TypedContext(c, p) => RunBody(c, p).sig \in {"go", "div_zero"}
<1>1. ASSUME NEW c, TypedContext(c, p)
      PROVE  /\ RunBody(c, p).sig \in {"go", "div_zero"}
             /\ TypedStore(RunBody(c, p).ctx.store, p)
  <2>1. GoodFlow(p, RunBody(c, p))
    BY <1>1, LadderRunsWell
  <2> QED BY <2>1 DEF GoodFlow, TypedContext
<1> QED BY <1>1 DEF KeepsTypes

(* Every program is a ladder, and the requests are accepted.               *)
LaddersPlanned ==
  /\ TypedTags /\ RequestsPlanned
  /\ \A i \in DOMAIN Programs : \E doc : IsDocument(doc) /\ IsLadderOf(Programs[i], doc)

(* Whatever ladders the runtime loads, and whatever is written, forced and *)
(* switched between their scans, every value of the image has its type and *)
(* no scan ends in an internal fault.  (PlcRuntime.scan)                   *)
THEOREM LadderImagesAreTyped == HSpec /\ LaddersPlanned => []ImageIsTyped
<1>1. HInit /\ LaddersPlanned => TypesPlanned
  <2> SUFFICES ASSUME HInit, LaddersPlanned PROVE TypedPrograms(Programs)
    BY DEF LaddersPlanned, TypesPlanned
  <2>1. ASSUME NEW i \in DOMAIN Programs
        PROVE  KeepsTypes(Programs[i]) /\ \A n \in DOMAIN Programs[i].syms : IsSymbol(Programs[i].syms[n])
    <3>1. PICK doc : IsDocument(doc) /\ IsLadderOf(Programs[i], doc)
      BY DEF LaddersPlanned
    <3>2. ~Programs[i].bad
      BY DEF HInit, Init, Elements
    <3>3. TypedTags
      BY DEF LaddersPlanned
    <3> QED BY <3>1, <3>2, <3>3, AcceptedLaddersKeepTypes, LadderRunsWell
  <2> QED BY <2>1 DEF TypedPrograms
<1>2. HSpec => HInit
  BY PTL DEF HSpec
<1> QED BY <1>1, <1>2, ImageIsAlwaysTyped, PTL
=============================================================================
