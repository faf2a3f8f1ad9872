---------------------------- MODULE WasmInjection -----------------------------
(***************************************************************************)
(* What is put into the code of a contract before it runs: the injected    *)
(* calls, and the arithmetic in software that such calls reach.            *)
(***************************************************************************)
EXTENDS Integers, Sequences, FiniteSets, FiniteSetsExt

(***************************************************************************)
(* Injection of calls into a contract's code before it is given to the     *)
(* runtime (wasm_binary_injection): float operators become calls of        *)
(* software routines, and with full injection calls are counted and        *)
(* functions, loops and grow_memory check the time.  Every routine is      *)
(* imported at the head of the function index space, so each import        *)
(* shifts the index of every function of the module; calls are put right   *)
(* by a second pass, once all imports are known.                           *)
(***************************************************************************)

CONSTANTS
    Originals,      \* modules: [imports, defs, exports, start, elements, max, globals]
    MaxCallDepth,   \* maximum_call_depth
    MaxPages        \* maximum_linear_memory / wasm_page_size

VARIABLES
    original, full, \* the module as it was read, full_injection
    module,         \* as it is now
    registered,     \* registered_injected: the names, in the order they were added, with their index
    mapping,        \* injected_index_mapping
    counter,        \* call_depth_check_and_insert_checktime::global_idx
    pass, fd, pos, out  \* where inject() is, and new_code

injection_vars == <<original, full, module, registered, mapping, counter, pass, fd, pos, out>>

Operator(op, field) == [op |-> op, field |-> field]

-----------------------------------------------------------------------------
IsRegistered(name) == \E i \in DOMAIN registered : registered[i].name = name
IndexOf(name) == registered[CHOOSE i \in DOMAIN registered : registered[i].name = name].index

\* get_next_indices: an index no call of the module uses, until fix_call_index.
next_function_index == Len(module.imports) + Len(module.defs) + Len(registered)

Shifted(indices) == {i + 1 : i \in indices}

\* add_import for a routine that is not registered, in the module m.
Imported(m, name) ==
    [m EXCEPT !.imports = SubSeq(@, 1, Len(registered)) \o <<name>> \o SubSeq(@, Len(registered) + 1, Len(@)),
              !.exports = @ + 1,
              !.start = IF @ = -1 THEN @ ELSE @ + 1,
              !.elements = Shifted(@)]

add_import(name, m) ==
    IF Len(module.imports) = 0 \/ ~IsRegistered(name)
    THEN /\ registered' = Append(registered, [name |-> name, index |-> next_function_index])
         /\ mapping' = Append(mapping, [index |-> next_function_index, actual |-> Len(mapping)])
         /\ module' = Imported(m, name)
    ELSE module' = m /\ UNCHANGED <<registered, mapping>>

\* The index a routine is called by in the first pass: as add_import leaves it.
Index(name) == IF IsRegistered(name) THEN IndexOf(name) ELSE next_function_index

IsMapped(index) == \E i \in DOMAIN mapping : mapping[i].index = index
Mapped(index) == mapping[CHOOSE i \in DOMAIN mapping : mapping[i].index = index].actual

\* Mutant: calls of the module's own functions are not shifted.
fix_call_index_injected(o) == IF IsMapped(o.field) THEN [o EXCEPT !.field = Mapped(@)] ELSE o
fix_call_index(o) ==
    IF IsMapped(o.field) THEN [o EXCEPT !.field = Mapped(@)] ELSE [o EXCEPT !.field = @ + Len(registered)]

-----------------------------------------------------------------------------
(* The two passes, an operator at a time.                                  *)

Code == module.defs[fd]
Op == Code[pos]

MaxMemoryInjected(m) == [m EXCEPT !.max = IF @ > MaxPages THEN MaxPages ELSE @]

\* The module's injectors, and the import of checktime.
begin ==
    /\ pass = "begin"
    /\ LET m == MaxMemoryInjected(module) IN
       IF full THEN add_import("checktime", m) ELSE module' = m /\ UNCHANGED <<registered, mapping>>
    /\ pass' = "pre" /\ UNCHANGED <<original, full, counter, fd, pos, out>>

Advance(ops) == out' = out \o ops /\ pos' = pos + 1 /\ UNCHANGED <<original, full, pass, fd>>

\* The operators pre_op_injectors replaces.  The injectors of int to float conversions are declared
\* under names the decoder does not use: conversions pass.
pre_op_injectors(o) == o.op = "float"

\* The float injectors, by the routine they call.
float_injector ==
    /\ pass = "pre" /\ pos <= Len(Code) /\ pre_op_injectors(Op)
    /\ add_import(Op.field, module)
    /\ Advance(<<Operator("call", Index(Op.field))>>) /\ UNCHANGED counter

\* call_depth_check_and_insert_checktime.
call_depth_check ==
    /\ pass = "pre" /\ pos <= Len(Code) /\ full /\ Op.op \in {"call", "call_indirect"}
    /\ LET m == [module EXCEPT !.globals = IF counter = -1 THEN Append(@, MaxCallDepth) ELSE @]
           g == Len(m.globals) - 1
       IN  /\ counter' = g
           /\ add_import("call_depth_assert", m)
           /\ Advance(<<Operator("if_zero", g), Operator("call", Index("call_depth_assert")),
                        Operator("else_decrement", g), Op, Operator("increment", g),
                        Operator("call", Index("checktime"))>>)

pass_injector ==
    /\ pass = "pre" /\ pos <= Len(Code) /\ ~pre_op_injectors(Op) /\ ~(full /\ Op.op \in {"call", "call_indirect"})
    /\ Advance(<<Op>>) /\ UNCHANGED <<module, registered, mapping, counter>>

checktime_injection(o) == <<o, Operator("call", Mapped(IndexOf("checktime")))>>

\* The second pass: calls, and in full injection loops and grow_memory.
post ==
    /\ pass = "post" /\ pos <= Len(Code)
    /\ Advance(IF Op.op = "call" THEN <<fix_call_index(Op)>>
               ELSE IF full /\ Op.op \in {"loop", "grow_memory"} THEN checktime_injection(Op)
               ELSE <<Op>>)
    /\ UNCHANGED <<module, registered, mapping, counter>>

Prologue == IF full THEN <<Operator("call", Mapped(IndexOf("checktime")))>> ELSE << >>

\* The end of a body: its code is replaced, and the next body or the next pass begins.
next_function ==
    /\ pass \in {"pre", "post"} /\ pos > Len(Code)
    /\ module' = [module EXCEPT !.defs[fd] = out]
    /\ pos' = 1
    /\ LET last == fd = Len(module.defs) IN
       /\ fd' = IF last THEN 1 ELSE fd + 1
       /\ pass' = IF ~last THEN pass ELSE IF pass = "pre" THEN "post" ELSE "done"
       /\ out' = IF pass' = "post" THEN Prologue ELSE << >>
    /\ UNCHANGED <<original, full, registered, mapping, counter>>

-----------------------------------------------------------------------------
InjectionInit ==
    /\ original \in Originals /\ full \in BOOLEAN
    /\ module = original /\ registered = << >> /\ mapping = << >> /\ counter = -1
    /\ pass = "begin" /\ fd = 1 /\ pos = 1 /\ out = << >>

InjectionNext == begin \/ float_injector \/ call_depth_check \/ pass_injector \/ post \/ next_function

InjectionSpec == InjectionInit /\ [][InjectionNext]_injection_vars

-----------------------------------------------------------------------------
\* The function an index names: an import by its name, a definition by its number.
Named(m, i) ==
    IF i < Len(m.imports) THEN <<"import", m.imports[i + 1]>> ELSE <<"def", i - Len(m.imports)>>

\* What a body must become, with functions named.
Expected(o) ==
    LET call(f) == [op |-> "call", field |-> <<"import", f>>]
        named == IF o.op = "call" THEN [o EXCEPT !.field = Named(original, @)] ELSE o
        g == Len(original.globals)
    IN  CASE o.op = "float" -> <<call(o.field)>>
          [] full /\ o.op \in {"call", "call_indirect"} ->
                <<Operator("if_zero", g), call("call_depth_assert"), Operator("else_decrement", g), named,
                  Operator("increment", g), call("checktime")>>
          [] full /\ o.op \in {"loop", "grow_memory"} -> <<o, call("checktime")>>
          [] OTHER -> <<named>>

RECURSIVE ExpectedBody(_)
ExpectedBody(body) ==
    IF body = << >> THEN << >> ELSE Expected(body[1]) \o ExpectedBody(SubSeq(body, 2, Len(body)))

NamedBody(body) ==
    [i \in DOMAIN body |-> IF body[i].op = "call" THEN [body[i] EXCEPT !.field = Named(module, @)] ELSE body[i]]

\* When injection is done, every call, export, table entry and the start function name the function
\* they named before, every injected call names its routine, and what is injected is what the
\* operator asks for, however many routines were imported after a call was written.
InjectionKeepsMeaning ==
    pass = "done" =>
        /\ \A i \in DOMAIN module.defs :
               NamedBody(module.defs[i]) =
                   (IF full THEN <<[op |-> "call", field |-> <<"import", "checktime">>]>> ELSE << >>)
                   \o ExpectedBody(original.defs[i])
        /\ Named(module, module.exports) = Named(original, original.exports)
        /\ {Named(module, e) : e \in module.elements} = {Named(original, e) : e \in original.elements}
        /\ original.start # -1 => Named(module, module.start) = Named(original, original.start)
        /\ \A i \in DOMAIN original.globals : module.globals[i] = original.globals[i]

\* No operator of the module computes a float with the machine's own arithmetic.  The code does not
\* keep this: the conversions of integers to floats are left as they are.
FloatsInSoftware ==
    pass = "done" => \A i \in DOMAIN module.defs : \A j \in DOMAIN module.defs[i] :
                         module.defs[i][j].op \notin {"float", "convert"}

-----------------------------------------------------------------------------

(***************************************************************************)
(* The arithmetic a contract calls out of WebAssembly for: softfloat_api   *)
(* (floating point done in integer arithmetic so that every node computes  *)
(* the same bits) and compiler_builtins (128 bit integers passed as two    *)
(* halves, comparisons of 128 bit floats).  The code is written once per   *)
(* width; here the widths are parameters: a float has EBits of exponent    *)
(* and FBits of fraction, a double integer has two halves of Half bits.    *)
(* What the softfloat library computes is given by its meaning: exact      *)
(* arithmetic rounded to nearest, ties to even.                            *)
(***************************************************************************)

CONSTANTS EBits, FBits, Half, Widths

VARIABLES call, result      \* the call made and, once it returned, its result

arithmetic_vars == <<call, result>>

Bias == 2 ^ (EBits - 1) - 1
SignBit == 2 ^ (EBits + FBits)
Floats == 0 .. 2 * SignBit - 1
Sign(v) == v \div SignBit
Magnitude(v) == v % SignBit
Exponent(v) == Magnitude(v) \div 2 ^ FBits
Fraction(v) == v % 2 ^ FBits
is_nan(v) == Exponent(v) = 2 ^ EBits - 1 /\ Fraction(v) # 0

(* A float's value in units of the smallest subnormal; infinities lie one  *)
(* binade beyond the largest number.                                       *)
Units(v) ==
    LET m == IF Exponent(v) = 0 THEN Fraction(v)
             ELSE (2 ^ FBits + Fraction(v)) * 2 ^ (Exponent(v) - 1)
    IN  IF Sign(v) = 1 THEN -m ELSE m
One == 2 ^ (Bias - 1 + FBits)
Finite == {v \in Floats : Exponent(v) < 2 ^ EBits - 1}
Abs(x) == IF x < 0 THEN -x ELSE x

\* The library's rounding; x is not beyond the largest number.
Rounded(x) ==
    LET S == {v \in Finite : Sign(v) = IF x < 0 THEN 1 ELSE 0}
        d == Min({Abs(Units(v) - x) : v \in S})
        N == {v \in S : Abs(Units(v) - x) = d}
    IN  IF Cardinality(N) = 1 THEN CHOOSE v \in N : TRUE ELSE CHOOSE v \in N : v % 2 = 0
f_add(a, b) == Rounded(Units(a) + Units(b))
f_sub(a, b) == Rounded(Units(a) - Units(b))
f_lt(a, b) == ~is_nan(a) /\ ~is_nan(b) /\ Units(a) < Units(b)
f_eq(a, b) == ~is_nan(a) /\ ~is_nan(b) /\ Units(a) = Units(b)
f_le(a, b) == f_lt(a, b) \/ f_eq(a, b)

-----------------------------------------------------------------------------
(* softfloat_api.                                                          *)

eosio_min(a, b) ==
    CASE is_nan(a) -> a
      [] ~is_nan(a) /\ is_nan(b) -> b
      [] OTHER -> IF Sign(a) # Sign(b) THEN IF Sign(a) = 1 THEN a ELSE b
                  ELSE IF f_lt(a, b) THEN a ELSE b

eosio_max(a, b) ==
    CASE is_nan(a) -> a
      [] ~is_nan(a) /\ is_nan(b) -> b
      [] OTHER -> IF Sign(a) # Sign(b) THEN IF Sign(a) = 1 THEN b ELSE a
                  ELSE IF f_lt(a, b) THEN b ELSE a

eosio_copysign(a, b) == Magnitude(a) + SignBit * Sign(b)
eosio_abs(a) == Magnitude(a)
eosio_neg(a) == Magnitude(a) + SignBit * (1 - Sign(a))
eosio_gt(a, b) == IF is_nan(a) \/ is_nan(b) THEN FALSE ELSE ~f_le(a, b)
eosio_ge(a, b) == IF is_nan(a) \/ is_nan(b) THEN FALSE ELSE ~f_lt(a, b)

\* a.v & m, a.v & ~m and a.v += m for a mask of n low bits.
FractionMask(e) == 2 ^ (FBits - e)
Cleared(v, mask) == v - (v % mask)

\* Adding 2^FBits drops the fraction with the library's rounding; subtracting it again is exact.
InvEps == (Bias + FBits) * 2 ^ FBits

eosio_ceil(a) ==
    LET e == Exponent(a) - Bias
        m == FractionMask(e)
    IN  CASE e >= FBits -> a
          [] e >= 0 /\ e < FBits ->
                IF a % m = 0 THEN a ELSE Cleared(IF Sign(a) = 0 THEN a + m - 1 ELSE a, m)
          [] OTHER -> IF Sign(a) = 1 THEN SignBit ELSE IF Magnitude(a) # 0 THEN Bias * 2 ^ FBits ELSE a

eosio_floor(a) ==
    LET e == Exponent(a) - Bias
        m == FractionMask(e)
    IN  CASE e >= FBits -> a
          [] e >= 0 /\ e < FBits ->
                IF a % m = 0 THEN a ELSE Cleared(IF Sign(a) = 1 THEN a + m - 1 ELSE a, m)
          [] OTHER -> IF Sign(a) = 0 THEN 0
                      ELSE IF Magnitude(a) # 0 THEN SignBit + Bias * 2 ^ FBits ELSE a

\* The doubles' ceil and floor go to an integer neighbour by the library's rounding and correct it
\* by one.
ToNeighbour(a) ==
    IF Sign(a) = 1 THEN f_sub(f_add(f_sub(a, InvEps), InvEps), a) ELSE f_sub(f_sub(f_add(a, InvEps), InvEps), a)
OneFloat == Bias * 2 ^ FBits

eosio_f64_ceil(a) ==
    CASE Exponent(a) >= Bias + FBits \/ f_eq(a, 0) -> a
      [] Exponent(a) < Bias + FBits /\ ~f_eq(a, 0) /\ Exponent(a) <= Bias - 1 ->
            IF Sign(a) = 1 THEN SignBit ELSE OneFloat
      [] OTHER -> LET y == ToNeighbour(a)
                  IN  IF f_lt(y, 0) THEN f_add(f_add(a, y), OneFloat) ELSE f_add(a, y)

eosio_f64_floor(a) ==
    CASE Exponent(a) >= Bias + FBits \/ Magnitude(a) = 0 -> a
      [] Exponent(a) < Bias + FBits /\ Magnitude(a) # 0 /\ Exponent(a) <= Bias - 1 ->
            IF Sign(a) = 1 THEN SignBit + OneFloat ELSE 0
      [] OTHER -> LET y == ToNeighbour(a)
                  IN  IF ~f_le(y, 0) THEN f_sub(f_add(a, y), OneFloat) ELSE f_add(a, y)

eosio_trunc(a) ==
    LET e == Exponent(a) - Bias
        m == IF e < 0 THEN SignBit ELSE FractionMask(e)
    IN  IF e >= FBits \/ a % m = 0 THEN a ELSE Cleared(a, m)

\* Adds for both signs.
nearest_adding(a) ==
    IF Exponent(a) >= Bias + FBits THEN a
    ELSE LET y == f_sub(f_add(a, InvEps), InvEps)
         IN  IF f_eq(y, 0) THEN SignBit * Sign(a) ELSE y

eosio_nearest(a) ==
    IF Exponent(a) >= Bias + FBits THEN a
    ELSE LET y == IF Sign(a) = 1 THEN f_add(f_sub(a, InvEps), InvEps)
                  ELSE f_sub(f_add(a, InvEps), InvEps)
         IN  IF f_eq(y, 0) THEN SignBit * Sign(a) ELSE y

\* A power of two as a float, and whether a float reaches it.
Reaches(a, p, negative) ==
    /\ ~is_nan(a)
    /\ IF negative THEN Units(a) <= -p * One ELSE Units(a) >= p * One
Below(a, p) == ~is_nan(a) /\ Units(a) < -p * One

ToZero(x) == IF x < 0 THEN -((-x) \div One) ELSE x \div One

\* A conversion that fails ends the transaction.
Value(x) == <<"value", x>>
Fails == <<"error", 0>>

eosio_trunc_s(a, w) ==
    IF Reaches(a, 2 ^ (w - 1), FALSE) \/ Below(a, 2 ^ (w - 1)) \/ is_nan(a) THEN Fails
    ELSE Value(ToZero(Units(eosio_trunc(a))))

eosio_trunc_u(a, w) ==
    IF Reaches(a, 2 ^ w, FALSE) \/ Reaches(a, 1, TRUE) \/ is_nan(a) THEN Fails
    ELSE Value(ToZero(Units(eosio_trunc(a))))

-----------------------------------------------------------------------------
(* compiler_builtins.  Half-words in and a double word out.                *)

H == 2 ^ Half
Words == 0 .. H - 1
Unsigned(x) == x % (H * H)
Signed(x) == IF Unsigned(x) >= (H * H) \div 2 THEN Unsigned(x) - H * H ELSE Unsigned(x)

\* lhs = h; lhs <<= 64; lhs |= l, in a signed and in an unsigned double word.
Join(l, h) == Signed(h * H + l)
JoinU(l, h) == h * H + l

\* Division of C++: towards zero, the remainder with the sign of the dividend.
Quotient(x, y) == LET q == Abs(x) \div Abs(y) IN IF (x < 0) # (y < 0) THEN -q ELSE q

ashlti3(l, h, n) == Signed(JoinU(l, h) * 2 ^ n)
ashrti3(l, h, n) == Join(l, h) \div 2 ^ n
lshrti3(l, h, n) == Signed(JoinU(l, h) \div 2 ^ n)

\* The least number over -1, and a product that does not fit, are undefined; as compiled they wrap.
divti3(la, ha, lb, hb) ==
    IF Join(lb, hb) = 0 THEN Fails ELSE Value(Signed(Quotient(Join(la, ha), Join(lb, hb))))
modti3(la, ha, lb, hb) ==
    LET x == Join(la, ha) y == Join(lb, hb)
    IN  IF y = 0 THEN Fails ELSE Value(Signed(x - y * Quotient(x, y)))
udivti3(la, ha, lb, hb) ==
    IF JoinU(lb, hb) = 0 THEN Fails ELSE Value(JoinU(la, ha) \div JoinU(lb, hb))
umodti3(la, ha, lb, hb) ==
    IF JoinU(lb, hb) = 0 THEN Fails ELSE Value(JoinU(la, ha) % JoinU(lb, hb))
multi3(la, ha, lb, hb) == Signed(Join(la, ha) * Join(lb, hb))

unordtf2(a, b) == is_nan(a) \/ is_nan(b)
cmptf2(a, b, if_nan) ==
    IF unordtf2(a, b) THEN if_nan ELSE IF f_lt(a, b) THEN -1 ELSE IF f_eq(a, b) THEN 0 ELSE 1

if_nan(name) ==
    CASE name \in {"eq", "ne", "le", "cmp"} -> 1 [] name = "ge" -> -1 [] name \in {"lt", "gt"} -> 0

-----------------------------------------------------------------------------
Unary == {"abs", "neg", "ceil", "floor", "ceil64", "floor64", "trunc", "nearest"}
Binary == {"min", "max", "copysign", "gt", "ge"}
Compare == {"eq", "ne", "ge", "gt", "le", "lt"}
Divide == {"div", "mod", "udiv", "umod", "mul"}
Shift == {"ashl", "ashr", "lshr"}

Call(kind, name, a, b) == [kind |-> kind, name |-> name, a |-> a, b |-> b]

ArithmeticInit ==
    /\ \/ \E n \in Unary, a \in Floats : call = Call("unary", n, a, 0)
       \/ \E n \in Binary, a \in Floats, b \in Floats : call = Call("binary", n, a, b)
       \/ \E n \in Compare, a \in Floats, b \in Floats : call = Call("compare", n, a, b)
       \/ \E n \in {"s", "u"}, a \in Floats, w \in Widths : call = Call("trunc", n, a, w)
       \/ \E n \in Divide, a \in 0 .. H * H - 1, b \in 0 .. H * H - 1 : call = Call("divide", n, a, b)
       \/ \E n \in Shift, a \in 0 .. H * H - 1, b \in 0 .. 2 * Half - 1 : call = Call("shift", n, a, b)
    /\ result = <<"none", 0>>

Returns(kind, r) == call.kind = kind /\ result = <<"none", 0>> /\ result' = r /\ UNCHANGED call

softfloat_unop ==
    Returns("unary", Value(LET a == call.a IN
        CASE call.name = "abs" -> eosio_abs(a) [] call.name = "neg" -> eosio_neg(a)
          [] call.name = "ceil" -> eosio_ceil(a) [] call.name = "floor" -> eosio_floor(a)
          [] call.name = "ceil64" -> eosio_f64_ceil(a) [] call.name = "floor64" -> eosio_f64_floor(a)
          [] call.name = "trunc" -> eosio_trunc(a) [] call.name = "nearest" -> eosio_nearest(a)))

AsBit(b) == IF b THEN 1 ELSE 0

softfloat_binop ==
    Returns("binary", Value(LET a == call.a b == call.b IN
        CASE call.name = "min" -> eosio_min(a, b) [] call.name = "max" -> eosio_max(a, b)
          [] call.name = "copysign" -> eosio_copysign(a, b)
          [] call.name = "gt" -> AsBit(eosio_gt(a, b)) [] call.name = "ge" -> AsBit(eosio_ge(a, b))))

softfloat_trunc ==
    Returns("trunc", IF call.name = "s" THEN eosio_trunc_s(call.a, call.b) ELSE eosio_trunc_u(call.a, call.b))

builtin_compare == Returns("compare", Value(cmptf2(call.a, call.b, if_nan(call.name))))

builtin_divide ==
    LET la == call.a % H ha == call.a \div H lb == call.b % H hb == call.b \div H
    IN  Returns("divide",
            CASE call.name = "div" -> divti3(la, ha, lb, hb) [] call.name = "mod" -> modti3(la, ha, lb, hb)
              [] call.name = "udiv" -> udivti3(la, ha, lb, hb) [] call.name = "umod" -> umodti3(la, ha, lb, hb)
              [] call.name = "mul" -> Value(multi3(la, ha, lb, hb)))

builtin_shift ==
    LET l == call.a % H h == call.a \div H
    IN  Returns("shift", Value(CASE call.name = "ashl" -> ashlti3(l, h, call.b)
                                 [] call.name = "ashr" -> ashrti3(l, h, call.b)
                                 [] call.name = "lshr" -> lshrti3(l, h, call.b)))

ArithmeticNext ==
    softfloat_unop \/ softfloat_binop \/ softfloat_trunc \/ builtin_compare \/ builtin_divide \/ builtin_shift

ArithmeticSpec == ArithmeticInit /\ [][ArithmeticNext]_arithmetic_vars

-----------------------------------------------------------------------------
Done(kind) == call.kind = kind /\ result[1] # "none"
Whole == {v \in Finite : Units(v) % One = 0}

\* ceil, floor, trunc and nearest return the integer WebAssembly names, with the sign of the operand
\* when it is zero; NaNs and infinities come back.  min and max order the zeros by sign and return a
\* NaN operand.  A conversion to an integer is the value without its fraction, fails for what does
\* not fit, and fails for nothing within the type's bounds.
RoundsAsNamed ==
    /\ Done("unary") /\ call.name \notin {"abs", "neg"} /\ call.a \in Finite =>
           LET r == result[2] x == Units(call.a) y == Units(r)
           IN  /\ r \in Whole /\ Sign(r) = Sign(call.a)
               /\ call.name \in {"ceil", "ceil64"} => x <= y /\ y - x < One
               /\ call.name \in {"floor", "floor64"} => y <= x /\ x - y < One
               /\ call.name = "trunc" => Abs(y) <= Abs(x) /\ Abs(x) - Abs(y) < One
               /\ call.name = "nearest" =>
                      /\ 2 * Abs(x - y) <= One
                      /\ 2 * Abs(x - y) = One => (y \div One) % 2 = 0
    /\ Done("unary") /\ call.name \notin {"abs", "neg"} /\ call.a \notin Finite => result[2] = call.a
    /\ Done("binary") /\ call.name \in {"min", "max"} =>
           LET r == result[2]
           IN  /\ r \in {call.a, call.b}
               /\ (is_nan(call.a) \/ is_nan(call.b)) <=> is_nan(r)
               /\ ~is_nan(r) => \A o \in {call.a, call.b} :
                     IF call.name = "min" THEN Units(r) < Units(o) \/ (Units(r) = Units(o) /\ Sign(r) >= Sign(o))
                     ELSE Units(r) > Units(o) \/ (Units(r) = Units(o) /\ Sign(r) <= Sign(o))
    /\ Done("trunc") =>
           LET least == IF call.name = "s" THEN -2 ^ (call.b - 1) ELSE 0
               most  == IF call.name = "s" THEN 2 ^ (call.b - 1) - 1 ELSE 2 ^ call.b - 1
               x     == Units(call.a)
           IN  IF result = Fails THEN is_nan(call.a) \/ x < least * One \/ x > most * One
               ELSE result[2] \in least .. most /\ Abs(x - result[2] * One) < One

\* Comparisons of 128 bit floats keep the contract the compiler relies on: the named relation holds
\* exactly when the result compares to zero that way, which it never does for a NaN.
ComparesAsNamed ==
    Done("compare") =>
        LET r == result[2] x == Units(call.a) y == Units(call.b)
            ordered == ~is_nan(call.a) /\ ~is_nan(call.b)
        IN  CASE call.name = "eq" -> (r = 0) <=> (ordered /\ x = y)
              [] call.name = "ne" -> (r # 0) <=> ~(ordered /\ x = y)
              [] call.name = "ge" -> (r >= 0) <=> (ordered /\ x >= y)
              [] call.name = "gt" -> (r > 0) <=> (ordered /\ x > y)
              [] call.name = "le" -> (r <= 0) <=> (ordered /\ x <= y)
              [] call.name = "lt" -> (r < 0) <=> (ordered /\ x < y)

\* Quotient and remainder of every pair of double words put together from halves fit together, in
\* two's complement and without sign, the extreme quotient included, and shifting right by n undoes
\* shifting left by n of what has room.
DoubleWords ==
    /\ Done("divide") =>
           LET r == result[2] x == Signed(call.a) y == Signed(call.b)
           IN  IF result = Fails THEN call.b = 0
               ELSE CASE call.name = "div" -> Abs(Signed(x - r * y)) < Abs(y)
                      [] call.name = "mod" -> Abs(r) < Abs(y) /\ (r = 0 \/ (r < 0) = (x < 0))
                                              /\ \E q \in -H * H .. H * H : x = q * y + r
                      [] call.name = "udiv" -> r * call.b <= call.a /\ call.a < (r + 1) * call.b
                      [] call.name = "umod" -> r < call.b /\ (call.a - r) % call.b = 0
                      [] call.name = "mul" -> Unsigned(r) = (call.a * call.b) % (H * H)
    /\ Done("shift") =>
           LET r == result[2]
           IN  CASE call.name = "ashl" -> Unsigned(r) = (call.a * 2 ^ call.b) % (H * H)
                 [] call.name = "ashr" -> r * 2 ^ call.b <= Signed(call.a) /\ Signed(call.a) < (r + 1) * 2 ^ call.b
                 [] call.name = "lshr" -> Unsigned(r) = call.a \div 2 ^ call.b
=============================================================================
