----------------------------- MODULE WasmModules ------------------------------
(***************************************************************************)
(* WebAssembly modules before they run: their binary format, and the       *)
(* validation a contract's code must pass.                                 *)
(***************************************************************************)
EXTENDS Integers, Sequences

(***************************************************************************)
(* The binary format of WebAssembly modules as WASMSerialization.cpp reads *)
(* and writes it: LEB128 integers with their limits, a function's locals   *)
(* as runs of one type, and the order of the sections.  A module that was  *)
(* changed by injection is written and read again by the runtime.          *)
(***************************************************************************)

CONSTANTS
    Group,          \* bits of a byte that carry data: 7, or fewer in small instances
    Formats,        \* integers: [signed, bits (maxBits), width (of Value)]
    Types, MaxRun,  \* the types of locals, and how many locals a function has at most
    MaxLocalBytes,  \* maximum_func_local_bytes
    Sections        \* the known sections, in the order of their ids: 1 .. Len(Sections)

VARIABLES item, written, read
format_vars == <<item, written, read>>

Pow(n) == 2 ^ n
More == Pow(Group)                              \* the bit that says another byte follows
SignBit == Pow(Group - 1)

Least(f) == IF f.signed THEN -Pow(f.bits - 1) ELSE 0
Most(f) == IF f.signed THEN Pow(f.bits - 1) - 1 ELSE Pow(f.bits) - 1

-----------------------------------------------------------------------------
(* serializeVarInt.                                                        *)

\* A signed value ends when what is left repeats the sign bit of the byte.
MoreBytes(f, value, byte) ==
    IF f.signed
    THEN (value # 0 /\ value # -1) \/ (value >= 0 /\ byte >= SignBit) \/ (value < 0 /\ byte < SignBit)
    ELSE value # 0

RECURSIVE Encoded(_, _)
Encoded(f, value) ==
    LET byte == value % More
        rest == value \div More
    IN  IF MoreBytes(f, rest, byte) THEN <<byte + More>> \o Encoded(f, rest) ELSE <<byte>>

maxBytes(f) == (f.bits + Group - 1) \div Group
\* The bytes taken from the stream: up to one without More, at most maxBytes.
Taken(f, bytes) ==
    LET n == CHOOSE n \in 1 .. maxBytes(f) :
                /\ n = maxBytes(f) \/ bytes[n] < More
                /\ \A i \in 1 .. n - 1 : bytes[i] >= More
    IN  [i \in 1 .. maxBytes(f) |-> IF i <= n THEN bytes[i] ELSE 0]

Wrapped(f, value) ==                            \* to Value
    LET v == value % Pow(f.width) IN IF f.signed /\ v >= Pow(f.width - 1) THEN v - Pow(f.width) ELSE v

Decoded(f, bytes) ==
    LET buffer == Taken(f, bytes)
        used == f.bits - (maxBytes(f) - 1) * Group              \* numUsedBitsInLastByte
        last == buffer[maxBytes(f)]
        unused == last \div Pow(used)                           \* More included
        signed == (last \div Pow(used - 1)) % 2 = 1
        fits == IF f.signed THEN unused = (IF signed THEN Pow(Group - used) - 1 ELSE 0) ELSE unused = 0
        sum[i \in 0 .. maxBytes(f)] ==
            IF i = 0 THEN 0 ELSE sum[i - 1] + (buffer[i] % More) * Pow((i - 1) * Group)
        count == CHOOSE n \in 1 .. maxBytes(f) :
                    (n = maxBytes(f) \/ buffer[n] < More) /\ \A i \in 1 .. n - 1 : buffer[i] >= More
        shift == f.width - Group * count                        \* signExtendShift
        value == IF f.signed /\ shift > 0
                 THEN LET v == sum[maxBytes(f)] % Pow(f.width - shift)
                      IN  IF v >= Pow(f.width - shift - 1) THEN v - Pow(f.width - shift) ELSE v
                 ELSE Wrapped(f, sum[maxBytes(f)])
    IN  IF ~fits \/ value < Least(f) \/ value > Most(f) THEN <<"error">> ELSE <<"value", value>>

-----------------------------------------------------------------------------
(* serializeFunctionBody: locals are runs of locals of the same type.      *)

LocalSets(types) ==
    LET sets[n \in 0 .. Len(types)] ==
            IF n = 0 THEN << >>
            ELSE LET s == sets[n - 1] IN
                 IF s # << >> /\ s[Len(s)].type = types[n] THEN [s EXCEPT ![Len(s)].num = @ + 1]
                 ELSE Append(s, [num |-> 1, type |-> types[n]])
    IN  sets[Len(types)]

\* The limit counts four bytes a local.
ReadLocals(sets) ==
    LET read_[n \in 0 .. Len(sets)] ==
            IF n = 0 THEN [ok |-> TRUE, locals |-> << >>, bytes |-> 0]
            ELSE LET r == read_[n - 1]
                     bytes == r.bytes + 4 * sets[n].num
                 IN  IF ~r.ok \/ bytes > MaxLocalBytes THEN [r EXCEPT !.ok = FALSE]
                     ELSE [ok |-> TRUE, bytes |-> bytes,
                           locals |-> r.locals \o [i \in 1 .. sets[n].num |-> sets[n].type]]
    IN  read_[Len(sets)]

-----------------------------------------------------------------------------
(* serializeModule.  A module maps each known section to whether it has    *)
(* anything; user sections are not written (they are cleared first).       *)

WrittenSections(m) == SelectSeq(Sections, LAMBDA s : m[s])
Id(s) == CHOOSE i \in DOMAIN Sections : Sections[i] = s

\* User sections (id 0) may stand anywhere; known sections in increasing order.
ReadSections(stream) ==
    LET known == SelectSeq(stream, LAMBDA s : s # "user") IN
    IF \E i \in 2 .. Len(known) : Id(known[i]) <= Id(known[i - 1]) THEN <<"error">>
    ELSE <<"module", [s \in {Sections[i] : i \in DOMAIN Sections} |-> \E i \in DOMAIN known : known[i] = s]>>

-----------------------------------------------------------------------------
FormatInit ==
    /\ written = << >> /\ read = << >>
    /\ \/ \E f \in Formats : \E v \in Least(f) .. Most(f) : item = [kind |-> "int", format |-> f, value |-> v]
       \/ \E f \in Formats : \E n \in 1 .. maxBytes(f) : \E b \in [1 .. n -> 0 .. 2 * More - 1] :
              /\ n = maxBytes(f) \/ b[n] < More
              /\ \A i \in 1 .. n - 1 : b[i] >= More
              /\ item = [kind |-> "bytes", format |-> f, value |-> b]
       \/ \E n \in 0 .. MaxRun : \E t \in [1 .. n -> Types] : item = [kind |-> "locals", value |-> t]
       \/ \E m \in [{Sections[i] : i \in DOMAIN Sections} -> BOOLEAN] : item = [kind |-> "module", value |-> m]

serialize_output ==
    /\ written = << >>
    /\ written' = CASE item.kind = "int" -> <<Encoded(item.format, item.value)>>
                    [] item.kind = "bytes" -> <<item.value>>
                    [] item.kind = "locals" -> <<LocalSets(item.value)>>
                    [] item.kind = "module" -> <<WrittenSections(item.value)>>
    /\ UNCHANGED <<item, read>>

serialize_input ==
    /\ written # << >> /\ read = << >>
    /\ read' = CASE item.kind \in {"int", "bytes"} -> <<Decoded(item.format, written[1])>>
                 [] item.kind = "locals" -> <<ReadLocals(written[1])>>
                 [] item.kind = "module" -> <<ReadSections(written[1])>>
    /\ UNCHANGED <<item, written>>

FormatNext == serialize_output \/ serialize_input

FormatSpec == FormatInit /\ [][FormatNext]_format_vars

-----------------------------------------------------------------------------
\* The number bytes stand for in LEB128, and whether it is in range.
Meaning(f, bytes) ==
    LET n == Len(bytes)
        sum[i \in 0 .. n] == IF i = 0 THEN 0 ELSE sum[i - 1] + (bytes[i] % More) * Pow((i - 1) * Group)
        negative == f.signed /\ (bytes[n] % More) >= SignBit
    IN  IF negative THEN sum[n] - Pow(n * Group) ELSE sum[n]

\* What is written is read back as it was, and bytes are read as the number they stand for or, when
\* it does not fit or more bytes would follow, not at all.
ReadsWhatWasWritten ==
    read # << >> =>
        CASE item.kind = "int" -> read[1] = <<"value", item.value>>
          [] item.kind = "bytes" ->
                LET v == Meaning(item.format, item.value) IN
                read[1] = IF /\ item.value[Len(item.value)] < More
                             /\ v \in Least(item.format) .. Most(item.format) THEN <<"value", v>> ELSE <<"error">>
          [] item.kind = "locals" ->
                IF 4 * Len(item.value) <= MaxLocalBytes THEN read[1].ok /\ read[1].locals = item.value ELSE ~read[1].ok
          [] item.kind = "module" -> read[1] = <<"module", item.value>>

-----------------------------------------------------------------------------

(***************************************************************************)
(* Validation of a contract's code (wasm_interface::validate).             *)
(* FunctionValidationContext types a function body operator by operator,   *)
(* with a stack of operand types and a stack of control structures, as the *)
(* binary is read; validateDefinitions then checks the module's other      *)
(* definitions, and wasm_binary_validation what the chain allows.  A       *)
(* module that is accepted is instantiated and its body run by an abstract *)
(* machine that keeps the types of its operands and takes every branch, as *)
(* the runtimes do without checking anything again.                        *)
(*                                                                         *)
(* Two value types stand for the four; one operator stands for each shape  *)
(* of operands (the non-control operators differ in nothing else here).    *)
(***************************************************************************)

CONSTANTS
    MaxCode, Bodies,            \* operators of a body, the operators bodies are made of
    Longer,                     \* bodies that are longer than that
    Modules,                    \* the other definitions of the modules
    MaxMemory, Page,            \* maximum_linear_memory, in pages, and the bytes of a page
    MaxInit,                    \* maximum_linear_memory_init
    MaxElements, MaxGlobals,    \* maximum_table_elements, maximum_mutable_globals
    MaxLocals, MaxDepth         \* maximum_func_local_bytes, the limit of nested_validator

VARIABLES
    module,     \* the module's definitions, a member of Modules
    producing,  \* control.is_producing_block()
    code,       \* the operators accepted so far
    stack,      \* operand types
    control,    \* controlStack
    machine,    \* the running body: [pc, operands, labels]
    phase       \* "reading", "defining", "constraining", "linked", "running"; or how it ended

validation_vars == <<module, producing, code, stack, control, machine, phase>>
same == <<module, producing>>

None == "none"
Any == "any"

\* functionType: one i32 parameter, the local, and an i32 result.  The callee takes an i32 and
\* returns an i64.
Ret == "i32"
Local == "i32"

Op(name) == [name |-> name, type |-> None, depth |-> 0, depths |-> << >>]
Branch(name, depth) == [Op(name) EXCEPT !.depth = depth]

-----------------------------------------------------------------------------
(* The validator's state is v = [ok, stack, control].                      *)

Top(v) == v.control[Len(v.control)]
Invalid(v) == [v EXCEPT !.ok = FALSE]

pushOperand(v, type) == IF type = None THEN v ELSE [v EXCEPT !.stack = Append(@, type)]

popOperand(v) ==
    IF v.control = << >> THEN [v |-> Invalid(v), type |-> Any]
    ELSE IF Len(v.stack) > Top(v).outerStackSize
    THEN [v |-> [v EXCEPT !.stack = SubSeq(@, 1, Len(@) - 1)], type |-> v.stack[Len(v.stack)]]
    ELSE IF Top(v).isReachable THEN [v |-> Invalid(v), type |-> Any] ELSE [v |-> v, type |-> Any]

validateOperandType(v, expected, actual) ==
    IF expected # actual /\ expected # Any /\ actual # Any THEN Invalid(v) ELSE v

popAndValidateOperand(v, type) ==
    LET p == popOperand(v) IN validateOperandType(p.v, type, p.type)

popAndValidateResultType(v, type) == IF type = None THEN v ELSE popAndValidateOperand(v, type)

pushControlStack(v, type, argument, result) ==
    [v EXCEPT !.control = Append(@, [type |-> type, outerStackSize |-> Len(v.stack),
                                     branchArgumentType |-> argument, resultType |-> result, isReachable |-> TRUE])]

popControlStack(v, isElse) ==
    LET c == Top(v)
        below == SubSeq(v.control, 1, Len(v.control) - 1)
    IN  IF Len(v.stack) > c.outerStackSize THEN Invalid(v)
        ELSE IF isElse /\ c.type = "ifThen"
        THEN [v EXCEPT !.control = Append(below, [c EXCEPT !.type = "ifElse", !.isReachable = TRUE])]
        ELSE IF isElse \/ (c.type = "ifThen" /\ c.resultType # None) THEN Invalid(v)
        ELSE LET w == [v EXCEPT !.control = below]
             IN  IF below = << >> THEN w ELSE pushOperand(w, c.resultType)

enterUnreachable(v) ==
    IF v.control = << >> THEN Invalid(v)
    ELSE [v EXCEPT !.stack = SubSeq(@, 1, Top(v).outerStackSize),
                   !.control = [@ EXCEPT ![Len(@)].isReachable = FALSE]]

ValidDepth(v, depth) == depth < Len(v.control)
getBranchTargetByDepth(v, depth) == v.control[Len(v.control) - depth]
ArgumentOf(v, depth) == getBranchTargetByDepth(v, depth).branchArgumentType

Opens(o) == o.name \in {"block", "loop", "if"}

Chain(v, f(_)) == IF v.ok THEN f(v) ELSE v

-----------------------------------------------------------------------------
(* Operators.                                                              *)

else_(v) ==
    IF v.control = << >> THEN Invalid(v)
    ELSE Chain(popAndValidateResultType(v, Top(v).resultType), LAMBDA w : popControlStack(w, TRUE))

end(v) ==
    IF v.control = << >> THEN Invalid(v)
    ELSE Chain(popAndValidateResultType(v, Top(v).resultType), LAMBDA w : popControlStack(w, FALSE))

br(v, depth) ==
    IF ~ValidDepth(v, depth) THEN Invalid(v)
    ELSE Chain(popAndValidateResultType(v, ArgumentOf(v, depth)), enterUnreachable)

br_if(v, depth) ==
    IF ~ValidDepth(v, depth) THEN Invalid(v)
    ELSE Chain(popAndValidateOperand(v, "i32"),
               LAMBDA w : Chain(popAndValidateResultType(w, ArgumentOf(w, depth)),
                                LAMBDA x : pushOperand(x, ArgumentOf(x, depth))))

br_table(v, depths, default) ==
    IF \E d \in {default} \cup {depths[i] : i \in DOMAIN depths} : ~ValidDepth(v, d) THEN Invalid(v)
    ELSE Chain(popAndValidateOperand(v, "i32"),
               LAMBDA w : Chain(popAndValidateResultType(w, ArgumentOf(w, default)),
                   LAMBDA x : IF \E i \in DOMAIN depths : ArgumentOf(x, depths[i]) # ArgumentOf(x, default)
                              THEN Invalid(x) ELSE enterUnreachable(x)))

select(v) ==
    LET c == popOperand(v)
        f == popOperand(c.v)
        t == popOperand(f.v)
    IN  Chain(validateOperandType(validateOperandType(t.v, "i32", c.type), f.type, t.type),
              LAMBDA w : pushOperand(w, f.type))

\* call, and the operators of fixed operands: what they take, last first, and what they leave.
Takes(name) ==
    CASE name = "const" -> << >> [] name = "get_local" -> << >> [] name = "tee_local" -> <<Local>>
      [] name = "call" -> <<"i32">> [] name = "wrap" -> <<"i64">> [] name = "add" -> <<"i32", "i32">>
Leaves(name) ==
    CASE name = "const" -> "i32" [] name = "get_local" -> Local [] name = "tee_local" -> Local
      [] name = "call" -> "i64" [] name = "wrap" -> "i32" [] name = "add" -> "i32"

popAndValidateOperands(v, types) ==
    LET pops[n \in 0 .. Len(types)] ==
            IF n = 0 THEN v ELSE Chain(pops[n - 1], LAMBDA w : popAndValidateOperand(w, types[n]))
    IN  pops[Len(types)]

Validated(v, o) ==
    CASE o.name = "block" -> pushControlStack(v, "block", o.type, o.type)
      [] o.name = "loop" -> pushControlStack(v, "loop", None, o.type)
      [] o.name = "if" -> Chain(popAndValidateOperand(v, "i32"),
                                LAMBDA w : pushControlStack(w, "ifThen", o.type, o.type))
      [] o.name = "else" -> else_(v)
      [] o.name = "end" -> end(v)
      [] o.name = "return" -> Chain(popAndValidateResultType(v, Ret), enterUnreachable)
      [] o.name = "br" -> br(v, o.depth)
      [] o.name = "br_if" -> br_if(v, o.depth)
      [] o.name = "br_table" -> br_table(v, o.depths, o.depth)
      [] o.name = "unreachable" -> enterUnreachable(v)
      [] o.name = "drop" -> popOperand(v).v
      [] o.name = "select" -> select(v)
      [] OTHER -> Chain(popAndValidateOperands(v, Takes(o.name)), LAMBDA w : pushOperand(w, Leaves(o.name)))

\* What may come next in the body.
Upcoming ==
    IF Len(code) < MaxCode THEN Bodies
    ELSE {body[Len(code) + 1] : body \in {b \in Longer : Len(code) < Len(b) /\ SubSeq(b, 1, Len(code)) = code}}

\* The next operator of the body; the last end finishes the stream.
decodeOp(o) ==
    /\ phase = "reading"
    /\ LET w == Validated([ok |-> TRUE, stack |-> stack, control |-> control], o)
       IN  IF ~w.ok THEN phase' = "rejected" /\ UNCHANGED <<code, stack, control>>
           ELSE /\ code' = Append(code, o) /\ stack' = w.stack /\ control' = w.control
                /\ phase' = IF w.control = << >> THEN "defining" ELSE "reading"
    /\ UNCHANGED <<same, machine>>

-----------------------------------------------------------------------------
(* The rest of the module.  Functions are numbered imports first; types    *)
(* are numbered too, and type 0 is that of a start function, type 1 that   *)
(* of apply.                                                               *)

Functions(m) == m.imports \o m.defs          \* the type of each
IsFunction(m, i) == i + 1 \in DOMAIN Functions(m)

SizeValid(size, most) == LET max == IF size.max = -1 THEN most ELSE size.max IN size.min <= max /\ max <= most

\* Types, exports, the start function and the segments.
validateDefinitions(m) ==
    /\ \A i \in DOMAIN Functions(m) : Functions(m)[i] < m.types
    /\ Len(m.tables) <= 1 /\ Len(m.memories) <= 1
    /\ \A i \in DOMAIN m.memories : SizeValid(m.memories[i], 2 * MaxMemory)
    /\ \A i \in DOMAIN m.exports : IsFunction(m, m.exports[i].index)
    /\ \A i, j \in DOMAIN m.exports : i # j => m.exports[i].name # m.exports[j].name
    /\ m.start # -1 => IsFunction(m, m.start) /\ Functions(m)[m.start + 1] = 0
    /\ \A i \in DOMAIN m.data : m.memories # << >>
    /\ \A i \in DOMAIN m.elements : m.tables # << >> /\ \A e \in m.elements[i] : IsFunction(m, e)

ValidateDefinitions ==
    /\ phase = "defining"
    /\ phase' = IF validateDefinitions(module) THEN "constraining" ELSE "rejected"
    /\ UNCHANGED <<same, code, stack, control, machine>>

\* nested_validator: a structure counts one, an end takes one off when there is one, and counts
\* one otherwise, as the last end of a body does.  Of one body: the count goes on in the next one,
\* which starts at one after the last end of the first.
NestedDepth(c) ==
    LET depth[n \in 0 .. Len(c)] ==
            IF n = 0 THEN 0
            ELSE IF Opens(c[n]) \/ c[n].name = "else" \/ (c[n].name = "end" /\ depth[n - 1] = 0) THEN depth[n - 1] + 1
            ELSE IF c[n].name = "end" THEN depth[n - 1] - 1 ELSE depth[n - 1]
    IN  depth

NestingAllowed(c) == \A n \in DOMAIN c : NestedDepth(c)[n] < MaxDepth

memories_validation(m) == m.memories # << >> => m.memories[1].min <= MaxMemory
data_segments_validation(m) == \A i \in DOMAIN m.data : m.data[i].offset + m.data[i].size <= MaxInit
tables_validation(m) == m.tables # << >> => m.tables[1] <= MaxElements
globals_validation(m) == m.globals <= MaxGlobals            \* bytes of mutable globals
maximum_function_stack(m) == m.locals <= MaxLocals          \* bytes of parameters and locals
ensure_apply_exported(m) ==
    \E i \in DOMAIN m.exports : m.exports[i].name = "apply" /\ Functions(m)[m.exports[i].index + 1] = 1

\* wasm_binary_validation::validate, then the link against the intrinsics.
Constrain ==
    /\ phase = "constraining"
    /\ phase' = IF /\ memories_validation(module) /\ data_segments_validation(module) /\ tables_validation(module)
                   /\ globals_validation(module) /\ maximum_function_stack(module) /\ ensure_apply_exported(module)
                   /\ producing => NestingAllowed(code)
                THEN "linked" ELSE "rejected"
    /\ UNCHANGED <<same, code, stack, control, machine>>

\* Segments must lie in the memory the module asks for.
parse_initial_memory(m) ==
    \A i \in DOMAIN m.data :
        LET size == m.memories[1].min * Page
        IN  m.data[i].offset < size /\ m.data[i].offset + m.data[i].size <= size

\* The runtime copies the segments, or throws; it finds apply and starts.
instantiate ==
    /\ phase = "linked"
    /\ phase' = IF module.data # << >> /\ module.memories = << >> THEN "fault"
                ELSE IF ~parse_initial_memory(module) THEN "trapped"
                ELSE IF \/ \E i \in DOMAIN module.elements : \E e \in module.elements[i] : ~IsFunction(module, e)
                        \/ module.start # -1 /\ ~IsFunction(module, module.start)
                        \/ \A i \in DOMAIN module.exports : module.exports[i].name # "apply"
                        \/ \E i \in DOMAIN module.exports : ~IsFunction(module, module.exports[i].index)
                THEN "fault" ELSE "running"
    /\ UNCHANGED <<same, code, stack, control, machine>>

-----------------------------------------------------------------------------
(* The machine.  A label is where a branch to it continues, what it takes, *)
(* and the height of the operands below it.                                *)

\* The matching else or end of the structure opened at p.
Depth(p, q) == LET f[i \in p .. q] == (IF i = p THEN 0 ELSE f[i - 1])
                                      + (IF Opens(code[i]) THEN 1 ELSE IF code[i].name = "end" THEN -1 ELSE 0)
               IN  f[q]
EndOf(p) == CHOOSE q \in p + 1 .. Len(code) : Depth(p, q) = 0 /\ \A r \in p + 1 .. q - 1 : Depth(p, r) > 0
ElseOf(p) ==
    LET E == {q \in p + 1 .. EndOf(p) - 1 : code[q].name = "else" /\ Depth(p, q) = 1} IN
    IF E = {} THEN EndOf(p) ELSE CHOOSE q \in E : TRUE

Goes(m) == machine' = m /\ phase' = "running" /\ UNCHANGED <<same, code, stack, control>>
Stops(how) == phase' = how /\ UNCHANGED <<same, code, stack, control, machine>>

Height == machine.labels[Len(machine.labels)].height
\* The last operands are of these types, last first, and all belong to the innermost structure.
Has(types) ==
    /\ Len(machine.operands) - Len(types) >= Height
    /\ \A i \in DOMAIN types : machine.operands[Len(machine.operands) + 1 - i] = types[i]
Popped(n) == SubSeq(machine.operands, 1, Len(machine.operands) - n)
Values(type) == IF type = None THEN << >> ELSE <<type>>

\* Leaves n labels and continues at the target of the last.
BranchTo(n, popped) ==
    LET ls == machine.labels
        l  == ls[Len(ls) - n]
        ops == SubSeq(machine.operands, 1, Len(machine.operands) - popped)
        takes == Values(l.takes)
        rest == SubSeq(ls, 1, Len(ls) - n - 1)
    IN  IF ~Has((IF popped = 1 THEN <<"i32">> ELSE << >>) \o takes) THEN Stops("fault")
        ELSE IF rest = << >> THEN Stops("returned")
        ELSE Goes([pc |-> l.target, labels |-> IF l.loop THEN Append(rest, l) ELSE rest,
                   operands |-> SubSeq(ops, 1, l.height) \o takes])

Enter(o, pc, ops) ==
    Goes([pc |-> pc, operands |-> ops,
          labels |-> Append(machine.labels,
              [loop |-> o.name = "loop", takes |-> IF o.name = "loop" THEN None ELSE o.type,
               yields |-> o.type, height |-> Len(ops),
               target |-> IF o.name = "loop" THEN machine.pc + 1 ELSE EndOf(machine.pc) + 1])])

step ==
    /\ phase = "running"
    /\ LET o == code[machine.pc]
           next == [machine EXCEPT !.pc = @ + 1]
           label == machine.labels[Len(machine.labels)]
           inner == SubSeq(machine.labels, 1, Len(machine.labels) - 1)
       IN  CASE o.name \in {"block", "loop"} -> Enter(o, machine.pc + 1, machine.operands)
             [] o.name = "if" ->
                    IF ~Has(<<"i32">>) THEN Stops("fault")
                    ELSE \/ Enter(o, machine.pc + 1, Popped(1))
                         \/ IF code[ElseOf(machine.pc)].name = "else"
                            THEN Enter(o, ElseOf(machine.pc) + 1, Popped(1))
                            ELSE Goes([next EXCEPT !.pc = EndOf(machine.pc) + 1, !.operands = Popped(1)])
             [] o.name \in {"end", "else"} ->      \* falls out of the structure
                    IF ~Has(Values(label.yields)) \/ Len(machine.operands) # label.height + Len(Values(label.yields))
                    THEN Stops("fault")
                    ELSE IF inner = << >> THEN Stops("returned")
                    ELSE Goes([machine EXCEPT !.labels = inner,
                                              !.pc = IF o.name = "else" THEN label.target ELSE @ + 1])
             [] o.name = "return" -> BranchTo(Len(machine.labels) - 1, 0)
             [] o.name = "br" -> BranchTo(o.depth, 0)
             [] o.name = "br_if" ->
                    IF ~Has(<<"i32">>) THEN Stops("fault")
                    ELSE BranchTo(o.depth, 1) \/ Goes([next EXCEPT !.operands = Popped(1)])
             [] o.name = "br_table" ->
                    IF ~Has(<<"i32">>) THEN Stops("fault")
                    ELSE \E d \in {o.depth} \cup {o.depths[i] : i \in DOMAIN o.depths} : BranchTo(d, 1)
             [] o.name = "unreachable" -> Stops("trapped")
             [] o.name = "drop" -> IF Len(machine.operands) > Height THEN Goes([next EXCEPT !.operands = Popped(1)])
                                   ELSE Stops("fault")
             [] o.name = "select" ->
                    IF Len(machine.operands) - 3 >= Height /\ Has(<<"i32">>)
                       /\ machine.operands[Len(machine.operands) - 1] = machine.operands[Len(machine.operands) - 2]
                    THEN Goes([next EXCEPT !.operands = Popped(2)]) ELSE Stops("fault")
             [] OTHER ->
                    IF ~Has(Takes(o.name)) THEN Stops("fault")
                    ELSE Goes([next EXCEPT !.operands = Append(Popped(Len(Takes(o.name))), Leaves(o.name))])

-----------------------------------------------------------------------------
ValidationInit ==
    /\ module \in Modules /\ producing \in BOOLEAN
    /\ code = << >> /\ stack = << >> /\ phase = "reading"
    /\ control = <<[type |-> "function", outerStackSize |-> 0, branchArgumentType |-> Ret, resultType |-> Ret,
                    isReachable |-> TRUE]>>
    /\ machine = [pc |-> 1, operands |-> << >>,
                  labels |-> <<[loop |-> FALSE, takes |-> Ret, yields |-> Ret, height |-> 0, target |-> 0]>>]

ValidationNext == (\E o \in Upcoming : decodeOp(o)) \/ ValidateDefinitions \/ Constrain \/ instantiate \/ step

ValidationSpec == ValidationInit /\ [][ValidationNext]_validation_vars

-----------------------------------------------------------------------------
\* A module that was accepted finds every function its exports, tables and start name, and its
\* body never takes an operand that is not there, that belongs to an enclosing
\* structure, or that is of another type, and leaves every structure with exactly its result,
\* whichever branches it takes, code after unconditional branches included.
ValidatedRuns == phase # "fault"

\* Code is refused for its nesting only if structures are nested that deep in it.  The code does not
\* keep this: an if with an else counts two and its end takes one off (with MaxDepth = 2).
Nesting(c) == LET d[n \in 0 .. Len(c)] ==
                      IF n = 0 THEN 0 ELSE d[n - 1] + (IF Opens(c[n]) THEN 1 ELSE IF c[n].name = "end" THEN -1 ELSE 0)
              IN  d
NestingHonest ==
    phase = "constraining" => NestingAllowed(code) \/ \E n \in DOMAIN code : Nesting(code)[n] >= MaxDepth
=============================================================================
