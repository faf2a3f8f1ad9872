--------------------------- MODULE AbiSerializer ---------------------------
(***************************************************************************)
(* abi_serializer: the definitions of a contract (abi_def) are loaded into *)
(* maps and validated, then values are packed into bytes and unpacked by   *)
(* following the definitions.                                              *)
(*                                                                         *)
(* A type is the sequence of its name and its suffixes, the last first to  *)
(* be looked at: <<"P">>, <<"P", "[]">>, <<"u8", "?">>, <<"P", "$">>.      *)
(* A value (fc::variant) is a tuple of its kind and content: <<"null">>,   *)
(* <<"int", n>>, <<"str", text>>, <<"arr", sequence>>, <<"obj", function>>.*)
(* The built-in types stand for a number of one byte, "u8", and a text of  *)
(* any length, "text"; a byte is a small number.                           *)
(* An operation yields <<"ok", result, ...>> or <<"err", kind, path>>.     *)
(***************************************************************************)
EXTENDS Integers, Sequences, FiniteSets

CONSTANTS
    Abis,           \* the abi_defs given to set_abi
    Names,          \* types asked for, defined or not
    Values,         \* values given to variant_to_binary
    Streams,        \* bytes given to binary_to_variant
    MaxDepth,       \* max_recursion_depth
    MaxPacked       \* the size of the buffer variant_to_binary packs into

VARIABLES
    ser,            \* the serializer: its maps, or none when the constructor threw
    job             \* the last conversion and its result

vars == <<ser, job>>

NoType == << >>
BuiltIns == {<<"u8">>, <<"text">>}

Last(s) == s[Len(s)]
Front(s) == SubSeq(s, 1, Len(s) - 1)
ends_with(t, suffix) == Len(t) > 1 /\ Last(t) = suffix

is_array(t) == ends_with(t, "[]")
is_optional(t) == ends_with(t, "?")
is_extension(t) == ends_with(t, "$")

fundamental_type(t) == IF is_array(t) \/ is_optional(t) THEN Front(t) ELSE t
_remove_bin_extension(t) == IF is_extension(t) THEN Front(t) ELSE t

-----------------------------------------------------------------------------
(* Types and the validation of an abi *)

\* A type name that is never found ends the walk after as many steps as there are typedefs.
RECURSIVE Walk(_, _, _)
Walk(s, t, n) ==
    IF n = 0 THEN NoType
    ELSE IF s.typedefs[t] \notin DOMAIN s.typedefs THEN s.typedefs[t]
    ELSE Walk(s, s.typedefs[t], n - 1)

resolve_type(s, t) ==
    IF t \notin DOMAIN s.typedefs THEN t
    ELSE LET end == Walk(s, t, Cardinality(DOMAIN s.typedefs)) IN IF end = NoType THEN t ELSE end

\* enter_scope: one level further down, unless the yield function throws.
too_deep(depth) == depth + 1 >= MaxDepth

RECURSIVE _is_type(_, _, _)
_is_type(s, t, depth) ==
    LET type == fundamental_type(t)
    IN  IF too_deep(depth) THEN "deep"
        ELSE IF type \in BuiltIns THEN "yes"
        ELSE IF type \in DOMAIN s.typedefs THEN _is_type(s, s.typedefs[type], depth + 1)
        ELSE IF type \in DOMAIN s.structs \cup DOMAIN s.variants THEN "yes" ELSE "no"

\* The last of the entries with a name is the one kept.
LastWins(entries, key(_), value(_)) ==
    [k \in {key(entries[i]) : i \in DOMAIN entries} |->
        value(entries[CHOOSE i \in DOMAIN entries :
            key(entries[i]) = k /\ \A j \in DOMAIN entries : key(entries[j]) = k => j <= i])]

NameOf(e) == e.name
TypeOf(e) == e.type
Itself(e) == e

\* typedefs are added one by one; a name that is a type by then is refused.
RECURSIVE AddTypes(_, _, _)
AddTypes(s, types, i) ==
    IF i > Len(types) THEN [ok |-> TRUE, s |-> s]
    ELSE IF _is_type(s, types[i].name, 0) # "no" THEN [ok |-> FALSE, s |-> s]
    ELSE AddTypes([s EXCEPT !.typedefs = [t \in DOMAIN @ \cup {types[i].name} |->
                      IF t = types[i].name THEN types[i].type ELSE @[t]]], types, i + 1)

\* A chain of typedefs that comes back to one it has passed.
RECURSIVE Circles(_, _, _)
Circles(s, t, seen) ==
    /\ t \in DOMAIN s.typedefs
    /\ s.typedefs[t] \in seen \/ Circles(s, s.typedefs[t], seen \cup {s.typedefs[t]})

\* Following the bases of a struct meets structs only, and none twice.
RECURSIVE Derives(_, _, _)
Derives(s, st, seen) ==
    LET base == resolve_type(s, st.base)
    IN  \/ st.base = NoType
        \/ /\ base \in DOMAIN s.structs
           /\ s.structs[base].name \notin seen
           /\ Derives(s, s.structs[base], seen \cup {s.structs[base].name})

\* The types the definitions mention.
Mentioned(s) ==
    {s.typedefs[t] : t \in DOMAIN s.typedefs}
    \cup UNION {{_remove_bin_extension(s.structs[n].fields[i].type) : i \in DOMAIN s.structs[n].fields} :
                   n \in DOMAIN s.structs}
    \cup UNION {{s.variants[n].types[i] : i \in DOMAIN s.variants[n].types} : n \in DOMAIN s.variants}
    \cup {s.actions[n] : n \in DOMAIN s.actions}
    \cup {s.tables[n] : n \in DOMAIN s.tables}


validate(s) ==
    /\ \A t \in DOMAIN s.typedefs : ~Circles(s, s.typedefs[t], {t, s.typedefs[t]})
    /\ \A n \in DOMAIN s.structs : Derives(s, s.structs[n], {s.structs[n].name})
    /\ \A t \in Mentioned(s) : _is_type(s, t, 0) = "yes"

Cleared == [typedefs |-> << >>, structs |-> << >>, actions |-> << >>, tables |-> << >>, variants |-> << >>]

\* Every entry has a place of its own in its map, or an entry is defined twice.
Filled(s, abi) ==
    LET Distinct(map, entries) == Cardinality(DOMAIN map) = Len(entries)
    IN  /\ Distinct(s.typedefs, abi.types) /\ Distinct(s.structs, abi.structs)
        /\ Distinct(s.actions, abi.actions) /\ Distinct(s.tables, abi.tables)
        /\ Distinct(s.variants, abi.variants)

Complete(abi, typed) ==
    [typed EXCEPT !.s.actions = LastWins(abi.actions, NameOf, TypeOf),
                  !.s.tables = LastWins(abi.tables, NameOf, TypeOf),
                  !.s.variants = LastWins(abi.variants, NameOf, Itself)]

Checked(abi, typed) == [ok |-> typed.ok /\ Filled(typed.s, abi) /\ validate(typed.s), s |-> typed.s]

\* The maps and whether set_abi returned.
set_abi(abi) ==
    IF ~abi.version_1 THEN [ok |-> FALSE, s |-> Cleared]
    ELSE Checked(abi, Complete(abi,
             AddTypes([Cleared EXCEPT !.structs = LastWins(abi.structs, NameOf, Itself)], abi.types, 1)))

-----------------------------------------------------------------------------
(* Where in a value a conversion is: what its error messages name *)

Err(kind, path) == <<"err", kind, path>>
Ok(result) == <<"ok", result>>
IsOk(r) == r[1] = "ok"

set_path_root(s, t) ==
    LET type == resolve_type(s, t)
    IN  IF is_array(type) THEN <<"array">>
        ELSE IF type \in DOMAIN s.structs THEN <<"struct", type>>
        ELSE IF type \in DOMAIN s.variants THEN <<"variant", type>>
        ELSE <<"empty">>

\* hint_array_type_if_in_array and its likes.
hint_if_in_array(path, hint) ==
    IF path # << >> /\ Last(path)[1] = "index" THEN [path EXCEPT ![Len(path)][3] = hint] ELSE path

set_array_index_of_path_back(path, i) == [path EXCEPT ![Len(path)][2] = i]

\* The struct a chain of bases ends in: the last to leave its hint.
RECURSIVE RootBase(_, _)
RootBase(s, n) == IF s.structs[n].base = NoType THEN n ELSE RootBase(s, resolve_type(s, s.structs[n].base))

\* The type a short path names: that of its last item.
path_item_type(s, item) ==
    CASE item[1] = "index"   -> item[3]
      [] item[1] = "field"   -> <<"type", s.structs[item[2]].fields[item[3]].type>>
      [] item[1] = "variant" -> <<"type", s.variants[item[2]].types[item[3]]>>

get_path_string(s, t, path, short_path) ==
    IF ~short_path THEN <<set_path_root(s, t)>> \o path
    ELSE IF path = << >> THEN <<set_path_root(s, t)>> ELSE <<path_item_type(s, Last(path))>>

-----------------------------------------------------------------------------
(* Values to bytes *)

\* as<T>() and pack of a built-in type.
PackOne(type, v) ==
    CASE type = <<"u8">> /\ v[1] = "int"   -> Ok(<<v[2]>>)
      [] type = <<"text">> /\ v[1] = "str" -> Ok(<<Len(v[2])>> \o v[2])
      [] OTHER -> Err("bad_cast", << >>)

RECURSIVE PackEach(_, _, _, _)
PackEach(type, vs, i, bytes) ==
    IF i > Len(vs) THEN Ok(bytes)
    ELSE IF ~IsOk(PackOne(type, vs[i])) THEN Err("bad_cast", << >>)
    ELSE PackEach(type, vs, i + 1, bytes \o PackOne(type, vs[i])[2])

pack_function(rtype, v) ==
    LET type == fundamental_type(rtype)
    IN  CASE is_array(rtype) -> IF v[1] = "arr" THEN PackEach(type, v[2], 1, <<Len(v[2])>>)
                                ELSE Err("bad_cast", << >>)
          [] is_optional(rtype) -> IF v[1] = "null" THEN Ok(<<0>>) ELSE PackEach(type, <<v>>, 1, <<1>>)
          [] OTHER -> PackOne(type, v)

RECURSIVE Pack(_, _, _, _, _, _)

\* Extensions may be left out in the middle of an array.
RECURSIVE PackItems(_, _, _, _, _, _, _)
\* The elements of an array, one by one; none of them may leave out extensions.
PackItems(s, type, vs, i, depth, path, bytes) ==
    LET Then(one) == IF IsOk(one) THEN PackItems(s, type, vs, i + 1, depth, path, bytes \o one[2]) ELSE one
    IN  IF i > Len(vs) THEN Ok(bytes)
        ELSE Then(Pack(s, type, vs[i], FALSE, depth, set_array_index_of_path_back(path, i)))

\* The fields of a struct from an object: once an extension is left out nothing may follow.
RECURSIVE PackFields(_, _, _, _, _, _, _, _, _)
PackFields(s, n, vo, i, left_out, ext, depth, path, bytes) ==
    LET fields == s.structs[n].fields
        Then(one) == IF IsOk(one) THEN PackFields(s, n, vo, i + 1, left_out, ext, depth, path, bytes \o one[2])
                     ELSE one
    IN  IF i > Len(fields) THEN Ok(bytes)
        ELSE IF fields[i].name \in DOMAIN vo
        THEN IF left_out THEN Err("unexpected_field", path)
             ELSE Then(Pack(s, _remove_bin_extension(fields[i].type), vo[fields[i].name],
                            ext /\ i = Len(fields), depth, Append(path, <<"field", n, i>>)))
        ELSE IF is_extension(fields[i].type) /\ ext
        THEN PackFields(s, n, vo, i + 1, TRUE, ext, depth, path, bytes)
        ELSE Err(IF left_out THEN "abi_exception" ELSE "missing_field", path)

\* The fields of a struct from an array, which may stop where only extensions follow.
RECURSIVE PackPositions(_, _, _, _, _, _, _, _)
PackPositions(s, n, va, i, ext, depth, path, bytes) ==
    LET fields == s.structs[n].fields
        Then(one) == IF IsOk(one) THEN PackPositions(s, n, va, i + 1, ext, depth, path, bytes \o one[2])
                     ELSE one
    IN  IF i > Len(fields) THEN Ok(bytes)
        ELSE IF Len(va) >= i
        THEN Then(Pack(s, _remove_bin_extension(fields[i].type), va[i],
                       ext /\ i = Len(fields), depth, Append(path, <<"field", n, i>>)))
        ELSE IF is_extension(fields[i].type) /\ ext THEN Ok(bytes)
        ELSE Err("missing_field", path)

PackStruct(s, n, v, ext, depth, path) ==
    LET st == s.structs[n]
        hinted == hint_if_in_array(path, <<"struct", n>>)
        after == hint_if_in_array(path, <<"struct", RootBase(s, n)>>)
        Then(base) == IF IsOk(base) THEN PackFields(s, n, v[2], 1, FALSE, ext, depth, after, base[2]) ELSE base
    IN  CASE v[1] = "obj" -> Then(IF st.base = NoType THEN Ok(<< >>)
                                  ELSE Pack(s, resolve_type(s, st.base), v, FALSE, depth, hinted))
          [] v[1] = "arr" -> IF st.base = NoType THEN PackPositions(s, n, v[2], 1, ext, depth, hinted, << >>)
                             ELSE Err("array_for_derived", hinted)
          [] OTHER -> Err("bad_cast", hinted)

PackVariant(s, n, v, ext, depth, path) ==
    LET types == s.variants[n].types
        hinted == hint_if_in_array(path, <<"variant", n>>)
        At(i) == Pack(s, types[i], v[2][2], ext, depth, Append(hinted, <<"variant", n, i>>))
        Tagged(i, one) == IF IsOk(one) THEN Ok(<<i - 1>> \o one[2]) ELSE one
        First(places) == CHOOSE i \in places : \A j \in places : i <= j
        places == {i \in DOMAIN types : v[1] = "arr" /\ Len(v[2]) = 2 /\ v[2][1] = <<"type", types[i]>>}
    IN  IF places = {} THEN Err("bad_variant", hinted) ELSE Tagged(First(places), At(First(places)))

\* _variant_to_binary, with the stream it appends to.
_variant_to_binary(s, t, v, ext, depth, path) ==
    LET rtype == resolve_type(s, t)
        type == fundamental_type(rtype)
        Prefix(byte, one) == IF IsOk(one) THEN Ok(<<byte>> \o one[2]) ELSE one
    IN  IF too_deep(depth) THEN Err("deep", path)
        ELSE IF type \in BuiltIns THEN pack_function(rtype, v)
        ELSE IF is_array(rtype)
        THEN IF v[1] # "arr" THEN Err("bad_cast", path)
             ELSE PackItems(s, type, v[2], 1, depth + 1,
                            Append(hint_if_in_array(path, <<"array">>), <<"index", 0, <<"empty">>>>), <<Len(v[2])>>)
        ELSE IF is_optional(rtype)
        THEN IF v[1] = "null" THEN Ok(<<0>>) ELSE Prefix(1, Pack(s, type, v, ext, depth + 1, path))
        ELSE IF rtype \in DOMAIN s.variants THEN PackVariant(s, rtype, v, ext, depth + 1, path)
        ELSE IF rtype \in DOMAIN s.structs THEN PackStruct(s, rtype, v, ext, depth + 1, path)
        ELSE Err("invalid_type_inside_abi", path)
Pack(s, t, v, ext, depth, path) == _variant_to_binary(s, t, v, ext, depth, path)

\* Into a buffer of fixed size; the value of a type nobody defined is its bytes.
variant_to_binary(s, t, v, depth) ==
    LET Fits(r) == IF IsOk(r) /\ Len(r[2]) > MaxPacked THEN Err("datastream", << >>) ELSE r
    IN  IF too_deep(depth) \/ _is_type(s, t, depth + 1) = "deep" THEN Err("deep", << >>)
        ELSE IF _is_type(s, t, depth + 1) = "no" THEN IF v[1] = "str" THEN Ok(v[2]) ELSE Err("bad_cast", << >>)
        ELSE Fits(Pack(s, t, v, TRUE, depth + 1, << >>))

-----------------------------------------------------------------------------
(* Bytes to values *)

Read(value, rest) == <<"ok", value, rest>>

\* variant_from_stream of a built-in type.
UnpackOne(type, in) ==
    CASE in = << >> -> Err("unpack", << >>)
      [] in # << >> /\ type = <<"u8">> -> Read(<<"int", Head(in)>>, Tail(in))
      [] OTHER -> IF Len(in) <= in[1] THEN Err("unpack", << >>)
                  ELSE Read(<<"str", SubSeq(in, 2, in[1] + 1)>>, SubSeq(in, in[1] + 2, Len(in)))

RECURSIVE UnpackEach(_, _, _, _)
UnpackEach(type, in, n, vs) ==
    LET Then(one) == IF IsOk(one) THEN UnpackEach(type, one[3], n - 1, Append(vs, one[2])) ELSE one
    IN  IF n = 0 THEN Read(<<"arr", vs>>, in) ELSE Then(UnpackOne(type, in))

unpack_function(rtype, in) ==
    LET type == fundamental_type(rtype)
    IN  IF ~is_array(rtype) /\ ~is_optional(rtype) THEN UnpackOne(type, in)
        ELSE IF in = << >> THEN Err("unpack", << >>)
        ELSE IF is_array(rtype) THEN UnpackEach(type, Tail(in), Head(in), << >>)
        ELSE IF in[1] = 0 THEN Read(<<"null">>, Tail(in))
        ELSE IF in[1] = 1 THEN UnpackOne(type, Tail(in))
        ELSE Err("unpack", << >>)

RECURSIVE Unpack(_, _, _, _, _)

RECURSIVE UnpackItems(_, _, _, _, _, _, _)
UnpackItems(s, type, in, n, depth, path, vs) ==
    LET Then(one) == IF ~IsOk(one) THEN one
                     ELSE IF one[2] = <<"null">> THEN Err("null_in_array", path)
                     ELSE UnpackItems(s, type, one[3], n - 1, depth, path, Append(vs, one[2]))
    IN  IF n = 0 THEN Read(<<"arr", vs>>, in)
        ELSE Then(Unpack(s, type, in, depth, set_array_index_of_path_back(path, Len(vs) + 1)))

With(obj, name, value) == [k \in DOMAIN obj \cup {name} |-> IF k = name THEN value ELSE obj[k]]

\* When the stream ends every extension that follows is left out.
RECURSIVE UnpackFields(_, _, _, _, _, _, _, _)
UnpackFields(s, n, in, i, seen, depth, path, obj) ==
    LET fields == s.structs[n].fields
        extension == is_extension(fields[i].type)
        Then(one) == IF IsOk(one)
                     THEN UnpackFields(s, n, one[3], i + 1, seen \/ extension, depth, path, With(obj, fields[i].name, one[2]))
                     ELSE one
    IN  IF i > Len(fields) THEN Read(obj, in)
        ELSE IF in # << >>
        THEN Then(Unpack(s, resolve_type(s, _remove_bin_extension(fields[i].type)), in, depth,
                         Append(path, <<"field", n, i>>)))
        ELSE IF extension THEN UnpackFields(s, n, in, i + 1, TRUE, depth, path, obj)
        ELSE Err(IF seen THEN "abi_exception" ELSE "unpack", path)

\* The members of a struct and, before them, those of its bases.
RECURSIVE UnpackStruct(_, _, _, _, _)
UnpackStruct(s, n, in, depth, path) ==
    LET hinted == hint_if_in_array(path, <<"struct", n>>)
        after == hint_if_in_array(path, <<"struct", RootBase(s, n)>>)
        Then(base) == IF IsOk(base) THEN UnpackFields(s, n, base[3], 1, FALSE, depth + 1, after, base[2]) ELSE base
    IN  IF too_deep(depth) THEN Err("deep", path)
        ELSE IF n \notin DOMAIN s.structs THEN Err("invalid_type_inside_abi", path)
        ELSE Then(IF s.structs[n].base = NoType THEN Read(<< >>, in)
                  ELSE UnpackStruct(s, resolve_type(s, s.structs[n].base), in, depth + 1, hinted))

UnpackVariant(s, n, in, depth, path) ==
    LET types == s.variants[n].types
        hinted == hint_if_in_array(path, <<"variant", n>>)
        tag == in[1] + 1
        Then(one) == IF IsOk(one) THEN Read(<<"arr", <<<<"type", types[tag]>>, one[2]>>>>, one[3]) ELSE one
    IN  IF in = << >> \/ tag > Len(types) THEN Err("unpack", hinted)
        ELSE Then(Unpack(s, types[tag], Tail(in), depth, Append(hinted, <<"variant", n, tag>>)))

_binary_to_variant(s, t, in, depth, path) ==
    LET rtype == resolve_type(s, t)
        type == fundamental_type(rtype)
        AtPath(r) == IF IsOk(r) THEN r ELSE Err("unpack", path)
        Object(r) == IF ~IsOk(r) THEN r
                     ELSE IF DOMAIN r[2] = {} THEN Err("empty_struct", path)
                     ELSE Read(<<"obj", r[2]>>, r[3])
    IN  IF too_deep(depth) THEN Err("deep", path)
        ELSE IF type \in BuiltIns THEN AtPath(unpack_function(rtype, in))
        ELSE IF is_array(rtype)
        THEN IF in = << >> THEN Err("unpack", path)
             ELSE UnpackItems(s, type, Tail(in), Head(in), depth + 1,
                              Append(hint_if_in_array(path, <<"array">>), <<"index", 0, <<"empty">>>>), << >>)
        ELSE IF is_optional(rtype)
        THEN IF in = << >> THEN Err("unpack", path)
             ELSE IF in[1] = 0 THEN Read(<<"null">>, Tail(in)) ELSE Unpack(s, type, Tail(in), depth + 1, path)
        ELSE IF rtype \in DOMAIN s.variants THEN UnpackVariant(s, rtype, in, depth + 1, path)
        ELSE Object(UnpackStruct(s, rtype, in, depth + 1, path))
Unpack(s, t, in, depth, path) == _binary_to_variant(s, t, in, depth, path)

binary_to_variant(s, t, in, depth) ==
    IF too_deep(depth) THEN Err("deep", << >>) ELSE Unpack(s, t, in, depth + 1, << >>)

-----------------------------------------------------------------------------
(* Actions inside transactions and blocks: their data is shown by the abi *)
(* of the account, or in hex when that fails for whatever reason.         *)

Hex(bytes) == <<"hex", bytes>>

\* How far down abi_to_variant::add is when it meets an action of the thing shown.
levels(kind) == CASE kind = "action" -> 0 [] kind = "transaction" -> 2
                  [] kind = "packed_transaction" -> 3 [] kind = "signed_block" -> 7

\* add for an action.  The time may run out inside, which is a failure like any other.
add_action(s, act, depth, in_time) ==
    LET plain == [data |-> Hex(act.data), hex_data |-> FALSE]
        Shown(r) == IF IsOk(r) /\ in_time THEN [data |-> r[2], hex_data |-> TRUE] ELSE plain
    IN  IF act.name \in DOMAIN s.actions
        THEN Shown(binary_to_variant(s, s.actions[act.name], act.data, depth + 1))
        ELSE plain

to_variant(s, kind, act, in_time) ==
    IF too_deep(levels(kind)) THEN Err("deep", << >>) ELSE Ok(add_action(s, act, levels(kind), in_time))

\* A data string is hex already; only an object is packed by the abi; failing that hex_data counts.
extract_action(s, name, shown, raw, depth) ==
    LET known == name \in DOMAIN s.actions
        Packed(r) == IF ~IsOk(r) THEN r ELSE IF r[2] # << >> THEN r ELSE Ok(<< >>)
        fallback == IF shown.hex_data /\ raw # << >> THEN Ok(raw) ELSE Err("packed_transaction_type", << >>)
    IN  CASE too_deep(depth) -> Err("deep", << >>)
          [] ~too_deep(depth) /\ shown.data[1] = "hex" -> Ok(shown.data[2])
          [] ~too_deep(depth) /\ shown.data[1] = "str" -> Err("not_hex", << >>)
          [] ~too_deep(depth) /\ shown.data[1] = "obj" /\ known ->
                 Packed(variant_to_binary(s, s.actions[name], shown.data, depth + 1))
          [] OTHER -> fallback

-----------------------------------------------------------------------------
NoJob == [op |-> "none"]

Init == ser = [ok |-> FALSE, s |-> Cleared] /\ job = NoJob

\* The constructor: an abi that set_abi refuses leaves no serializer.
abi_serializer(abi) ==
    /\ ~ser.ok /\ job = NoJob
    /\ ser' = set_abi(abi)
    /\ UNCHANGED job

Asked(record) == ser.ok /\ job = NoJob /\ job' = record /\ UNCHANGED ser

PackValue(t, v) ==
    Asked([op |-> "pack", type |-> t, result |-> variant_to_binary(ser.s, t, v, 0)])

UnpackStream(t, in) ==
    Asked([op |-> "unpack", type |-> t, result |-> binary_to_variant(ser.s, t, in, 0)])

ShowAction(kind, act, in_time) ==
    Asked([op |-> "show", act |-> act, kind |-> kind, result |-> to_variant(ser.s, kind, act, in_time)])

Next ==
    \/ \E abi \in Abis : abi_serializer(abi)
    \/ \E t \in Names, v \in Values : PackValue(t, v)
    \/ \E t \in Names, in \in Streams : UnpackStream(t, in)
    \/ \E kind \in {"action", "transaction", "packed_transaction", "signed_block"}, name \in {"x", "y", "z"},
          in \in Streams, in_time \in BOOLEAN : ShowAction(kind, [name |-> name, data |-> in], in_time)

Spec == Init /\ [][Next]_vars

-----------------------------------------------------------------------------
Failed(kinds) == job.op \in {"pack", "unpack"} /\ ~IsOk(job.result) /\ job.result[2] \in kinds

\* validate is complete: under an abi it accepted, no conversion of a type that is_type knows
\* meets a definition that is not there.
DefinitionsComplete ==
    Failed({"invalid_type_inside_abi"}) => _is_type(ser.s, job.type, 0) # "yes"

\* What variant_to_binary packed, binary_to_variant reads to the last byte, and packing what was
\* read gives the bytes again, wherever extensions were left out.  Three kinds of value are the
\* exception, each refused when it is read: an empty struct and an empty optional in an array
\* (the two QUESTIONs of _binary_to_variant), and nesting near max_recursion_depth, because
\* reading a struct enters one scope more than writing it.
PackedReadsBack ==
    (job.op = "pack" /\ IsOk(job.result) /\ _is_type(ser.s, job.type, 0) = "yes") =>
        LET back == binary_to_variant(ser.s, job.type, job.result[2], 0)
            again(r) == r[3] = << >> /\ variant_to_binary(ser.s, job.type, r[2], 0) = job.result
        IN  IF IsOk(back) THEN again(back) ELSE back[2] \in {"empty_struct", "null_in_array", "deep"}

\* A value that was read is stable: packing it fails or gives bytes that are read as that value.
ReadIsStable ==
    (job.op = "unpack" /\ IsOk(job.result)) =>
        LET packed == variant_to_binary(ser.s, job.type, job.result[2], 0)
            same(r) == IsOk(r) /\ r[2] = job.result[2]
        IN  ~IsOk(packed) \/ same(binary_to_variant(ser.s, job.type, packed[2], 0))

\* The path in an error leads from the type asked for to a place in the abi, one definition after
\* the other, each item belonging to the type the item before it names or to a base of it; and
\* the short form names the type at that place or a base of it.
RECURSIVE IsOrDerives(_, _, _)
IsOrDerives(s, n, m) ==
    \/ n = m
    \/ /\ n \in DOMAIN s.structs /\ s.structs[n].base # NoType
       /\ IsOrDerives(s, resolve_type(s, s.structs[n].base), m)
RECURSIVE Bare(_, _)
Bare(s, t) == LET r == resolve_type(s, t) IN IF is_optional(r) THEN Bare(s, fundamental_type(r)) ELSE r
RECURSIVE TypeAt(_, _, _, _)
TypeAt(s, t, path, i) ==
    LET item == path[i]
        r == Bare(s, _remove_bin_extension(t))
    IN  IF i > Len(path) THEN t
        ELSE IF item[1] = "index" /\ is_array(r) THEN TypeAt(s, fundamental_type(r), path, i + 1)
        ELSE IF item[1] = "field" /\ IsOrDerives(s, r, item[2])
        THEN TypeAt(s, s.structs[item[2]].fields[item[3]].type, path, i + 1)
        ELSE IF item[1] = "variant" /\ r = item[2] THEN TypeAt(s, s.variants[item[2]].types[item[3]], path, i + 1)
        ELSE NoType
NamesType(s, short, t) ==
    CASE short[1] = "type"  -> short[2] = t
      [] short[1] = "array" -> is_array(Bare(s, _remove_bin_extension(t)))
      [] short[1] \in {"struct", "variant"} -> IsOrDerives(s, Bare(s, _remove_bin_extension(t)), short[2])
      [] OTHER -> TRUE
PathLeads ==
    (job.op \in {"pack", "unpack"} /\ ~IsOk(job.result)) =>
        LET full == get_path_string(ser.s, job.type, job.result[3], FALSE)
            short == get_path_string(ser.s, job.type, job.result[3], TRUE)
            place == TypeAt(ser.s, job.type, Tail(full), 1)
        IN  place # NoType /\ NamesType(ser.s, short[1], place)

\* An action that was shown in fields and is read in again by the same abi is shown the same way;
\* one shown in hex, or whose data is neither object nor text, has the data it had.  (from_variant
\* takes a text for hex, so an action whose type is a text is not read in again.)
ActionReadsBack ==
    (job.op = "show" /\ IsOk(job.result)) =>
        LET back == extract_action(ser.s, job.act.name, job.result[2], job.act.data, levels(job.kind))
            shown == job.result[2].data
            same(r) == IsOk(r) /\ r[2] = shown
        IN  CASE shown[1] = "str" -> TRUE
              [] shown[1] = "obj" -> IsOk(back) => same(binary_to_variant(ser.s, ser.s.actions[job.act.name], back[2], 0))
              [] OTHER -> back = Ok(job.act.data)
=============================================================================
