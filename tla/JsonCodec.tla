------------------------------ MODULE JsonCodec ------------------------------
(***************************************************************************)
(* Structures to JSON and back (json/encode.c, json/decode.c), and the     *)
(* listing of print/print.c, as functions of a descriptor, a memory and a  *)
(* JSON value.                                                             *)
(*                                                                         *)
(* The memory of a structure is the sequence of its fields, a field the    *)
(* sequence of its elements, an element a cell or again a structure.  A    *)
(* cell has a number, which for a text is its length, and a flag that is   *)
(* FALSE while nothing has been stored there since malloc: its number is   *)
(* then whatever the memory held, for a text maybe one without terminator. *)
(* Numbers count quarters: a float of module FloatNumbers holds halves, an *)
(* int or unsigned the multiples of 4.                                     *)
(***************************************************************************)
EXTENDS StructMeta, FloatNumbers, SequencesExt

CONSTANTS table,        \* the descriptors, all valid
          IntMax,       \* INT_MAX
          Saturates,    \* what conversions out of range do on the target
          SizeOf,       \* sizeof of the scalar kinds
          json_name, json_ignore, json_required   \* attribute keys

Unit == 4
IntMin == -IntMax - 1
UIntMax == 2 * IntMax + 1
Cell(v) == [known |-> TRUE, v |-> v]
Garbage(v) == [known |-> FALSE, v |-> v]

-----------------------------------------------------------------------------
\* JSON values as cJSON holds them; `known' follows the cell a value comes from.
Null == [type |-> "null"]
Number(c) == [type |-> "number", cell |-> c]
String(c) == [type |-> "string", cell |-> c]
Array(s) == [type |-> "array", items |-> s]
Object(ms) == [type |-> "object", members |-> ms]
Member(k, j) == [key |-> k, json |-> j]

\* What cJSON_Print and cJSON_Parse make of a value: NaN and the infinities are
\* printed as null.
RECURSIVE Printed(_)
Printed(j) ==
  CASE j.type = "number" -> IF Finite(j.cell.v) THEN j ELSE Null
    [] j.type = "array" -> Array([i \in DOMAIN j.items |-> Printed(j.items[i])])
    [] j.type = "object" ->
         Object([i \in DOMAIN j.members |->
                   Member(j.members[i].key, Printed(j.members[i].json))])
    [] OTHER -> j

HasItem(j, key) == \E i \in DOMAIN j.members : j.members[i].key = key
\* cJSON_GetObjectItemCaseSensitive: the first member of that key.
Item(j, key) ==
  j.members[CHOOSE i \in DOMAIN j.members :
              /\ j.members[i].key = key
              /\ \A k \in 1..(i - 1) : j.members[k].key # key].json

-----------------------------------------------------------------------------
find_attribute(f, key) == \E i \in DOMAIN f.keys : f.keys[i] = key
ValueOf(f, key) == f.values[CHOOSE i \in DOMAIN f.keys : f.keys[i] = key]

json_key(f) ==
  IF find_attribute(f, json_name) /\ ValueOf(f, json_name) # NoName
  THEN ValueOf(f, json_name) ELSE f.name

Single(f) == f.kind = "char_array" \/ f.element_count <= 1
Ok(x) == [ret |-> "OK", val |-> x]
Error(code, x) == [ret |-> code, val |-> x]
\* The first failure of a sequence of results, or the values of all.
AllOrFirst(rs, build(_)) ==
  IF \A i \in DOMAIN rs : rs[i].ret = "OK" THEN Ok(build([i \in DOMAIN rs |-> rs[i].val]))
  ELSE LET i == CHOOSE i \in DOMAIN rs : rs[i].ret # "OK" /\ \A k \in 1..(i - 1) : rs[k].ret = "OK"
       IN  Error(rs[i].ret, Null)

scalar_to_json(f, c) ==
  CASE f.kind = "char_array" -> Ok(String(c))
    [] f.element_size # SizeOf[f.kind] -> Error("UNSUPPORTED", Null)
    [] OTHER -> Ok(Number(c))

\* Without the failures of cJSON's allocations, which end the same way everywhere.
RECURSIVE struct_to_json(_, _)
element_to_json(f, e) ==
  IF f.kind = "struct" THEN struct_to_json(f.nested, e) ELSE scalar_to_json(f, e)
field_to_json(f, m) ==
  IF Single(f) THEN element_to_json(f, m[1])
  ELSE AllOrFirst([k \in 1..f.element_count |-> element_to_json(f, m[k])], Array)
struct_to_json(d, m) ==
  LET fs == table[d].fields
      shown == SelectSeq([i \in 1..Len(fs) |-> i],
                         LAMBDA i : ~find_attribute(fs[i], json_ignore))
      object(vs) == Object([n \in DOMAIN vs |-> Member(json_key(fs[shown[n]]), vs[n])])
  IN  AllOrFirst([n \in 1..Len(shown) |-> field_to_json(fs[shown[n]], m[shown[n]])], object)

-----------------------------------------------------------------------------
\* Conversions of a double; out of range they are undefined in C.
Truncated(v) == IF v >= 0 THEN v \div Unit ELSE -((-v) \div Unit)
ToInt(v) ==
  IF v # NaN /\ Truncated(v) \in IntMin..IntMax THEN Truncated(v) * Unit
  ELSE Unit * (IF Saturates /\ v > 0 THEN IntMax ELSE IntMin)
ToUnsigned(v) ==
  Unit * (IF Truncated(v) <= UIntMax THEN Truncated(v)
          ELSE IF Saturates THEN UIntMax ELSE Truncated(v) % (UIntMax + 1))

\* Mutant: a text that fills the buffer is stored without its terminator.
FitsExactly(f, c) == c.v <= f.char_buffer_size

Fits(f, c) == c.v < f.char_buffer_size

Stored(j, v) == [known |-> j.cell.known, v |-> v]

\* The code, and the element after the call.
scalar_from_json(f, j, e) ==
  CASE f.kind = "char_array" ->
         IF j.type # "string" THEN Error("INVALID_ARGUMENT", e)
         ELSE IF ~Fits(f, j.cell) THEN Error("BUFFER_TOO_SMALL", e)
         ELSE Ok(j.cell)
    [] f.kind # "char_array" ->
         IF \/ f.element_size # SizeOf[f.kind] \/ j.type # "number"
            \/ f.kind = "unsigned" /\ j.cell.v < 0
         THEN Error("INVALID_ARGUMENT", e)
         ELSE Ok(Stored(j, CASE f.kind = "int" -> ToInt(j.cell.v)
                             [] f.kind = "unsigned" -> ToUnsigned(j.cell.v)
                             [] f.kind = "float" -> ToFloat(j.cell.v)
                             [] f.kind = "double" -> j.cell.v))

\* Mutant: the parts before a failure are put back.
InTurnAtomic(m, rs) ==
  IF \A i \in DOMAIN rs : rs[i].ret = "OK" THEN Ok([i \in DOMAIN rs |-> rs[i].val])
  ELSE Error("INVALID_ARGUMENT", m)

\* One part after the other until one fails: what was stored before, by the failing
\* part too, stays stored.
InTurn(m, rs) ==
  LET reached == {i \in DOMAIN rs : \A k \in 1..(i - 1) : rs[k].ret = "OK"}
      failed == {i \in reached : rs[i].ret # "OK"}
      after == [i \in DOMAIN m |-> IF i \in reached THEN rs[i].val ELSE m[i]]
  IN  IF failed = {} THEN Ok(after) ELSE Error(rs[CHOOSE i \in failed : TRUE].ret, after)

RECURSIVE struct_from_json(_, _, _)
element_from_json(f, j, e) ==
  IF f.kind = "struct" THEN struct_from_json(f.nested, j, e) ELSE scalar_from_json(f, j, e)
field_from_json(f, json, m) ==
  LET j == Item(json, json_key(f))
      first == element_from_json(f, j, m[1])
  IN  CASE find_attribute(f, json_ignore) -> Ok(m)
        [] ~find_attribute(f, json_ignore) /\ ~HasItem(json, json_key(f)) ->
             IF find_attribute(f, json_required) THEN Error("MISSING_REQUIRED", m) ELSE Ok(m)
        [] OTHER ->
             IF Single(f) THEN [ret |-> first.ret, val |-> [m EXCEPT ![1] = first.val]]
             ELSE IF j.type # "array" THEN Error("INVALID_ARGUMENT", m)
             ELSE IF Len(j.items) # f.element_count THEN Error("INVALID_ARGUMENT", m)
             ELSE InTurn(m, [k \in 1..Len(m) |-> element_from_json(f, j.items[k], m[k])])
struct_from_json(d, json, m) ==
  IF json.type # "object" THEN Error("INVALID_ARGUMENT", m)
  ELSE InTurn(m, [i \in 1..Len(m) |-> field_from_json(table[d].fields[i], json, m[i])])

-----------------------------------------------------------------------------
\* The lines of print_struct: the cells in the order of the fields, ignored ones too.
RECURSIVE print_struct(_, _)
print_element(f, e) == IF f.kind = "struct" THEN print_struct(f.nested, e) ELSE <<e>>
print_field(f, m) ==
  IF Single(f) THEN print_element(f, m[1])
  ELSE FlattenSeq([k \in 1..f.element_count |-> print_element(f, m[k])])
print_struct(d, m) ==
  LET fs == table[d].fields IN FlattenSeq([i \in 1..Len(fs) |-> print_field(fs[i], m[i])])

\* A structure whose cells of each kind are cells[kind].
RECURSIVE Filled(_, _)
Filled(d, cells) ==
  LET fs == table[d].fields
      count(f) == IF Single(f) THEN 1 ELSE f.element_count
  IN  [i \in 1..Len(fs) |-> [k \in 1..count(fs[i]) |->
         IF fs[i].kind = "struct" THEN Filled(fs[i].nested, cells) ELSE cells[fs[i].kind]]]

\* The numbers a field of its type holds, up to the terminator of a text.
Holds(f, v) ==
  CASE f.kind = "int" -> v \in {Unit * n : n \in IntMin..IntMax}
    [] f.kind = "unsigned" -> v \in {Unit * n : n \in 0..UIntMax}
    [] f.kind = "float" -> FloatNumber(v)
    [] f.kind = "char_array" -> v >= 0 /\ v < f.char_buffer_size
    [] OTHER -> TRUE

-----------------------------------------------------------------------------
\* What decoding promises, leaf by leaf: each leaf's route of fields and elements is
\* followed into the JSON by itself.
RECURSIVE Routes(_)
Routes(d) ==
  LET fs == table[d].fields
      count(f) == IF Single(f) THEN 1 ELSE f.element_count
      below(f) == IF f.kind = "struct" THEN Routes(f.nested) ELSE <<<<>>>>
      of(i, k) == [n \in DOMAIN below(fs[i]) |-> <<[f |-> i, e |-> k]>> \o below(fs[i])[n]]
  IN  FlattenSeq([i \in 1..Len(fs) |->
        FlattenSeq([k \in 1..count(fs[i]) |-> of(i, k)])])

\* What a leaf may be given, and what it may then hold: a number it has room for is
\* cut off behind the point or goes to the nearest float, no number beyond INT_MAX or
\* UINT_MAX is promised anything but a number of the type.
Accepts(f, j) ==
  IF f.kind = "char_array" THEN j.type = "string" /\ j.cell.v < f.char_buffer_size
  ELSE f.element_size = SizeOf[f.kind] /\ j.type = "number" /\ (f.kind = "unsigned" => j.cell.v >= 0)
Renders(f, cell, given) ==
  /\ cell.known = given.known /\ Holds(f, cell.v)
  /\ f.kind \in {"double", "char_array"} => cell.v = given.v
  /\ f.kind = "float" => Nearest(cell.v, given.v)
  /\ given.v \in (CASE f.kind = "int" -> Unit * IntMin..Unit * (IntMax + 1) - 1
                     [] f.kind = "unsigned" -> 0..Unit * (UIntMax + 1) - 1
                     [] OTHER -> {}) =>
       /\ Distance(cell.v, given.v) < Unit
       /\ Distance(cell.v, 0) <= Distance(given.v, 0)

\* The fate of the leaf at the end of a route: "keep", "bad" or what it is given.
RECURSIVE Fate(_, _, _)
Fate(d, json, r) ==
  LET f == table[d].fields[r[1].f]
      j == Item(json, json_key(f))
      element == IF Single(f) THEN j ELSE j.items[r[1].e]
      bad == [is |-> "bad"]
      keep == [is |-> "keep"]
  IN  IF json.type # "object" THEN bad
      ELSE IF find_attribute(f, json_ignore) THEN keep
      ELSE IF ~HasItem(json, json_key(f))
        THEN IF find_attribute(f, json_required) THEN bad ELSE keep
      ELSE IF ~Single(f) /\ (j.type # "array" \/ Len(j.items) # f.element_count) THEN bad
      ELSE IF f.kind = "struct" THEN Fate(f.nested, element, Tail(r))
      ELSE IF Accepts(f, element) THEN [is |-> "store", given |-> element.cell] ELSE bad

RECURSIVE LeafKind(_, _)
LeafKind(d, r) ==
  LET f == table[d].fields[r[1].f] IN IF f.kind = "struct" THEN LeafKind(f.nested, Tail(r)) ELSE f

\* Leaves before the first bad one are stored or kept, it and all behind it are kept.
DecodesLeafByLeaf(d, routes, json, m) ==
  LET fates == [n \in DOMAIN routes |-> Fate(d, json, routes[n])]
      Bads == {n \in DOMAIN fates : fates[n].is = "bad"}
      old == print_struct(d, m)
      result == struct_from_json(d, json, m)
      new == print_struct(d, result.val)
  IN  /\ result.ret = "OK" <=> Bads = {}
      /\ DOMAIN new = DOMAIN old
      /\ \A n \in DOMAIN fates :
           IF fates[n].is = "store" /\ \A b \in Bads : n < b
           THEN Renders(LeafKind(d, routes[n]), new[n], fates[n].given)
           ELSE new[n] = old[n]

\* A leaf is saved when nothing on its route is ignored.
RECURSIVE Saved(_, _)
Saved(d, r) ==
  LET f == table[d].fields[r[1].f]
  IN  ~find_attribute(f, json_ignore) /\ (f.kind = "struct" => Saved(f.nested, Tail(r)))

\* Encoding m, printing, parsing and decoding over `before' gives the saved leaves back
\* and leaves the others as they were.
ComesBack(d, routes, text, m, before) ==
  LET result == struct_from_json(d, text, before)
      now == print_struct(d, m)
      old == print_struct(d, before)
  IN  /\ result.ret = "OK"
      /\ print_struct(d, result.val) =
           [n \in DOMAIN now |-> IF Saved(d, routes[n]) THEN now[n] ELSE old[n]]
=============================================================================
