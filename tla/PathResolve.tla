----------------------------- MODULE PathResolve -----------------------------
(***************************************************************************)
(* Paths like a.b[12].c (access/path.c): resolve_path goes through the     *)
(* segments of the text, with one action per name, index digit and         *)
(* separator, in uintptr_t and size_t arithmetic.  Next to it the accessors *)
(* of access/access.c, and what a path denotes when it is taken apart at   *)
(* its dots and its numbers have no limit.                                 *)
(***************************************************************************)
EXTENDS StructMeta

CONSTANTS Tables,      \* the tables of descriptors the call may meet
          Paths,       \* the paths it may be given
          Instances    \* the addresses the structure may have

\* A maximal run of letters, digits and '_' that starts a segment is one token, a
\* member of Names; every other character is a token of its own.
Digits == <<"0", "1", "2", "3", "4", "5", "6", "7", "8", "9">>
IsDigit(c) == \E k \in 1..10 : Digits[k] = c
DigitValue(c) == CHOOSE v \in 0..9 : Digits[v + 1] = c
EndOfText == "end"
Tokens == Names \cup {Digits[k] : k \in 1..10} \cup {"[", "]", ".", "?"}

ASSUME TablesAssumption == Tables \subseteq [Descriptors -> DescriptorRecords]
ASSUME PathsAssumption == Paths \subseteq Seq(Tokens)
ASSUME InstancesAssumption == Instances \subseteq Nat \ {0}
\* A name is none of the other tokens.
ASSUME NamesAssumption ==
  Names \cap ({Digits[k] : k \in 1..10} \cup {"[", "]", ".", "?", EndOfText}) = {}

VARIABLES table, root, instance, path,   \* the arguments; any that is NULL makes root NoDescriptor
          form,        \* "const" for struct_meta_path_resolve_const, or "mutable"
          outputs,     \* the outputs the caller wants; the others are NULL
          at,          \* where resolve_path stands
          cursor,      \* the next token
          current,     \* current_descriptor
          address,     \* current_address
          field,       \* the index of the segment's field in `current'
          value,       \* value_address
          index, has_index,
          ret,         \* the code, "none" before there is one
          cleared,     \* the outputs stored to: the others hold what they held before
          out          \* what is stored in them: <<>> for NULL

vars == <<table, root, instance, path, form, outputs, at, cursor, current, address,
          field, value, index, has_index, ret, cleared, out>>
arguments == <<table, root, instance, path, form, outputs>>

Outputs == {"field_out", "value_out"}
Missing == root = NoDescriptor \/ path = <<>> \/ outputs # Outputs

Token(c) == IF c <= Len(path) THEN path[c] ELSE EndOfText
F == table[current].fields[field]
\* Addresses and sizes have the same width and wrap.
Wrap(n) == n % (SizeMax + 1)

-----------------------------------------------------------------------------
Called(t, d, i, name) == t[d].fields[i].name = name

\* find_field_segment, and the search of struct_meta_descriptor_find_field: i is the
\* first field of that name.
find_field(t, d, name, i) ==
  Called(t, d, i, name) /\ \A j \in 1..(i - 1) : ~Called(t, d, j, name)

\* struct_meta_field_get_element and its const form; `base' is the parent structure.
get_element(f, base, i) ==
  IF i >= f.element_count THEN [ret |-> "OUT_OF_RANGE", element |-> 0]
  ELSE [ret |-> "OK", element |-> Wrap(base + f.offset + i * f.element_size)]

Init ==
  /\ table \in Tables /\ root \in Descriptors \cup {NoDescriptor}
  /\ instance \in Instances /\ path \in Paths
  /\ form \in {"const", "mutable"} /\ outputs \in SUBSET Outputs
  /\ root # NoDescriptor => instance + table[root].size <= SizeMax + 1
  /\ at = "enter" /\ cursor = 1 /\ current = root /\ address = instance
  /\ field = 0 /\ value = 0 /\ index = 0 /\ has_index = FALSE
  /\ ret = "none" /\ cleared = {} /\ out = <<>>

Fail(code) ==
  /\ at' = "done" /\ ret' = code
  /\ UNCHANGED <<arguments, cursor, current, address, field, value, index, has_index, cleared, out>>

\* What the checks of the arguments store: the const form clears nothing before it has
\* seen them all, the other one *value_out first.
Cleared ==
  IF ~Missing THEN Outputs ELSE IF form = "mutable" THEN outputs \cap {"value_out"} ELSE {}

\* struct_meta_path_resolve and its const form.
Enter ==
  /\ at = "enter" /\ cleared' = Cleared
  /\ \/ Missing /\ at' = "done" /\ ret' = "INVALID_ARGUMENT"
     \/ ~Missing /\ at' = "validate" /\ UNCHANGED ret
  /\ UNCHANGED <<arguments, cursor, current, address, field, value, index, has_index, out>>

Validate ==
  /\ at = "validate"
  /\ \/ ~Valid(table, root) /\ Fail("CORRUPT_DESCRIPTOR")
     \/ Fail("OUT_OF_MEMORY")
     \/ /\ Valid(table, root) /\ at' = "segment"
        /\ UNCHANGED <<arguments, cursor, current, address, field, value, index,
                       has_index, ret, cleared, out>>

FindField ==
  /\ at = "segment"
  /\ \/ Token(cursor) \notin Names /\ Fail("INVALID_ARGUMENT")
     \/ /\ Token(cursor) \in Names
        /\ \/ /\ \A i \in DOMAIN table[current].fields : ~Called(table, current, i, Token(cursor))
              /\ Fail("NOT_FOUND")
           \/ /\ \E i \in DOMAIN table[current].fields :
                   /\ find_field(table, current, Token(cursor), i)
                   /\ field' = i
                   /\ value' = Wrap(address + table[current].fields[i].offset)
              /\ index' = 0 /\ has_index' = FALSE
              /\ cursor' = cursor + 1 /\ at' = "bracket"
              /\ UNCHANGED <<arguments, current, address, ret, cleared, out>>

\* parse_index up to the first digit; without '[' there is no index.
OpenBracket ==
  /\ at = "bracket"
  /\ \/ /\ Token(cursor) = "[" /\ ~IsDigit(Token(cursor + 1))
        /\ Fail("INVALID_ARGUMENT")
     \/ /\ \/ Token(cursor) # "[" /\ at' = "tail" /\ UNCHANGED cursor
           \/ /\ Token(cursor) = "[" /\ IsDigit(Token(cursor + 1))
              /\ at' = "digits" /\ cursor' = cursor + 1
        /\ UNCHANGED <<arguments, current, address, field, value, index, has_index, ret, cleared, out>>

\* Mutant: the room for the digit itself is left out of the test.
OverflowsTenfold(i, d) == i > SizeMax \div 10

Overflows(i, d) == i > (SizeMax - d) \div 10

Digit ==
  /\ at = "digits" /\ IsDigit(Token(cursor))
  /\ \/ Overflows(index, DigitValue(Token(cursor))) /\ Fail("OUT_OF_RANGE")
     \/ /\ ~Overflows(index, DigitValue(Token(cursor)))
        /\ index' = Wrap(index * 10 + DigitValue(Token(cursor)))
        /\ cursor' = cursor + 1
        /\ UNCHANGED <<arguments, at, current, address, field, value, has_index, ret, cleared, out>>

\* Mutant: one past the last element is let through.
IndexOKPast(f, i) == f.kind # "char_array" /\ i <= f.element_count

IndexOK(f, i) == f.kind # "char_array" /\ i < f.element_count

CloseBracket ==
  /\ at = "digits" /\ ~IsDigit(Token(cursor))
  /\ \/ Token(cursor) # "]" /\ Fail("INVALID_ARGUMENT")
     \/ Token(cursor) = "]" /\ ~IndexOK(F, index) /\ Fail("OUT_OF_RANGE")
     \/ /\ Token(cursor) = "]" /\ IndexOK(F, index)
        /\ value' = Wrap(value + index * F.element_size)
        /\ has_index' = TRUE /\ cursor' = cursor + 1 /\ at' = "tail"
        /\ UNCHANGED <<arguments, current, address, field, index, ret, cleared, out>>

Finish ==
  /\ at = "tail" /\ Token(cursor) = EndOfText
  /\ ret' = "OK" /\ at' = "done"
  /\ out' = <<[d |-> current, i |-> field, value |-> value]>>
  /\ UNCHANGED <<arguments, cursor, current, address, field, value, index, has_index, cleared>>

\* Mutant: an array of structures is entered at its first element.
EnterableUnindexed(f, indexed) == f.kind = "struct"

Enterable(f, indexed) == f.kind = "struct" /\ (f.element_count > 1 => indexed)

Descend ==
  /\ at = "tail" /\ Token(cursor) # EndOfText
  /\ \/ /\ \/ Token(cursor) # "." \/ ~Enterable(F, has_index)
           \/ Token(cursor + 1) = EndOfText
        /\ Fail("INVALID_ARGUMENT")
     \/ /\ Token(cursor) = "." /\ Enterable(F, has_index)
        /\ Token(cursor + 1) # EndOfText
        /\ current' = F.nested /\ address' = value
        /\ cursor' = cursor + 1 /\ at' = "segment"
        /\ UNCHANGED <<arguments, field, value, index, has_index, ret, cleared, out>>

Done == at = "done" /\ UNCHANGED vars

Next == Enter \/ Validate \/ FindField \/ OpenBracket \/ Digit \/ CloseBracket \/ Finish
          \/ Descend \/ Done

Spec == Init /\ [][Next]_vars

-----------------------------------------------------------------------------
\* The meaning of a path p, read off its text at once: segments that end at dots, the
\* last one at the end of the text, each a name that may have one index; numbers of any
\* size.  t and r are the table and the root.
Dots(p) == {0, Len(p) + 1} \cup {k \in DOMAIN p : p[k] = "."}
Between(p, j, k) == {i \in Dots(p) : j < i /\ i < k}
DotBefore(p, k) == CHOOSE j \in Dots(p) : j < k /\ Between(p, j, k) = {}
SegmentTo(p, k) == SubSeq(p, DotBefore(p, k) + 1, k - 1)

Indexed(s) == Len(s) > 1
WellFormed(s) ==
  /\ s # <<>> /\ s[1] \in Names
  /\ Indexed(s) => /\ Len(s) > 3 /\ s[2] = "[" /\ s[Len(s)] = "]"
                   /\ \A k \in 3..(Len(s) - 1) : IsDigit(s[k])

\* The number that the digits from the third token of s to the k-th one denote.
Numeral(s) ==
  LET upto[k \in 2..Len(s)] == IF k = 2 THEN 0 ELSE upto[k - 1] * 10 + DigitValue(s[k])
  IN  upto
Number(s) == Numeral(s)[Len(s) - 1]

\* The field a segment names in d, and the offset of the element it selects.
FieldOf(t, d, s) == CHOOSE i \in DOMAIN t[d].fields : find_field(t, d, s[1], i)
Selected(t, d, s) == t[d].fields[FieldOf(t, d, s)]
SegmentOK(t, d, s) ==
  /\ d # NoDescriptor /\ WellFormed(s)
  /\ \E i \in DOMAIN t[d].fields : Called(t, d, i, s[1])
  /\ Indexed(s) => /\ Selected(t, d, s).kind # "char_array"
                   /\ Number(s) < Selected(t, d, s).element_count
Shift(t, d, s) ==
  Selected(t, d, s).offset
    + (IF Indexed(s) THEN Number(s) * Selected(t, d, s).element_size ELSE 0)

\* Where a path leads: the last field and its offset, or not `ok'.  Entered is where a
\* segment leads that is looked up at w; only a structure has further segments.
Begin(r) == [ok |-> TRUE, d |-> r, next |-> r, shift |-> 0, i |-> 0]
Nowhere == [Begin(NoDescriptor) EXCEPT !.ok = FALSE]
Entered(t, w, s, last) ==
  IF ~w.ok \/ ~SegmentOK(t, w.next, s) THEN Nowhere
  ELSE [ok |-> last \/ /\ Selected(t, w.next, s).kind = "struct"
                       /\ Indexed(s) \/ Selected(t, w.next, s).element_count = 1,
        d |-> w.next, next |-> Selected(t, w.next, s).nested,
        shift |-> w.shift + Shift(t, w.next, s),
        i |-> FieldOf(t, w.next, s)]
Walk(t, r, p) ==
  LET walk[k \in Dots(p)] ==
        IF k = 0 THEN Begin(r)
        ELSE Entered(t, walk[DotBefore(p, k)], SegmentTo(p, k), k > Len(p))
  IN  walk
Denotation(t, r, p) == Walk(t, r, p)[Len(p) + 1]
Denoted == Denotation(table, root, path)

-----------------------------------------------------------------------------
Positions == {"enter", "validate", "segment", "bracket", "digits", "tail", "done"}
Codes == {"none", "OK", "INVALID_ARGUMENT", "CORRUPT_DESCRIPTOR", "OUT_OF_MEMORY",
          "NOT_FOUND", "OUT_OF_RANGE"}

TypeOK ==
  /\ table \in Tables /\ root \in Descriptors \cup {NoDescriptor}
  /\ instance \in Instances /\ path \in Paths
  /\ form \in {"const", "mutable"} /\ outputs \subseteq Outputs /\ cleared \subseteq Outputs
  /\ at \in Positions /\ ret \in Codes
  /\ cursor \in Nat \ {0} /\ current \in Descriptors \cup {NoDescriptor}
  /\ address \in Nat /\ value \in Nat /\ index \in Sizes /\ has_index \in BOOLEAN
  /\ field \in Nat
  /\ at \in {"bracket", "digits", "tail"} => field \in DOMAIN table[current].fields
  /\ at = "tail" /\ has_index => index < F.element_count

\* The bytes between `from' and `from + n' belong to the caller's structure.
Inside(from, n) == instance <= from /\ from + n <= instance + table[root].size

\* Bytes a caller may use at the address a path gives: one element behind an index,
\* the whole field otherwise.
Usable(f, indexed) == IF indexed THEN f.element_size ELSE Extent(f)

\* Whatever the text, every address the walk computes, and the value it hands out
\* with all the bytes its field describes, lies in the instance: no index, offset or
\* nesting leads out of it and no sum wraps around.
InBounds ==
  /\ at = "segment" => Inside(address, table[current].size)
  /\ at \in {"bracket", "digits"} => Inside(value, Extent(F))
  /\ at = "tail" => Inside(value, Usable(F, has_index))
  /\ out # <<>> => Inside(out[1].value, Usable(table[out[1].d].fields[out[1].i], has_index))

\* A path is accepted exactly when it denotes a value, and then the field and address
\* are the denoted ones: an index too large for size_t does not come back as a small
\* one, an array of structures is not entered without an index, nothing is left of
\* the text.  The accessors agree with the paths: get_element on the field and parent
\* the path came through gives the same address.
AcceptsWhatDenotes ==
  /\ ret = "OK" => /\ Denoted.ok
                   /\ out = <<[d |-> Denoted.d, i |-> Denoted.i,
                               value |-> instance + Denoted.shift]>>
                   /\ get_element(table[Denoted.d].fields[Denoted.i], address,
                                  IF has_index THEN index ELSE 0)
                        = [ret |-> "OK", element |-> out[1].value]
  /\ ret \in {"INVALID_ARGUMENT", "NOT_FOUND", "OUT_OF_RANGE"} => Missing \/ ~Denoted.ok

\* An error behind the checks of the arguments leaves NULL in both outputs, whatever
\* they held before; when an argument is missing, *field_out keeps what it held, and in
\* the const form *value_out too.
ClearsOutputs ==
  /\ ret \notin {"none", "OK"} => out = <<>>
  /\ ret # "none" /\ ~Missing => cleared = Outputs
  /\ ret # "none" /\ Missing =>
       /\ "field_out" \notin cleared
       /\ "value_out" \in cleared <=> form = "mutable" /\ "value_out" \in outputs

\* The call gives back what the path denotes and, on an error, nothing a caller could
\* take for a value: only a call without its arguments may leave an old pointer behind.
ResolvesAsDenoted == AcceptsWhatDenotes /\ ClearsOutputs
=============================================================================
