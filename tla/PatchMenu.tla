------------------------------ MODULE PatchMenu ------------------------------
(***************************************************************************)
(* The interactive editor (patch/patch.c).  The calls of patch_struct,     *)
(* patch_array_field and patch_scalar under way are `frames'; every line   *)
(* the user enters is one step.  A path is the sequence of its segments,   *)
(* and path_resolve what path.c makes of it (module PathResolve).          *)
(***************************************************************************)
EXTENDS StructMeta, FloatNumbers

CONSTANTS table, Root,       \* the descriptors, all valid, and the one of the instance
          StartPaths,        \* the arguments of patch_path_interactive; <<>> is plain patch
          NoIndex,           \* a segment without [n]
          Inputs,            \* the numbers a user types, as text they may start with a blank
          IntMax, ULongMax,  \* INT_MAX and ULONG_MAX
          SizeOf,            \* sizeof of the numbers' types
          MaxEdits           \* bound on the lines that change a value

Segments == [name : Names, index : Nat \cup {NoIndex}]

ASSUME StructAssumption == Root \in Descriptors /\ NoIndex \in Int \ Nat
\* Both entries refuse a descriptor that is not valid, the one with a path in
\* struct_meta_path_resolve.
ASSUME TableAssumption == table \in [Descriptors -> DescriptorRecords] /\ Valid(table, Root)
\* A C structure has no two members of one name.
ASSUME NamesAssumption ==
  \A d \in Descriptors : \A i, j \in DOMAIN table[d].fields :
    table[d].fields[i].name = table[d].fields[j].name => i = j
\* A path is the text of its segments, a line a number.
ASSUME InputAssumption ==
  /\ \A p \in StartPaths : p \in Seq(Segments)
  /\ Inputs \subseteq [blank : BOOLEAN, v : Int]
ASSUME BoundsAssumption == IntMax \in Nat /\ ULongMax \in Nat

ASSUME SizeOfAssumption == SizeOf \in [{"int", "unsigned", "float", "double"} -> Sizes \ {0}]

UIntMax == 2 * IntMax + 1
Junk == [blank |-> FALSE, v |-> NoIndex]   \* a line that is no number

VARIABLES frames,        \* the calls under way, the running one last
          ret,           \* the code on its way back, "none" while a call runs
          prompt,        \* the com_util_prompt is there
          mem,           \* for each byte of Memory, which edit wrote it last
          last,          \* the last edit: what was typed, for which kind, what was stored
          edits,
          input_ended,   \* the end of the input has been met
          result         \* what the caller gets, "none" before

vars == <<frames, ret, prompt, mem, last, edits, input_ended, result>>

Top == frames[Len(frames)]
Below == SubSeq(frames, 1, Len(frames) - 1)
Field(d, i) == table[d].fields[i]
IsArray(f) == f.kind # "char_array" /\ f.element_count > 1

-----------------------------------------------------------------------------
Segment(n, k) == [name |-> n, index |-> k]

\* Mutant: the separator is chosen as if every menu were the root's.
append_field_path_root(path, name) == <<Segment(name, NoIndex)>>
append_field_path(path, name) == Append(path, Segment(name, NoIndex))
append_index_path(path, k) == [path EXCEPT ![Len(path)].index = k]

\* Where a path leads: the field, its address and whether an element is meant.
NoPlace == [ok |-> FALSE, d |-> Root, i |-> 0, addr |-> 0, indexed |-> FALSE]

\* The segment s, looked up in the structure d at base.
Lookup(d, base, s) ==
  LET hits == {i \in DOMAIN table[d].fields : Field(d, i).name = s.name}
      i == CHOOSE i \in hits : TRUE
      f == Field(d, i)
  IN  IF \/ hits = {}
         \/ s.index # NoIndex /\ (f.kind = "char_array" \/ s.index >= f.element_count)
      THEN NoPlace
      ELSE [ok |-> TRUE, d |-> d, i |-> i, indexed |-> s.index # NoIndex,
            addr |-> base + f.offset
                       + (IF s.index = NoIndex THEN 0 ELSE s.index * f.element_size)]

\* A further segment enters the structure at w, one element of it if it is an array.
Into(w, s) ==
  LET f == Field(w.d, w.i)
  IN  IF ~w.ok \/ f.kind # "struct" \/ (f.element_count > 1 /\ ~w.indexed) THEN NoPlace
      ELSE Lookup(f.nested, w.addr, s)

Walk(path) ==
  LET walk[n \in 1..Len(path)] ==
        IF n = 1 THEN Lookup(Root, 0, path[1]) ELSE Into(walk[n - 1], path[n])
  IN  walk
path_resolve(path) == IF path = <<>> THEN NoPlace ELSE Walk(path)[Len(path)]

path_has_terminal_index(path) == path[Len(path)].index # NoIndex

-----------------------------------------------------------------------------
Frame(is, d, i, addr, path) == [is |-> is, d |-> d, i |-> i, addr |-> addr, path |-> path]

\* patch_element: a menu for a structure, a prompt for anything else.
patch_element(d, i, addr, path) ==
  IF Field(d, i).kind = "struct" THEN Frame("struct", Field(d, i).nested, 0, addr, path)
  ELSE Frame("scalar", d, i, addr, path)
patch_array_field(d, i, addr, path) == Frame("array", d, i, addr, path)

\* What the selection of field i in a structure menu opens.
Selection(fr, i) ==
  LET f == Field(fr.d, i)
      path == append_field_path(fr.path, f.name)
  IN  IF IsArray(f) THEN patch_array_field(fr.d, i, fr.addr + f.offset, path)
      ELSE patch_element(fr.d, i, fr.addr + f.offset, path)
Element(fr, k) ==
  patch_element(fr.d, fr.i, fr.addr + k * Field(fr.d, fr.i).element_size,
                append_index_path(fr.path, k))

Size == table[Root].size
\* The instance and the bytes behind it.
Memory == 0..(Size + SizeMax)
Init ==
  /\ mem = [b \in Memory |-> 0] /\ edits = 0 /\ input_ended = FALSE
  /\ last = [typed |-> Junk, kind |-> "int", stored |-> 0]
  /\ frames = <<>> /\ ret = "none" /\ prompt = FALSE /\ result = "none"

\* struct_meta_patch_interactive, or struct_meta_patch_path_interactive and its
\* patch_target.  A path that does not resolve ends before a prompt is created.
Enter ==
  /\ result = "none" /\ ~prompt
  /\ \E path \in StartPaths :
       LET r == path_resolve(path)
       IN  \/ /\ path # <<>> /\ ~r.ok
              /\ result' = "error" /\ UNCHANGED <<frames, prompt>>
           \/ /\ path = <<>> \/ r.ok
              /\ \/ /\ prompt' = TRUE /\ UNCHANGED result
                    /\ frames' = <<CASE path = <<>> -> Frame("struct", Root, 0, 0, <<>>)
                                     [] path # <<>> ->
                                          IF IsArray(Field(r.d, r.i)) /\ ~path_has_terminal_index(path)
                                          THEN patch_array_field(r.d, r.i, r.addr, path)
                                          ELSE patch_element(r.d, r.i, r.addr, path)>>
                 \/ result' = "error" /\ UNCHANGED <<frames, prompt>>   \* no prompt
  /\ UNCHANGED <<ret, mem, last, edits, input_ended>>

Reading == ret = "none" /\ frames # <<>>
Leave(code) ==
  /\ ret' = code /\ UNCHANGED <<frames, prompt, mem, last, edits, result>>

\* A blank line goes back, without a change.
ReadBlank ==
  /\ Reading /\ ~input_ended
  /\ Leave(IF Top.is = "scalar" THEN "EOF" ELSE "OK") /\ UNCHANGED input_ended
ReadEnd == Reading /\ Leave("EOF") /\ input_ended' = TRUE
\* Ctrl+C, or a path that could not be allocated for the menu.
ReadFails == Reading /\ ~input_ended /\ Leave("error") /\ UNCHANGED input_ended

\* parse_int takes leading blanks and a sign.
parse_int(x) == x # Junk /\ x.v >= -IntMax - 1 /\ x.v <= IntMax
\* Mutant: the sign is not looked at.
parse_unsigned_signed(x) ==
  LET value == IF x.v < 0 THEN ULongMax + 1 + x.v ELSE x.v
  IN  [ok |-> x # Junk /\ -ULongMax <= x.v /\ x.v <= ULongMax /\ value <= UIntMax,
       value |-> value]
\* strtoul negates modulo ULONG_MAX + 1; only a '-' in the first column is refused.
parse_unsigned(x) ==
  LET value == IF x.v < 0 THEN ULongMax + 1 + x.v ELSE x.v
  IN  [ok |-> /\ x # Junk /\ (x.v < 0 => x.blank)
              /\ -ULongMax <= x.v /\ x.v <= ULongMax /\ value <= UIntMax,
       value |-> value]

\* A line in a menu that is no number of the menu is asked for again.
SelectField ==
  /\ Reading /\ ~input_ended /\ Top.is = "struct"
  /\ \E x \in Inputs :
        IF parse_int(x) /\ x.v >= 1 /\ x.v <= Len(table[Top.d].fields)
        THEN frames' = Append(frames, Selection(Top, x.v)) ELSE UNCHANGED frames
  /\ UNCHANGED <<ret, prompt, mem, last, edits, input_ended, result>>

SelectElement ==
  /\ Reading /\ ~input_ended /\ Top.is = "array"
  /\ \E x \in Inputs :
        IF parse_int(x) /\ x.v >= 0 /\ x.v < Field(Top.d, Top.i).element_count
        THEN frames' = Append(frames, Element(Top, x.v)) ELSE UNCHANGED frames
  /\ UNCHANGED <<ret, prompt, mem, last, edits, input_ended, result>>

\* n bytes from the address of the running call.
Store(n, x, value) ==
  /\ edits < MaxEdits /\ edits' = edits + 1
  /\ mem' = [b \in DOMAIN mem |-> IF Top.addr <= b /\ b < Top.addr + n THEN edits + 1 ELSE mem[b]]
  /\ last' = [typed |-> x, kind |-> Field(Top.d, Top.i).kind, stored |-> value]
  /\ ret' = "OK"
  /\ UNCHANGED <<frames, prompt, input_ended, result>>

\* patch_scalar: a line that does not fit the kind is asked for again.  As many bytes are
\* stored as the type of the kind has; nobody asks for the element_size.  A float gets
\* the double that was read, converted.  The number of a text is its length.
EditNumber ==
  /\ Reading /\ ~input_ended /\ Top.is = "scalar"
  /\ LET kind == Field(Top.d, Top.i).kind
     IN  \E x \in Inputs :
           \/ kind = "int" /\ parse_int(x) /\ Store(SizeOf["int"], x, x.v)
           \/ /\ kind = "unsigned" /\ parse_unsigned(x).ok
              /\ Store(SizeOf["unsigned"], x, parse_unsigned(x).value)
           \/ kind = "float" /\ x # Junk /\ Store(SizeOf["float"], x, ToFloat(x.v))
           \/ kind = "double" /\ x # Junk /\ Store(SizeOf["double"], x, x.v)
\* Mutant: room for the terminator is not asked for.
TextFitsExactly(f, n) == n <= f.char_buffer_size
TextFits(f, n) == n < f.char_buffer_size
EditText ==
  /\ Reading /\ ~input_ended /\ Top.is = "scalar" /\ Field(Top.d, Top.i).kind = "char_array"
  /\ \E x \in {y \in Inputs \ {Junk} : y.v >= 1} :
        TextFits(Field(Top.d, Top.i), x.v) /\ Store(x.v + 1, x, x.v)

\* Mutant: the menus, too, take the end of the input for a blank line.
ReturnSwallows ==
  /\ ret # "none" /\ frames # <<>>
  /\ IF Len(frames) = 1
     THEN /\ frames' = <<Frame("struct", Root, 0, 0, <<>>)>> /\ ret' = "none"
          /\ UNCHANGED <<prompt, result>>
     ELSE frames' = Below /\ ret' = "none" /\ UNCHANGED <<prompt, result>>
  /\ UNCHANGED <<mem, last, edits, input_ended>>

\* A call returns.  patch_element takes "EOF" of a value prompt, a blank line or the real
\* end of the input, for "no change"; a menu goes on after OK and passes on the rest.
Return ==
  /\ ret # "none" /\ frames # <<>>
  /\ LET code == IF Top.is = "scalar" /\ ret = "EOF" THEN "OK" ELSE ret
     IN  IF Len(frames) = 1
         THEN /\ frames' = <<>> /\ ret' = "none" /\ prompt' = FALSE
              /\ result' = IF code = "EOF" THEN "OK" ELSE code
         ELSE /\ frames' = Below
              /\ ret' = IF code = "OK" THEN "none" ELSE code
              /\ UNCHANGED <<prompt, result>>
  /\ UNCHANGED <<mem, last, edits, input_ended>>

Done == result # "none" /\ UNCHANGED vars

Next == Enter \/ ReadBlank \/ ReadEnd \/ ReadFails \/ SelectField \/ SelectElement
          \/ EditNumber \/ EditText \/ Return \/ Done

\* The program runs on; when the input is at its end, reading tells so.  Nobody has to
\* type anything.
Spec == Init /\ [][Next]_vars
          /\ WF_vars(Return) /\ WF_vars(input_ended /\ ReadEnd)

-----------------------------------------------------------------------------
\* The bytes a resolved path stands for.
BytesOf(r) ==
  LET f == Field(r.d, r.i)
  IN  r.addr..(r.addr + (IF r.indexed THEN f.element_size ELSE Extent(f)) - 1)

\* A path shown leads to the place where the editor is: what patch.h:32 promises, that
\* the paths of the menus can be given to patch as they are.
LeadsTo(path, fr) ==
  LET r == path_resolve(path)
  IN  /\ r.ok /\ r.addr = fr.addr
      /\ IF fr.is = "struct" THEN Field(r.d, r.i).nested = fr.d ELSE r.d = fr.d /\ r.i = fr.i
      /\ fr.is = "array" <=> (IsArray(Field(r.d, r.i)) /\ ~r.indexed)
ShownPathsResolve ==
  \A k \in DOMAIN frames :
    LET fr == frames[k]
    IN  /\ fr.path # <<>> => LeadsTo(fr.path, fr)
        /\ fr.is = "struct" => \A i \in DOMAIN table[fr.d].fields :
             LeadsTo(append_field_path(fr.path, Field(fr.d, i).name), Selection(fr, i))
        /\ fr.is = "array" => \A n \in 0..(Field(fr.d, fr.i).element_count - 1) :
             LeadsTo(append_index_path(fr.path, n), Element(fr, n))

\* The descriptor has room for a number of the field's kind.
SizeFits(f) == f.kind \in DOMAIN SizeOf => SizeOf[f.kind] <= f.element_size

\* An edit changes bytes of the leaf whose path the prompt shows, and no other, and a
\* step that is no edit changes none.  Not so for a leaf described smaller than its kind,
\* which the validator lets through.
EditsWhatItShows ==
  [][\A b \in DOMAIN mem : mem'[b] # mem[b] =>
       /\ Top.is = "scalar"
       /\ SizeFits(Field(Top.d, Top.i)) => b \in BytesOf(path_resolve(Top.path))]_vars

\* The number stored is the number typed, and the nearest of its type for a float, with
\* infinity beyond the last one; unless a '-' hides behind a blank in front of a number
\* for an unsigned: then strtoul's wrapped value may be stored.
TypedIsStored ==
  LET hidden == last.kind = "unsigned" /\ last.typed.blank /\ last.typed.v < 0
  IN  last.typed # Junk =>
        /\ last.kind = "float" => Nearest(last.stored, last.typed.v)
        /\ last.kind # "float" /\ ~hidden => last.stored = last.typed.v

\* When the input is at its end the session is over soon, from the deepest menu, without
\* an error and with the prompt disposed of.
InputEndEnds == input_ended ~> (result # "none" /\ ~prompt)
=============================================================================
