---------------------------- MODULE MCStructStore ----------------------------
\* A person in small: a required and renamed number, a float, a text, an array of
\* addresses, an array of numbers, a number left out of the JSON; and files of every
\* sort.
EXTENDS StructStore

CONSTANTS Person, Address, id, person_id, ratio, name, homes, zip, town, scores, serial,
          p, q

int_field(n) ==
  [name |-> n, kind |-> "int", offset |-> 0, element_size |-> 1, element_count |-> 1,
   char_buffer_size |-> 0, nested |-> NoDescriptor, has_attributes |-> TRUE,
   keys |-> <<>>, values |-> <<>>]
text(n, z) == [int_field(n) EXCEPT !.kind = "char_array", !.char_buffer_size = z]
struct(n, d, c) ==
  [int_field(n) EXCEPT !.kind = "struct", !.nested = d, !.element_size = 2, !.element_count = c]

\* Offsets play no part here.
MCTable ==
  [d \in {Person, Address} |->
     IF d = Address
     THEN [name |-> town, size |-> 2, has_fields |-> TRUE,
           fields |-> <<[int_field(zip) EXCEPT !.kind = "unsigned"], text(town, 2)>>]
     ELSE [name |-> name, size |-> 12, has_fields |-> TRUE, fields |->
            <<[int_field(id) EXCEPT !.keys = <<json_name, json_required>>,
                                    !.values = <<person_id, NoName>>],
              [int_field(serial) EXCEPT !.keys = <<json_ignore>>, !.values = <<NoName>>],
              text(name, 3), [int_field(ratio) EXCEPT !.kind = "float"],
              struct(homes, Address, 2), [int_field(scores) EXCEPT !.element_count = 2]>>]]

MCSizeOf == [k \in {"int", "unsigned", "float", "double"} |-> 1]

num(v) == Number(Cell(v))
str(n) == String(Cell(n))
home(z, t) == Object(<<Member(town, t), Member(zip, z)>>)
full(i, r, n, hs, sc) ==
  Object(<<Member(person_id, i), Member(name, n), Member(ratio, r), Member(homes, hs),
           Member(scores, sc), Member(serial, num(4))>>)
good(i, r, n) == full(i, r, n, Array(<<home(num(4), str(1)), home(num(0), str(0))>>),
                      Array(<<num(0), num(4)>>))

\* Zeros by chance, and memory with a NaN and a text that does not end in its buffer.
MCHeaps ==
  {[k \in Scalars |-> 0],
   [int |-> -4, unsigned |-> 12, float |-> NaN, double |-> 3, char_array |-> 3]}

MCTexts ==
  {good(num(4), num(3), str(2)), good(num(4), Null, String(Garbage(1))),
   Object(<<Member(person_id, num(5)), Member(person_id, Null)>>),
   Object(<<Member(id, num(4))>>), Null, Object(<<>>),
   good(num(40), num(-3), str(1)), good(num(-14), num(15), str(1)), good(num(0), Null, str(1)), good(num(0), num(2), str(3)),
   full(num(0), num(0), str(0), Array(<<home(num(4), str(1)), home(num(-4), str(1))>>),
        Array(<<num(0), num(4)>>)),
   full(num(0), num(0), str(0), Array(<<home(num(4), str(2))>>), Array(<<>>)),
   full(num(0), num(0), str(0), Array(<<home(num(4), str(1)), Object(<<Member(zip, num(44))>>)>>),
        Array(<<num(4), num(0), num(0)>>)),
   full(num(0), num(0), str(0), Array(<<home(num(4), str(0)), Null>>), num(4))}

MCDisks == {[x \in Paths |-> IF x = p THEN f ELSE Absent] :
              f \in {Whole(j) : j \in MCTexts} \cup {Cut, Absent}}
=============================================================================
