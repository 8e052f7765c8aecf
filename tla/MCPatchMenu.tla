---------------------------- MODULE MCPatchMenu ----------------------------
\* The Sample of structMetaPatchTest in small, with a nested structure that is no array, a
\* float, and a lone char, which the generator describes as a double of one byte.
EXTENDS PatchMenu

CONSTANTS Sample, Address, id, ratio, city, zip, scores, home, addresses, share, initial, missing

int_field(n, o, c) ==
  [name |-> n, kind |-> "int", offset |-> o, element_size |-> 1, element_count |-> c,
   char_buffer_size |-> 0, nested |-> NoDescriptor, has_attributes |-> FALSE,
   keys |-> <<>>, values |-> <<>>]
struct(n, o, c) ==
  [int_field(n, o, c) EXCEPT !.kind = "struct", !.nested = Address, !.element_size = 3]
MCTable ==
  [d \in {Sample, Address} |->
     IF d = Address
     THEN [name |-> zip, size |-> 3, has_fields |-> TRUE,
           fields |-> <<[int_field(city, 0, 1) EXCEPT !.kind = "char_array", !.char_buffer_size = 2],
                        [int_field(zip, 2, 1) EXCEPT !.kind = "unsigned"]>>]
     ELSE [name |-> id, size |-> 17, has_fields |-> TRUE,
           fields |-> <<struct(addresses, 0, 2), int_field(scores, 6, 3),
                        [int_field(ratio, 9, 1) EXCEPT !.kind = "double", !.element_size = 2],
                        int_field(id, 11, 1), struct(home, 12, 1),
                        [int_field(share, 15, 1) EXCEPT !.kind = "float"],
                        [int_field(initial, 16, 1) EXCEPT !.kind = "double"]>>]]

s(n) == Segment(n, NoIndex)
MCStartPaths ==
  {<<>>, <<s(id)>>, <<s(missing)>>, <<s(scores)>>, <<Segment(scores, 1)>>, <<s(home)>>,
   <<Segment(home, 0), s(zip)>>, <<s(addresses)>>, <<Segment(addresses, 2)>>,
   <<Segment(addresses, 1)>>, <<s(initial)>>, <<s(addresses), s(zip)>>, <<Segment(addresses, 0), s(city)>>}
MCNoIndex == -100
MCSizeOf == [k \in {"int", "unsigned", "float", "double"} |-> IF k = "double" THEN 2 ELSE 1]
MCInputs ==
  {Junk} \cup [blank : {FALSE}, v : {-31, NaN} \cup (-2..8)]
         \cup [blank : {TRUE}, v : {-31, -2, 1, 5}]
=============================================================================
