---------------------------- MODULE MCPathResolve ----------------------------
\* Descriptors and paths for TLC.  A (the whole) holds scalars, a text, an array and
\* structures B, B holds C twice; the second table is not valid.
EXTENDS PathResolve

CONSTANTS A, B, C, k, t, a, p, q, missing

int_field(n, o, c) ==
  [name |-> n, kind |-> "int", offset |-> o, element_size |-> 1, element_count |-> c,
   char_buffer_size |-> 0, nested |-> NoDescriptor, has_attributes |-> FALSE,
   keys |-> <<>>, values |-> <<>>]
text(n, o, z) == [int_field(n, o, 1) EXCEPT !.kind = "char_array", !.char_buffer_size = z]
struct(n, o, d, z, c) ==
  [int_field(n, o, c) EXCEPT !.kind = "struct", !.nested = d, !.element_size = z]
record(n, fs) == [name |-> k, size |-> n, has_fields |-> TRUE, fields |-> fs]

Table(ofA) ==
  [d \in Descriptors |->
     CASE d = A -> ofA
       [] d = B -> record(5, <<struct(q, 1, C, 2, 2), int_field(k, 0, 1)>>)
       [] d = C -> record(2, <<int_field(a, 0, 2)>>)]
Whole == record(23, <<int_field(k, 0, 1), text(t, 1, 3), int_field(a, 4, 3),
                      struct(p, 8, B, 5, 1), struct(q, 13, B, 5, 2), int_field(k, 7, 1)>>)
MCTables == {Table(Whole), Table(record(2, <<struct(p, 0, B, 5, 1)>>)),
             Table(record(12, <<int_field(a, 0, 12)>>))}

Segment(n) == {<<n>>} \cup {<<n, "[">> \o i \o <<"]">> :
                              i \in {<<"0">>, <<"1">>, <<"2">>, <<"3">>, <<"0", "1">>, <<"1", "1">>,
                                     <<"3", "1">>, <<"3", "2">>, <<"3", "3">>,
                                     <<"1", "0", "0">>}}
Broken == {<<"?">>, <<"1">>, <<"[">>, <<missing>>, <<k, "?">>, <<a, "[", "]">>, <<a, "[", "1">>,
           <<a, "[", "?", "]">>, <<a, "[", "1", "]", "[", "1", "]">>, <<a, "[", a, "]">>}
Good == UNION {Segment(n) : n \in {k, t, a, p, q}}
Inner == {<<k>>, <<q>>, <<q, "[", "1", "]">>, <<q, "[", "2", "]">>, <<a, "[", "1", "]">>}
Last == {<<a>>, <<a, "[", "1", "]">>, <<a, "[", "2", "]">>, <<k>>, <<missing>>}

MCPaths ==
  LET one == Good \cup Broken \cup {<<>>, <<".">>}
      outer == {<<p>>, <<q>>, <<q, "[", "1", "]">>, <<q, "[", "3", "2", "]">>, <<a>>}
      two == {x \o <<".">> \o y : x \in outer \cup Broken, y \in Inner \cup Broken \cup {<<>>}}
      three == {x \o <<".">> \o y \o <<".">> \o z : x \in outer, y \in Inner, z \in Last}
  IN  one \cup two \cup three
=============================================================================
