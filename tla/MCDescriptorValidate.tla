------------------------ MODULE MCDescriptorValidate ------------------------
\* Tables for TLC: three descriptors, each with one of a few contents, so that every
\* check of validate.c is met alone and below another descriptor.  A cycle by value
\* passes the size checks only when all its descriptors have one size.
EXTENDS DescriptorValidate

CONSTANTS A, B, C, x, y

int_field == [name |-> x, kind |-> "int", offset |-> 0, element_size |-> 2, element_count |-> 1,
        char_buffer_size |-> 0, nested |-> NoDescriptor, has_attributes |-> FALSE,
        keys |-> <<>>, values |-> <<>>]
text == [int_field EXCEPT !.kind = "char_array", !.element_size = 1, !.char_buffer_size = 2]
struct(d, n) == [int_field EXCEPT !.kind = "struct", !.element_size = n, !.nested = d]
keyed(ks) == [int_field EXCEPT !.has_attributes = TRUE, !.keys = ks, !.values = ks]
record(n, fs) == [name |-> x, size |-> n, has_fields |-> TRUE, fields |-> fs]

GoodFields == {int_field, text, keyed(<<x, y>>), [int_field EXCEPT !.offset = 2]}
BadFields ==
  {[int_field EXCEPT !.name = NoName], [int_field EXCEPT !.kind = "unknown"],
   [int_field EXCEPT !.element_size = 0], [int_field EXCEPT !.element_count = 0],
   [int_field EXCEPT !.char_buffer_size = 1], [int_field EXCEPT !.nested = A],
   [int_field EXCEPT !.element_size = 5, !.element_count = 4],
   [int_field EXCEPT !.offset = 3], [int_field EXCEPT !.offset = 6],
   [text EXCEPT !.char_buffer_size = 0], [text EXCEPT !.element_count = 2],
   [text EXCEPT !.nested = C], [text EXCEPT !.char_buffer_size = 5],
   struct(NoDescriptor, 4), struct(B, 3),
   [keyed(<<x>>) EXCEPT !.has_attributes = FALSE], keyed(<<NoName>>), keyed(<<x, y, x>>)}

OfA == {record(4, <<struct(d, 4)>>) : d \in {A, B, C}}
         \cup {record(4, <<struct(d, 4), struct(e, 4)>>) : d \in {B, C}, e \in {B, C}}
         \cup {record(4, <<[struct(C, 2) EXCEPT !.element_count = 2], int_field>>)}
OfB == {record(4, <<f>>) : f \in GoodFields \cup BadFields}
         \cup {record(4, <<int_field, struct(d, 4)>>) : d \in {A, B, C}}
         \cup {record(4, <<struct(C, 2), f>>) : f \in {int_field, keyed(<<NoName>>)}}
OfC == {record(n, <<f>>) : n \in {2, 4}, f \in {int_field, text, struct(A, 4), struct(B, 4)}}
         \cup {record(4, <<>>), record(0, <<>>), [record(4, <<int_field>>) EXCEPT !.name = NoName],
               [record(4, <<int_field>>) EXCEPT !.has_fields = FALSE],
               [record(4, <<>>) EXCEPT !.has_fields = FALSE]}

MCTables == {[d \in Descriptors |-> CASE d = A -> a [] d = B -> b [] d = C -> c] :
               a \in OfA, b \in OfB, c \in OfC}
=============================================================================
