----------------------------- MODULE StructMeta -----------------------------
(***************************************************************************)
(* The descriptors of struct-meta (include/struct_meta/meta/meta.h) as     *)
(* data: a table gives every descriptor its name, size and fields.  What   *)
(* makes a descriptor valid is stated here in plain arithmetic, without    *)
(* the recursion and the size_t tricks of validate.c; DescriptorValidate   *)
(* shows that the code computes it.                                        *)
(***************************************************************************)
EXTENDS Integers, Sequences, FiniteSets

CONSTANTS Descriptors,    \* the descriptors a pointer can name
          NoDescriptor,   \* NULL
          Names,          \* field names and attribute keys
          NoName,         \* NULL or the empty string
          SizeMax         \* SIZE_MAX

ASSUME DescriptorsAssumption == NoDescriptor \notin Descriptors /\ NoName \notin Names
ASSUME SizeAssumption == SizeMax \in Nat \ {0}

Sizes == 0..SizeMax

Kinds == {"int", "unsigned", "float", "double", "char_array", "struct"}

\* field_count and attribute_count are the lengths of the sequences; has_fields and
\* has_attributes tell whether the array they count is there.  keys[i] and values[i] are
\* the two members of attributes[i].
Fields == [name : Names \cup {NoName}, kind : Kinds \cup {"unknown"},
           offset : Sizes, element_size : Sizes, element_count : Sizes,
           char_buffer_size : Sizes, nested : Descriptors \cup {NoDescriptor},
           has_attributes : BOOLEAN, keys : Seq(Names \cup {NoName}),
           values : Seq(Names \cup {NoName})]

DescriptorRecords == [name : Names \cup {NoName}, size : Sizes,
                      has_fields : BOOLEAN, fields : Seq(Fields)]

-----------------------------------------------------------------------------
\* The bytes a field occupies, as a number of any size.
Extent(f) == IF f.kind = "char_array" THEN f.char_buffer_size
             ELSE f.element_count * f.element_size

KeysValid(f) ==
  /\ f.keys # <<>> => f.has_attributes
  /\ \A i \in DOMAIN f.keys : f.keys[i] # NoName
  /\ \A i, j \in DOMAIN f.keys : i # j => f.keys[i] # f.keys[j]

FieldValid(t, d, f) ==
  /\ f.name # NoName /\ f.kind \in Kinds
  /\ f.element_size # 0 /\ f.element_count # 0
  /\ IF f.kind = "char_array" THEN f.char_buffer_size # 0 /\ f.element_count = 1
     ELSE f.char_buffer_size = 0
  /\ f.offset + Extent(f) <= t[d].size
  /\ IF f.kind = "struct"
       THEN f.nested # NoDescriptor /\ f.element_size = t[f.nested].size
     ELSE f.nested = NoDescriptor
  /\ KeysValid(f)

\* Everything about one descriptor but the descriptors nested in it.
LocallyValid(t, d) ==
  /\ t[d].name # NoName /\ t[d].size # 0
  /\ t[d].fields # <<>> => t[d].has_fields
  /\ \A i \in DOMAIN t[d].fields : FieldValid(t, d, t[d].fields[i])

Nested(t, d) == {t[d].fields[i].nested : i \in DOMAIN t[d].fields} \ {NoDescriptor}

Reachable(t, r) ==
  {d \in Descriptors :
     \A S \in SUBSET Descriptors :
        (r \in S /\ \A e \in S : Nested(t, e) \subseteq S) => d \in S}

\* Every set of descriptors has one that nests none of the set.
Acyclic(t, S) ==
  \A T \in SUBSET S : T # {} => \E d \in T : Nested(t, d) \cap T = {}

\* What struct_meta_descriptor_validate promises of a descriptor.
Valid(t, r) ==
  /\ \A d \in Reachable(t, r) : LocallyValid(t, d)
  /\ Acyclic(t, Reachable(t, r))
=============================================================================
