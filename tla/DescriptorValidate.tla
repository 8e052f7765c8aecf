------------------------- MODULE DescriptorValidate -------------------------
(***************************************************************************)
(* struct_meta_descriptor_validate (meta/validate.c): the recursive check  *)
(* of a descriptor, with the call stack as `frames' and the array that     *)
(* finds cycles (context.stack) as `stack'.                                *)
(***************************************************************************)
EXTENDS StructMeta

CONSTANTS Tables,         \* the tables of descriptors the call may meet
          FirstCapacity   \* 8 in the code

ASSUME TablesAssumption == Tables \subseteq [Descriptors -> DescriptorRecords]
ASSUME CapacityAssumption == FirstCapacity \in Nat \ {0}

VARIABLES table,      \* the descriptors, constant data of the caller
          root,       \* the argument
          frames,     \* calls of validate_descriptor, the running one last
          stack,      \* context.stack[0 .. depth - 1]
          capacity,   \* context.capacity
          ret,        \* the code on its way back, "none" before there is one
          good        \* history: the descriptors found good, in that order

vars == <<table, root, frames, stack, capacity, ret, good>>
data == <<table, root>>

Errors == {"INVALID_ARGUMENT", "CORRUPT_DESCRIPTOR", "OUT_OF_MEMORY"}

Top == frames[Len(frames)]
WithoutLast(s) == SubSeq(s, 1, Len(s) - 1)
Call(d) == [d |-> d, at |-> "enter", i |-> 1]
\* The running call goes on at step `at' with field i.
Resume(at, i) == Append(WithoutLast(frames), [Top EXCEPT !.at = at, !.i = i])
Found(g, d) == \E k \in 1..Len(g) : g[k] = d
CurrentField == table[Top.d].fields[Top.i]

Init ==
  /\ table \in Tables
  /\ root \in Descriptors \cup {NoDescriptor}
  /\ frames = IF root = NoDescriptor THEN <<>> ELSE <<Call(root)>>
  /\ ret = IF root = NoDescriptor THEN "INVALID_ARGUMENT" ELSE "none"
  /\ stack = <<>> /\ capacity = 0
  /\ good = <<>>

Running(at) == ret = "none" /\ frames # <<>> /\ Top.at = at

\* The running call returns an error after context->depth--.
Reject ==
  /\ ret' = "CORRUPT_DESCRIPTOR"
  /\ frames' = WithoutLast(frames) /\ stack' = WithoutLast(stack)
  /\ UNCHANGED <<data, capacity, good>>

HeaderOK(r) ==
  /\ r.name # NoName /\ r.size # 0
  /\ r.fields # <<>> => r.has_fields

\* Mutant: only the direct parent is compared.
OnStackParent(s, d) == s # <<>> /\ s[Len(s)] = d

OnStack(s, d) == \E i \in 1..Len(s) : s[i] = d

\* A bad header or a descriptor already on the stack: nothing has been pushed.
EnterRejects ==
  /\ Running("enter")
  /\ ~HeaderOK(table[Top.d]) \/ OnStack(stack, Top.d)
  /\ ret' = "CORRUPT_DESCRIPTOR" /\ frames' = WithoutLast(frames)
  /\ UNCHANGED <<data, stack, capacity, good>>

EnterOutOfMemory ==
  /\ Running("enter") /\ HeaderOK(table[Top.d]) /\ ~OnStack(stack, Top.d)
  /\ Len(stack) = capacity
  /\ ret' = "OUT_OF_MEMORY" /\ frames' = WithoutLast(frames)
  /\ UNCHANGED <<data, stack, capacity, good>>

push_descriptor ==
  /\ Running("enter") /\ HeaderOK(table[Top.d]) /\ ~OnStack(stack, Top.d)
  /\ stack' = Append(stack, Top.d)
  /\ capacity' = IF Len(stack) # capacity THEN capacity
                 ELSE IF capacity = 0 THEN FirstCapacity ELSE capacity * 2
  /\ frames' = Resume("fields", 1)
  /\ UNCHANGED <<data, ret, good>>

-----------------------------------------------------------------------------
\* The checks of the loop body, in the code's unsigned arithmetic.
ShapeOK(f) ==
  /\ f.name # NoName /\ f.kind \in Kinds /\ f.element_size # 0 /\ f.element_count # 0
  /\ \/ /\ f.kind = "char_array" /\ f.char_buffer_size # 0
        /\ f.element_count = 1 /\ f.nested = NoDescriptor
     \/ /\ f.kind # "char_array" /\ f.char_buffer_size = 0
        /\ f.element_count <= SizeMax \div f.element_size

FieldSize(f) == IF f.kind = "char_array" THEN f.char_buffer_size
                ELSE (f.element_count * f.element_size) % (SizeMax + 1)

\* Mutant: the subtraction is not guarded by offset <= size.
RangeUnguarded(size, f) == FieldSize(f) <= (size - f.offset) % (SizeMax + 1)

RangeOK(size, f) ==
  /\ f.offset <= size
  /\ FieldSize(f) <= (size - f.offset) % (SizeMax + 1)

NestedOK(t, f) ==
  IF f.kind = "struct"
    THEN f.nested # NoDescriptor /\ f.element_size = t[f.nested].size
  ELSE f.nested = NoDescriptor

Checked(t, d, f) == ShapeOK(f) /\ RangeOK(t[d].size, f) /\ NestedOK(t, f)

CheckField ==
  /\ Running("fields") /\ Top.i <= Len(table[Top.d].fields)
  /\ \/ ~Checked(table, Top.d, CurrentField) /\ Reject
     \/ /\ Checked(table, Top.d, CurrentField)
        /\ frames' = IF CurrentField.kind = "struct"
                       THEN Append(Resume("attributes", Top.i), Call(CurrentField.nested))
                     ELSE Resume("attributes", Top.i)
        /\ UNCHANGED <<data, stack, capacity, ret, good>>

validate_attributes(f) ==
  /\ f.keys # <<>> => f.has_attributes
  /\ \A i \in 1..Len(f.keys) : f.keys[i] # NoName
  /\ \A i \in 1..Len(f.keys) : \A j \in (i + 1)..Len(f.keys) : f.keys[i] # f.keys[j]

\* Mutant: the loop forgets to go on with the next field.
CheckAttributesAgain ==
  /\ Running("attributes")
  /\ \/ ~validate_attributes(CurrentField) /\ Reject
     \/ /\ validate_attributes(CurrentField)
        /\ frames' = Resume("fields", Top.i)
        /\ UNCHANGED <<data, stack, capacity, ret, good>>

\* Reached when the nested descriptor, if any, was good.
CheckAttributes ==
  /\ Running("attributes")
  /\ \/ ~validate_attributes(CurrentField) /\ Reject
     \/ /\ validate_attributes(CurrentField)
        /\ frames' = Resume("fields", Top.i + 1)
        /\ UNCHANGED <<data, stack, capacity, ret, good>>

\* The loop is over: the call returns COM_UTIL_OK to its caller.
Return ==
  /\ Running("fields") /\ Top.i > Len(table[Top.d].fields)
  /\ frames' = WithoutLast(frames) /\ stack' = WithoutLast(stack)
  /\ ret' = IF Len(frames) = 1 THEN "OK" ELSE "none"
  /\ good' = IF Found(good, Top.d) THEN good ELSE Append(good, Top.d)
  /\ UNCHANGED <<data, capacity>>

\* Mutant: the result of the nested call is not looked at.
UnwindIgnores ==
  /\ ret \in Errors /\ frames # <<>>
  /\ ret' = "none"
  /\ UNCHANGED <<data, frames, stack, capacity, good>>

\* A caller gets an error from its nested call and returns it.
Unwind ==
  /\ ret \in Errors /\ frames # <<>>
  /\ frames' = WithoutLast(frames) /\ stack' = WithoutLast(stack)
  /\ UNCHANGED <<data, capacity, ret, good>>

Done == frames = <<>> /\ UNCHANGED vars

Next == EnterRejects \/ EnterOutOfMemory \/ push_descriptor \/ CheckField
          \/ CheckAttributes \/ Return \/ Unwind \/ Done

\* A sequential function runs until it returns.
Spec == Init /\ [][Next]_vars /\ WF_vars(Next)

-----------------------------------------------------------------------------
Steps == {"enter", "fields", "attributes"}

TypeOK ==
  /\ table \in Tables /\ root \in Descriptors \cup {NoDescriptor}
  /\ frames \in Seq([d : Descriptors, at : Steps, i : Nat \ {0}])
  /\ \A k \in 1..Len(frames) : frames[k].i <= Len(table[frames[k].d].fields) + 1
  /\ stack \in Seq(Descriptors) /\ good \in Seq(Descriptors)
  /\ capacity \in Nat
  /\ ret \in {"none", "OK"} \cup Errors

\* context.stack holds the descriptors of the calls under way, without repetition
\* and inside its capacity: the recursion is never deeper than there are descriptors.
StackDistinct ==
  /\ \A i, j \in 1..Len(stack) : i # j => stack[i] # stack[j]
  /\ Len(stack) <= capacity
  /\ Len(frames) - 1 <= Len(stack) /\ Len(stack) <= Len(frames)

\* The readers that recurse into a descriptor found good come to an end: everything
\* nested in it was found good before it, and all of it is valid by itself.
GoodIsWellFounded ==
  \A k \in 1..Len(good) :
    /\ LocallyValid(table, good[k])
    /\ \A n \in Nested(table, good[k]) : \E j \in 1..(k - 1) : good[j] = n

\* The verdict is the one StructMeta defines: accepted are exactly the descriptors
\* whose whole graph is valid and free of cycles; running out of memory and NULL
\* are told apart from a bad descriptor.
VerdictExact ==
  /\ ret = "OK" => Valid(table, root)
  /\ ret = "CORRUPT_DESCRIPTOR" => ~Valid(table, root)
  /\ ret = "INVALID_ARGUMENT" <=> root = NoDescriptor

\* Every call returns, whatever the descriptors point at.
Returns == <>(frames = <<>> /\ ret # "none")
=============================================================================
