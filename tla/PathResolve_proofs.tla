------------------------- MODULE PathResolve_proofs -------------------------
(***************************************************************************)
(* For every valid descriptor, path, address and width: resolve_path stays *)
(* inside the instance (InBounds), and it accepts exactly the paths that   *)
(* mean something, with the field and address they mean                    *)
(* (ResolvesAsDenoted).                                                    *)
(*                                                                         *)
(* For the first, the walk is at a descriptor reachable from the root,     *)
(* whose bytes lie inside the instance; a field's bytes then lie inside    *)
(* those of its descriptor and an element's bytes inside those of its      *)
(* field.  For the second, the meaning of the path up to the last dot is   *)
(* where the walk is, and Read tells what has been read of the segment     *)
(* behind that dot.                                                        *)
(***************************************************************************)
EXTENDS PathResolve, SequenceTheorems, WellFoundedInduction, TLAPS

Walking == at \in {"segment", "bracket", "digits", "tail"}

Placed ==
  /\ root # NoDescriptor => instance + table[root].size <= SizeMax + 1
  /\ at # "done" => out = <<>>
  /\ at \in {"enter", "validate"} => address = instance /\ current = root
  /\ at = "validate" => root # NoDescriptor
  /\ at \in {"bracket", "digits"} => ~has_index
  /\ Walking => /\ Valid(table, root) /\ root \in Descriptors
                /\ current \in Reachable(table, root)
                /\ Inside(address, table[current].size)

IInv == TypeOK /\ Placed /\ InBounds

-----------------------------------------------------------------------------
\* Reaching from a descriptor what is nested in it.
LEMMA Closed ==
  ASSUME NEW t, NEW r, NEW d \in Reachable(t, r), NEW n \in Nested(t, d), n \in Descriptors
  PROVE  n \in Reachable(t, r)
<1> SUFFICES ASSUME NEW S \in SUBSET Descriptors,
                    r \in S, \A e \in S : Nested(t, e) \subseteq S
             PROVE  n \in S
  BY DEF Reachable
<1>1. d \in S  BY DEF Reachable
<1> QED  BY <1>1

LEMMA StartsAtRoot ==
  ASSUME NEW t, NEW r \in Descriptors
  PROVE  r \in Reachable(t, r)
BY DEF Reachable

\* Element i of n elements of e bytes ends inside them.
LEMMA ElementFits ==
  ASSUME NEW i \in Nat, NEW n \in Nat, NEW e \in Nat, i < n
  PROVE  i * e \in Nat /\ n * e \in Nat /\ i * e + e <= n * e
<1>1. i * e \in Nat /\ n * e \in Nat  OBVIOUS
<1>2. (i + 1) * e = i * e + e  OBVIOUS
<1>3. i + 1 \in Nat /\ i + 1 <= n  OBVIOUS
<1> DEFINE m == i + 1
<1>4. \A k \in Nat : k <= n => k * e <= n * e  OBVIOUS
<1>5. (i + 1) * e <= n * e  BY <1>3, <1>4
<1> QED  BY <1>1, <1>2, <1>5

\* What a valid field of the current descriptor guarantees.
LEMMA FieldFacts ==
  ASSUME TypeOK, Placed, Walking, NEW i \in DOMAIN table[current].fields
  PROVE  LET f == table[current].fields[i]
         IN  /\ f \in Fields /\ FieldValid(table, current, f)
             /\ f.offset \in Nat /\ f.element_size \in Nat /\ f.element_count \in Nat
             /\ Extent(f) \in Nat
             /\ f.offset + Extent(f) <= table[current].size
             /\ i \in Nat
<1> DEFINE f == table[current].fields[i]
<1>1. current \in Descriptors /\ LocallyValid(table, current)
  BY DEF Placed, Valid, Reachable
<1>2. table[current] \in DescriptorRecords  BY <1>1, TablesAssumption DEF TypeOK
<1>3. f \in Fields /\ i \in Nat  BY <1>2 DEF DescriptorRecords
<1>4. FieldValid(table, current, f)  BY <1>1 DEF LocallyValid
<1>5. /\ f.offset \in Nat /\ f.element_size \in Nat /\ f.element_count \in Nat
      /\ f.char_buffer_size \in Nat
  BY <1>3, SizeAssumption DEF Fields, Sizes
<1>6. Extent(f) \in Nat  BY <1>5 DEF Extent
<1> QED  BY <1>3, <1>4, <1>5, <1>6 DEF FieldValid

\* A number that stays inside the instance does not wrap.
LEMMA NoWrap ==
  ASSUME TypeOK, Placed, root \in Descriptors, NEW a \in Nat,
         a <= instance + table[root].size, a < instance + table[root].size
  PROVE  Wrap(a) = a
<1>1. instance + table[root].size <= SizeMax + 1
  BY DescriptorsAssumption DEF Placed
<1>2. table[root].size \in Nat
  BY TablesAssumption, SizeAssumption DEF TypeOK, DescriptorRecords, Sizes
<1>3. instance \in Nat  BY InstancesAssumption DEF TypeOK
<1>4. a <= SizeMax  BY <1>1, <1>2, <1>3, SizeAssumption
<1> QED  BY <1>4, SizeAssumption DEF Wrap

\* A wrapped number is a size.
LEMMA WrapsIntoSizes ==
  ASSUME NEW n \in Int
  PROVE  Wrap(n) \in Sizes
<1> DEFINE k == SizeMax + 1
<1>1. k \in Nat \ {0} /\ k - 1 = SizeMax  BY SizeAssumption
<1> HIDE DEF k
<1>2. n % k \in 0..(k - 1)  BY <1>1
<1>3. Wrap(n) = n % k  BY DEF Wrap, k
<1> QED  BY <1>1, <1>2, <1>3 DEF Sizes

\* The numbers the walk works with.
LEMMA Numbers ==
  ASSUME IInv
  PROVE  /\ instance \in Nat \ {0} /\ address \in Nat /\ value \in Nat /\ index \in Nat
         /\ \A d \in Descriptors : table[d].size \in Nat
         /\ Walking => current \in Descriptors /\ root \in Descriptors
BY TablesAssumption, InstancesAssumption, SizeAssumption
   DEF IInv, TypeOK, Placed, Reachable, DescriptorRecords, Sizes

-----------------------------------------------------------------------------
LEMMA InitInv ==
  ASSUME Init
  PROVE  IInv
<1>1. address \in Nat  BY InstancesAssumption DEF Init
<1>2. TypeOK
  <2>1. 0 \in Sizes  BY SizeAssumption DEF Sizes
  <2>2. at = "enter" /\ at \in Positions /\ ret \in Codes /\ has_index \in BOOLEAN
    BY DEF Init, Positions, Codes
  <2>3. cursor \in Nat \ {0} /\ field \in Nat /\ value \in Nat /\ index \in Sizes
    BY <2>1 DEF Init
  <2>4. ~(at \in {"bracket", "digits", "tail"})  BY <2>2
  <2> QED  BY <1>1, <2>2, <2>3, <2>4 DEF Init, TypeOK
<1>3. Placed  BY DEF Init, Placed, Walking
<1>4. InBounds  BY DEF Init, InBounds
<1> QED  BY <1>2, <1>3, <1>4 DEF IInv

\* A failure leaves the walk where it was and both outputs NULL.
LEMMA FailStep ==
  ASSUME IInv, at # "done", NEW code \in Codes, Fail(code)
  PROVE  IInv'
<1>1. TypeOK'  BY DEF IInv, TypeOK, Fail, arguments, Positions, F
<1>2. out' = <<>>  BY DEF IInv, Placed, Fail
<1>3. Placed'  BY <1>2 DEF IInv, Placed, Fail, arguments, Walking
<1>4. InBounds'  BY <1>2 DEF InBounds, Fail
<1> QED  BY <1>1, <1>3, <1>4 DEF IInv

LEMMA EnterStep ==
  ASSUME IInv, Enter
  PROVE  IInv'
<1>1. at = "enter" /\ at' \in {"validate", "done"} /\ out' = <<>>
  BY DEF Enter, IInv, Placed
<1>2. TypeOK'
  <2>1. cleared' \subseteq Outputs  BY DEF Enter, Cleared, Outputs
  <2> QED  BY <1>1, <2>1 DEF IInv, TypeOK, Enter, arguments, Positions, Codes, F
<1>3. Placed'  BY <1>1 DEF IInv, Placed, Enter, Missing, arguments, Walking
<1>4. InBounds'  BY <1>1 DEF InBounds
<1> QED  BY <1>2, <1>3, <1>4 DEF IInv

LEMMA ValidateStep ==
  ASSUME IInv, Validate
  PROVE  IInv'
<1>1. at # "done"  BY DEF Validate
<1>2. CASE \E c \in Codes : Fail(c)
  BY <1>1, <1>2, FailStep
<1>3. CASE /\ Valid(table, root) /\ at' = "segment"
           /\ UNCHANGED <<arguments, cursor, current, address, field, value, index,
                          has_index, ret, cleared, out>>
  <2>1. root \in Descriptors  BY DEF IInv, TypeOK, Placed, Validate
  <2>2. current = root /\ address = instance  BY DEF IInv, Placed, Validate
  <2>3. root \in Reachable(table, root)  BY <2>1, StartsAtRoot
  <2>4. Inside(address, table[current].size)  BY <2>1, <2>2, Numbers DEF Inside
  <2>5. TypeOK'  BY <1>3 DEF IInv, TypeOK, arguments, Positions, F
  <2>6. Placed'
    BY <1>3, <2>1, <2>2, <2>3, <2>4 DEF IInv, Placed, arguments, Walking, Inside, Validate
  <2>7. InBounds'
    <3>1. out' = <<>>  BY <1>1, <1>3 DEF IInv, Placed
    <3> QED  BY <1>3, <2>4, <3>1 DEF InBounds, Inside, arguments
  <2> QED  BY <2>5, <2>6, <2>7 DEF IInv
<1>4. QED  BY <1>2, <1>3 DEF Validate, Codes

\* A field lies in the instance, at an address that does not wrap.
LEMMA FieldInside ==
  ASSUME IInv, at = "segment", NEW i \in DOMAIN table[current].fields
  PROVE  LET f == table[current].fields[i]
         IN  /\ address + f.offset \in Nat /\ Wrap(address + f.offset) = address + f.offset
             /\ Inside(address + f.offset, Extent(f))
<1> DEFINE f == table[current].fields[i]
<1>1. Walking  BY DEF Walking
<1>2. /\ FieldValid(table, current, f) /\ f.offset \in Nat /\ Extent(f) \in Nat
      /\ f.offset + Extent(f) <= table[current].size
  BY <1>1, FieldFacts DEF IInv
<1>3. Extent(f) # 0
  <2>1. f.element_count \in Nat \ {0} /\ f.element_size \in Nat \ {0}
    BY <1>1, <1>2, FieldFacts DEF IInv, FieldValid
  <2>2. f.element_count * f.element_size # 0  BY <2>1
  <2> QED  BY <1>2, <2>2 DEF Extent, FieldValid
<1>4. /\ current \in Descriptors /\ root \in Descriptors
      /\ address \in Nat /\ instance \in Nat
      /\ table[current].size \in Nat /\ table[root].size \in Nat
  BY <1>1, Numbers
<1>5. instance <= address /\ address + table[current].size <= instance + table[root].size
  BY <1>1 DEF IInv, Placed, Inside
<1> HIDE DEF f
<1>6. /\ instance <= address + f.offset
      /\ address + f.offset + Extent(f) <= instance + table[root].size
      /\ address + f.offset < instance + table[root].size
      /\ address + f.offset \in Nat
  BY <1>2, <1>3, <1>4, <1>5
<1>7. Wrap(address + f.offset) = address + f.offset
  BY <1>4, <1>6, NoWrap DEF IInv
<1> QED  BY <1>6, <1>7 DEF f, Inside

\* So does an element of the field.
LEMMA ElementInside ==
  ASSUME IInv, at = "digits", IndexOK(F, index)
  PROVE  LET a == value + index * F.element_size
         IN  /\ a \in Nat /\ Wrap(a) = a /\ Inside(a, F.element_size)
             /\ index < F.element_count
<1> DEFINE e == F.element_size
           n == F.element_count
<1>1. Walking /\ field \in DOMAIN table[current].fields  BY DEF Walking, IInv, TypeOK
<1>2. e \in Nat \ {0} /\ n \in Nat /\ FieldValid(table, current, F)
  BY <1>1, FieldFacts DEF IInv, F, FieldValid
<1>3. index \in Nat /\ index < n /\ Extent(F) = n * e
  BY Numbers DEF IndexOK, Extent
<1>4. value \in Nat /\ instance \in Nat /\ table[root].size \in Nat /\ root \in Descriptors
  BY <1>1, Numbers
<1>5. instance <= value /\ value + n * e <= instance + table[root].size
  BY <1>3 DEF IInv, InBounds, Inside
<1> HIDE DEF e, n
<1>6. index * e \in Nat /\ n * e \in Nat /\ index * e + e <= n * e
  BY <1>2, <1>3, ElementFits
<1>7. /\ instance <= value + index * e
      /\ value + index * e + e <= instance + table[root].size
      /\ value + index * e < instance + table[root].size
      /\ value + index * e \in Nat
  BY <1>2, <1>4, <1>5, <1>6
<1>8. Wrap(value + index * e) = value + index * e
  BY <1>4, <1>7, NoWrap DEF IInv
<1> QED  BY <1>3, <1>7, <1>8 DEF e, n, Inside

LEMMA FindFieldStep ==
  ASSUME IInv, FindField
  PROVE  IInv'
<1>1. at = "segment" /\ at # "done" /\ Walking  BY DEF FindField, Walking
<1>2. CASE \E c \in Codes : Fail(c)
  BY <1>1, <1>2, FailStep
<1>3. ASSUME NEW i \in DOMAIN table[current].fields,
             field' = i, value' = Wrap(address + table[current].fields[i].offset),
             index' = 0, has_index' = FALSE, cursor' = cursor + 1, at' = "bracket",
             UNCHANGED <<arguments, current, address, ret, cleared, out>>
      PROVE  IInv'
  <2> DEFINE f == table[current].fields[i]
  <2>1. /\ value' = address + f.offset /\ address + f.offset \in Nat
        /\ Inside(address + f.offset, Extent(f))
    BY <1>1, <1>3, FieldInside
  <2>2. i \in Nat  BY <1>1, FieldFacts DEF IInv
  <2>3. TypeOK'
    <3>1. value' \in Nat /\ 0 \in Sizes /\ cursor' \in Nat \ {0}
      BY <1>3, <2>1, SizeAssumption DEF IInv, TypeOK, Sizes
    <3> QED  BY <1>3, <2>2, <3>1 DEF IInv, TypeOK, arguments, Positions
  <2>4. Placed'  BY <1>1, <1>3 DEF IInv, Placed, Walking, arguments, Inside
  <2>5. InBounds'
    <3>1. out' = <<>>  BY <1>1, <1>3 DEF IInv, Placed
    <3>2. F' = f  BY <1>3 DEF F, arguments
    <3>3. Inside(value, Extent(F))'
      BY <1>3, <2>1, <3>2 DEF Inside, arguments, Extent
    <3> QED  BY <1>3, <3>1, <3>3 DEF InBounds
  <2> QED  BY <2>3, <2>4, <2>5 DEF IInv
<1>4. QED  BY <1>2, <1>3 DEF FindField, Codes

LEMMA OpenBracketStep ==
  ASSUME IInv, OpenBracket
  PROVE  IInv'
<1>1. at = "bracket" /\ at # "done" /\ Walking  BY DEF OpenBracket, Walking
<1>2. CASE \E c \in Codes : Fail(c)
  BY <1>1, <1>2, FailStep
<1>3. CASE /\ at' \in {"tail", "digits"} /\ cursor' \in {cursor, cursor + 1}
           /\ UNCHANGED <<arguments, current, address, field, value, index, has_index, ret, cleared, out>>
  <2>0. ~has_index /\ field \in DOMAIN table[current].fields /\ F' = F
    BY <1>1, <1>3 DEF IInv, Placed, TypeOK, F, arguments
  <2>1. TypeOK'
    <3>1. cursor' \in Nat \ {0}  BY <1>3 DEF IInv, TypeOK
    <3> QED  BY <1>3, <2>0, <3>1 DEF IInv, TypeOK, arguments, Positions
  <2>2. Placed'  BY <1>1, <1>3, <2>0 DEF IInv, Placed, Walking, arguments, Inside
  <2>3. InBounds'
    <3>1. out' = <<>>  BY <1>1, <1>3 DEF IInv, Placed
    <3>2. Inside(value, Extent(F))  BY <1>1 DEF IInv, InBounds
    <3> QED  BY <1>3, <2>0, <3>1, <3>2 DEF InBounds, Inside, arguments, Usable, Extent
  <2> QED  BY <2>1, <2>2, <2>3 DEF IInv
<1>4. QED  BY <1>2, <1>3 DEF OpenBracket, Codes

LEMMA DigitStep ==
  ASSUME IInv, Digit
  PROVE  IInv'
<1>1. at = "digits" /\ at # "done" /\ Walking  BY DEF Digit, Walking
<1>2. CASE \E c \in Codes : Fail(c)
  BY <1>1, <1>2, FailStep
<1>3. CASE /\ index' = Wrap(index * 10 + DigitValue(Token(cursor)))
           /\ ~Overflows(index, DigitValue(Token(cursor))) /\ IsDigit(Token(cursor))
           /\ cursor' = cursor + 1
           /\ UNCHANGED <<arguments, at, current, address, field, value, has_index, ret, cleared, out>>
  <2>0. ~has_index /\ field \in DOMAIN table[current].fields /\ F' = F
    BY <1>1, <1>3 DEF IInv, Placed, TypeOK, F, arguments
  <2>1. DigitValue(Token(cursor)) \in Int
    <3> DEFINE c == Token(cursor)
    <3>1. PICK k \in 1..10 : Digits[k] = c  BY <1>3 DEF IsDigit
    <3>2. k - 1 \in 0..9 /\ Digits[(k - 1) + 1] = c
      <4>1. k - 1 \in 0..9 /\ (k - 1) + 1 = k  BY <3>1
      <4> QED  BY <3>1, <4>1
    <3>3. \E v \in 0..9 : Digits[v + 1] = c  BY <3>2
    <3>4. DigitValue(c) \in 0..9  BY <3>3 DEF DigitValue
    <3> QED  BY <3>4
  <2>2. index' \in Sizes
    <3> DEFINE v == DigitValue(Token(cursor))
    <3>1. index \in Int  BY Numbers
    <3> HIDE DEF v
    <3>2. index * 10 + v \in Int  BY <2>1, <3>1 DEF v
    <3>3. index' = Wrap(index * 10 + v)  BY <1>3 DEF v
    <3> QED  BY <3>2, <3>3, WrapsIntoSizes
  <2>3. TypeOK'
    <3>1. cursor' \in Nat \ {0}  BY <1>3 DEF IInv, TypeOK
    <3> QED  BY <1>1, <1>3, <2>0, <2>2, <3>1 DEF IInv, TypeOK, arguments, Positions
  <2>4. Placed'  BY <1>1, <1>3, <2>0 DEF IInv, Placed, Walking, arguments, Inside
  <2>5. InBounds'
    <3>1. out' = <<>>  BY <1>1, <1>3 DEF IInv, Placed
    <3>2. Inside(value, Extent(F))  BY <1>1 DEF IInv, InBounds
    <3> QED  BY <1>1, <1>3, <2>0, <3>1, <3>2 DEF InBounds, Inside, arguments, Extent
  <2> QED  BY <2>3, <2>4, <2>5 DEF IInv
<1>4. QED  BY <1>2, <1>3 DEF Digit, Codes

LEMMA CloseBracketStep ==
  ASSUME IInv, CloseBracket
  PROVE  IInv'
<1>1. at = "digits" /\ at # "done" /\ Walking  BY DEF CloseBracket, Walking
<1>2. CASE \E c \in Codes : Fail(c)
  BY <1>1, <1>2, FailStep
<1>3. CASE /\ IndexOK(F, index) /\ value' = Wrap(value + index * F.element_size)
           /\ has_index' = TRUE /\ cursor' = cursor + 1 /\ at' = "tail"
           /\ UNCHANGED <<arguments, current, address, field, index, ret, cleared, out>>
  <2>0. field \in DOMAIN table[current].fields /\ F' = F
    BY <1>1, <1>3 DEF IInv, TypeOK, F, arguments
  <2>1. LET a == value + index * F.element_size
        IN  value' = a /\ a \in Nat /\ Inside(a, F.element_size) /\ index < F.element_count
    BY <1>1, <1>3, ElementInside
  <2>2. TypeOK'
    <3>1. value' \in Nat /\ cursor' \in Nat \ {0}  BY <1>3, <2>1 DEF IInv, TypeOK
    <3> QED  BY <1>3, <2>0, <2>1, <3>1 DEF IInv, TypeOK, arguments, Positions
  <2>3. Placed'  BY <1>1, <1>3 DEF IInv, Placed, Walking, arguments, Inside
  <2>4. InBounds'
    <3>1. out' = <<>>  BY <1>1, <1>3 DEF IInv, Placed
    <3>2. Usable(F, has_index)' = F.element_size  BY <1>3, <2>0 DEF Usable
    <3>3. Inside(value, Usable(F, has_index))'
      BY <1>3, <2>1, <3>2 DEF Inside, arguments
    <3> QED  BY <1>3, <3>1, <3>3 DEF InBounds
  <2> QED  BY <2>2, <2>3, <2>4 DEF IInv
<1>4. QED  BY <1>2, <1>3 DEF CloseBracket, Codes

LEMMA FinishStep ==
  ASSUME IInv, Finish
  PROVE  IInv'
<1>1. at = "tail" /\ Walking /\ at' = "done"  BY DEF Finish, Walking
<1>2. TypeOK'  BY <1>1 DEF IInv, TypeOK, Finish, arguments, Positions, Codes
<1>3. Placed'  BY <1>1 DEF IInv, Placed, Finish, Walking, arguments
<1>4. InBounds'
  <2>1. Inside(value, Usable(F, has_index))  BY <1>1 DEF IInv, InBounds
  <2> DEFINE o == [d |-> current, i |-> field, value |-> value]
  <2>2. out' = <<o>> /\ out'[1] = o  BY DEF Finish
  <2>3. o.value = value /\ table[o.d].fields[o.i] = F  BY DEF F
  <2>4. table' = table /\ has_index' = has_index /\ instance' = instance /\ root' = root
    BY DEF Finish, arguments
  <2> HIDE DEF o
  <2> QED  BY <1>1, <2>1, <2>2, <2>3, <2>4 DEF InBounds, Inside, Usable, Extent
<1> QED  BY <1>2, <1>3, <1>4 DEF IInv

LEMMA DescendStep ==
  ASSUME IInv, Descend
  PROVE  IInv'
<1>1. at = "tail" /\ at # "done" /\ Walking  BY DEF Descend, Walking
<1>2. CASE \E c \in Codes : Fail(c)
  BY <1>1, <1>2, FailStep
<1>3. CASE /\ Enterable(F, has_index)
           /\ current' = F.nested /\ address' = value
           /\ cursor' = cursor + 1 /\ at' = "segment"
           /\ UNCHANGED <<arguments, field, value, index, has_index, ret, cleared, out>>
  <2>0. field \in DOMAIN table[current].fields  BY <1>1 DEF IInv, TypeOK
  <2>1. /\ FieldValid(table, current, F) /\ F \in Fields
        /\ F.element_size \in Nat /\ F.element_count \in Nat
    BY <1>1, <2>0, FieldFacts DEF IInv, F
  <2>2. F.nested \in Descriptors /\ F.element_size = table[F.nested].size
    BY <1>3, <2>1 DEF Enterable, FieldValid, Fields
  <2>3. F.nested \in Reachable(table, root)
    <3>1. F.nested \in Nested(table, current)
      BY <2>0, <2>2, DescriptorsAssumption DEF Nested, F
    <3> QED  BY <1>1, <2>2, <3>1, Closed DEF IInv, Placed
  <2>4. Usable(F, has_index) = F.element_size
    <3>1. CASE has_index  BY <3>1 DEF Usable
    <3>2. CASE ~has_index
      <4>1. F.element_count = 1  BY <1>3, <2>1, <3>2 DEF Enterable, FieldValid
      <4> QED  BY <1>3, <2>1, <3>2, <4>1 DEF Usable, Extent, Enterable
    <3> QED  BY <3>1, <3>2 DEF IInv, TypeOK
  <2>5. Inside(value, table[F.nested].size)
    BY <1>1, <2>2, <2>4 DEF IInv, InBounds
  <2>6. TypeOK'
    <3>1. address' \in Nat /\ cursor' \in Nat \ {0} /\ current' \in Descriptors
      BY <1>3, <2>2 DEF IInv, TypeOK
    <3> QED  BY <1>3, <3>1 DEF IInv, TypeOK, arguments, Positions
  <2>7. Placed'
    <3>1. (Inside(address, table[current].size))'
      BY <1>3, <2>5 DEF Inside, arguments
    <3> QED  BY <1>1, <1>3, <2>3, <3>1 DEF IInv, Placed, Walking, arguments
  <2>8. InBounds'
    <3>1. out' = <<>>  BY <1>1, <1>3 DEF IInv, Placed
    <3> QED  BY <1>3, <2>5, <3>1 DEF InBounds, Inside, arguments
  <2> QED  BY <2>6, <2>7, <2>8 DEF IInv
<1>4. QED  BY <1>2, <1>3 DEF Descend, Codes

LEMMA StutterStep ==
  ASSUME IInv, UNCHANGED vars
  PROVE  IInv'
<1>1. TypeOK'  BY DEF IInv, TypeOK, vars, F
<1>2. Placed'  BY DEF IInv, Placed, vars, Walking, Inside
<1>3. InBounds'  BY DEF IInv, InBounds, vars, Inside, Usable, Extent, F
<1> QED  BY <1>1, <1>2, <1>3 DEF IInv

\* The strengthened invariant holds in every reachable state.
LEMMA Invariance == Spec => []IInv
<1>1. Init => IInv  BY InitInv
<1>2. IInv /\ [Next]_vars => IInv'
  BY EnterStep, ValidateStep, FindFieldStep, OpenBracketStep, DigitStep, CloseBracketStep, FinishStep,
     DescendStep, StutterStep DEF Next, Done
<1> QED  BY <1>1, <1>2, PTL DEF Spec

\* The variables keep their types, and a current field and index that exist.
THEOREM Typing == Spec => []TypeOK
<1>1. IInv => TypeOK  BY DEF IInv
<1> QED  BY <1>1, Invariance, PTL

\* No path, whatever its names and digits, leads outside the instance.
THEOREM StaysInside == Spec => []InBounds
<1>1. IInv => InBounds  BY DEF IInv
<1> QED  BY <1>1, Invariance, PTL

-----------------------------------------------------------------------------
\* A nonempty set of natural numbers has a least one, a bounded one a greatest.
LEMMA LeastNumber ==
  ASSUME NEW S \in SUBSET Nat, S # {}
  PROVE  \E n \in S : \A m \in S : n <= m
<1>1. PICK n \in S : \A m \in S : ~(<<m, n>> \in OpToRel(<, Nat))
  BY NatLessThanWellFounded, WFMin
<1>2. \A m \in S : ~(m < n)  BY <1>1 DEF OpToRel
<1> QED  BY <1>2

LEMMA GreatestNumber ==
  ASSUME NEW S \in SUBSET Nat, S # {}, NEW b \in Nat, \A n \in S : n <= b
  PROVE  \E n \in S : \A m \in S : m <= n
<1> DEFINE T == {b - n : n \in S}
<1>1. T \in SUBSET Nat /\ T # {}
  <2>1. \A n \in S : b - n \in Nat  OBVIOUS
  <2> QED  BY <2>1
<1>2. PICK k \in T : \A m \in T : k <= m  BY <1>1, LeastNumber
<1>3. PICK n \in S : k = b - n  OBVIOUS
<1>4. \A m \in S : b - n <= b - m  BY <1>2, <1>3
<1>5. \A m \in S : m <= n  BY <1>4
<1> QED  BY <1>5

\* The dots of a path follow one another: each but 0 has one before it, each but the end
\* one behind it.
LEMMA DotsAreNumbers ==
  ASSUME NEW p \in Seq(Tokens)
  PROVE  /\ Dots(p) \subseteq 0..(Len(p) + 1) /\ Len(p) \in Nat
         /\ 0 \in Dots(p) /\ Len(p) + 1 \in Dots(p)
BY DEF Dots

LEMMA DotBeforeExists ==
  ASSUME NEW p \in Seq(Tokens), NEW k \in Dots(p), k # 0
  PROVE  DotBefore(p, k) \in Dots(p) /\ DotBefore(p, k) < k /\ Between(p, DotBefore(p, k), k) = {}
<1> DEFINE S == {j \in Dots(p) : j < k}
<1>1. k \in Nat /\ S \in SUBSET Nat /\ 0 \in S  BY DotsAreNumbers
<1>2. PICK j \in S : \A i \in S : i <= j
  <2>1. \A i \in S : i <= k  BY <1>1
  <2> QED  BY <1>1, <2>1, GreatestNumber
<1>3. Between(p, j, k) = {}  BY <1>1, <1>2, DotsAreNumbers DEF Between
<1> QED  BY <1>2, <1>3 DEF DotBefore

LEMMA DotBeforeIs ==
  ASSUME NEW p \in Seq(Tokens), NEW b \in Dots(p), NEW e \in Dots(p), b < e,
         Between(p, b, e) = {}
  PROVE  DotBefore(p, e) = b
<1>1. e # 0  BY DotsAreNumbers
<1>2. /\ DotBefore(p, e) \in Dots(p) /\ DotBefore(p, e) < e
      /\ Between(p, DotBefore(p, e), e) = {}
  BY <1>1, DotBeforeExists
<1>3. b \in Nat /\ DotBefore(p, e) \in Nat /\ e \in Nat  BY <1>2, DotsAreNumbers
<1>4. ~(b < DotBefore(p, e)) /\ ~(DotBefore(p, e) < b)  BY <1>2 DEF Between
<1> QED  BY <1>3, <1>4

LEMMA NextDot ==
  ASSUME NEW p \in Seq(Tokens), NEW b \in Dots(p), b <= Len(p)
  PROVE  \E e \in Dots(p) : b < e /\ Between(p, b, e) = {}
<1> DEFINE S == {j \in Dots(p) : b < j}
<1>1. b \in Nat /\ S \in SUBSET Nat /\ Len(p) + 1 \in S  BY DotsAreNumbers
<1>2. PICK e \in S : \A i \in S : e <= i  BY <1>1, LeastNumber
<1>3. Between(p, b, e) = {}  BY <1>1, <1>2, DotsAreNumbers DEF Between
<1> QED  BY <1>2, <1>3

\* The tokens of the segment between two dots.
LEMMA SegmentTokens ==
  ASSUME NEW p \in Seq(Tokens), NEW b \in Dots(p), NEW e \in Dots(p), b < e,
         Between(p, b, e) = {}
  PROVE  LET s == SegmentTo(p, e)
         IN  /\ s \in Seq(Tokens) /\ Len(s) = e - b - 1
             /\ \A i \in 1..Len(s) : s[i] = p[b + i]
             /\ \A k \in (b + 1)..(e - 1) : k \in 1..Len(p) /\ p[k] # "."
             /\ e \in 1..Len(p) => p[e] = "."
<1>1. b \in Nat /\ e \in Nat /\ e <= Len(p) + 1 /\ Len(p) \in Nat  BY DotsAreNumbers
<1>2. SegmentTo(p, e) = SubSeq(p, b + 1, e - 1)  BY DotBeforeIs DEF SegmentTo
<1>3. \A k \in (b + 1)..(e - 1) : k \in 1..Len(p) /\ p[k] \in Tokens  BY <1>1
<1>4. /\ SubSeq(p, b + 1, e - 1) \in Seq(Tokens)
      /\ Len(SubSeq(p, b + 1, e - 1)) = e - b - 1
      /\ \A i \in 1..(e - b - 1) : SubSeq(p, b + 1, e - 1)[i] = p[b + i]
  <2> DEFINE m == b + 1
             n == e - 1
  <2>1. m \in Int /\ n \in Int /\ \A k \in m..n : p[k] \in Tokens  BY <1>1, <1>3
  <2>2. /\ SubSeq(p, m, n) \in Seq(Tokens)
        /\ Len(SubSeq(p, m, n)) = IF m <= n THEN n - m + 1 ELSE 0
        /\ \A i \in 1..(n - m + 1) : SubSeq(p, m, n)[i] = p[m + i - 1]
    BY <2>1, SubSeqProperties
  <2>3. n - m + 1 = e - b - 1 /\ \A i \in Int : m + i - 1 = b + i  BY <1>1
  <2> QED  BY <1>1, <2>2, <2>3
<1>5. \A k \in (b + 1)..(e - 1) : p[k] # "."  BY <1>1, <1>3 DEF Between, Dots
<1>6. e \in 1..Len(p) => p[e] = "."  BY <1>1 DEF Dots
<1> QED  BY <1>2, <1>3, <1>4, <1>5, <1>6

-----------------------------------------------------------------------------
\* A recursive function exists because it does up to each number: the least number up to
\* which it did not would follow one up to which it does.
WalksUpTo(g, t, r, p, n) ==
  g = [k \in Dots(p) \cap 0..n |->
         IF k = 0 THEN Begin(r)
         ELSE Entered(t, g[DotBefore(p, k)], SegmentTo(p, k), k > Len(p))]

LEMMA WalkUpTo ==
  ASSUME NEW t, NEW r, NEW p \in Seq(Tokens), NEW n \in Nat
  PROVE  \E g : WalksUpTo(g, t, r, p, n)
<1> DEFINE D(m) == Dots(p) \cap 0..m
           Is(g, m) == WalksUpTo(g, t, r, p, m)
           S == {m \in Nat : ~\E g : Is(g, m)}
<1>1. SUFFICES ASSUME S # {} PROVE FALSE  OBVIOUS
<1>2. PICK m \in S : \A i \in S : m <= i  BY <1>1, LeastNumber
<1>3. \A k \in D(m) : k # 0 => m # 0 /\ DotBefore(p, k) \in D(m - 1)
  BY DotBeforeExists, DotsAreNumbers
<1>4. PICK h : m # 0 => Is(h, m - 1)
  <2>1. m # 0 => m - 1 \in Nat /\ ~(m <= m - 1)  BY <1>2
  <2>2. m # 0 => \E h : Is(h, m - 1)  BY <1>2, <2>1
  <2> HIDE DEF Is
  <2> QED  BY <2>2
<1> DEFINE g == [k \in D(m) |->
                   IF k = 0 THEN Begin(r)
                   ELSE Entered(t, h[DotBefore(p, k)], SegmentTo(p, k), k > Len(p))]
<1>5. \A k \in D(m - 1) : m # 0 => k \in D(m) /\ h[k] = g[k]
  <2>1. D(m - 1) \subseteq D(m)  BY <1>2
  <2> QED  BY <1>4, <2>1 DEF WalksUpTo
<1>6. \A k \in D(m) : k # 0 => h[DotBefore(p, k)] = g[DotBefore(p, k)]  BY <1>3, <1>5
<1>7. Is(g, m)  BY <1>6 DEF WalksUpTo
<1> HIDE DEF g, Is
<1> QED  BY <1>2, <1>7

LEMMA WalkIs ==
  ASSUME NEW t, NEW r, NEW p \in Seq(Tokens)
  PROVE  Walk(t, r, p) =
           [k \in Dots(p) |->
              IF k = 0 THEN Begin(r)
              ELSE Entered(t, Walk(t, r, p)[DotBefore(p, k)], SegmentTo(p, k), k > Len(p))]
<1>1. Dots(p) \cap 0..(Len(p) + 1) = Dots(p) /\ Len(p) + 1 \in Nat  BY DotsAreNumbers
<1>2. PICK g : WalksUpTo(g, t, r, p, Len(p) + 1)  BY <1>1, WalkUpTo
<1>3. g = [k \in Dots(p) |->
             IF k = 0 THEN Begin(r)
             ELSE Entered(t, g[DotBefore(p, k)], SegmentTo(p, k), k > Len(p))]
  BY <1>1, <1>2 DEF WalksUpTo
<1> QED  BY <1>3 DEF Walk

\* The walk begins at the root and goes through one segment from each dot to the next.
LEMMA WalkSteps ==
  ASSUME NEW t, NEW r, NEW p \in Seq(Tokens), NEW b \in Dots(p), NEW e \in Dots(p), b < e,
         Between(p, b, e) = {}
  PROVE  /\ Walk(t, r, p)[0] = Begin(r)
         /\ Walk(t, r, p)[e] = Entered(t, Walk(t, r, p)[b], SegmentTo(p, e), e > Len(p))
<1>1. e # 0 /\ 0 \in Dots(p) /\ DotBefore(p, e) = b  BY DotsAreNumbers, DotBeforeIs
<1> DEFINE w == Walk(t, r, p)
<1>2. w = [k \in Dots(p) |->
             IF k = 0 THEN Begin(r)
             ELSE Entered(t, w[DotBefore(p, k)], SegmentTo(p, k), k > Len(p))]
  BY WalkIs
<1> HIDE DEF w
<1>3. w[0] = Begin(r)  BY <1>1, <1>2
<1>4. w[e] = Entered(t, w[b], SegmentTo(p, e), e > Len(p))  BY <1>1, <1>2
<1> QED  BY <1>3, <1>4 DEF w

\* What is refused once is refused to the end.
LEMMA RefusedToTheEnd ==
  ASSUME NEW t, NEW r, NEW p \in Seq(Tokens), NEW k \in Dots(p), ~Walk(t, r, p)[k].ok
  PROVE  ~Denotation(t, r, p).ok
<1> DEFINE S == {j \in Dots(p) : ~Walk(t, r, p)[j].ok}
<1>1. S \in SUBSET Nat /\ k \in S /\ Len(p) + 1 \in Nat /\ \A j \in S : j <= Len(p) + 1
  BY DotsAreNumbers
<1>2. PICK j \in S : \A i \in S : i <= j
  <2> DEFINE n == Len(p) + 1
  <2> HIDE DEF S, n
  <2> QED  BY <1>1, GreatestNumber DEF n
<1>3. j = Len(p) + 1
  <2>1. SUFFICES ASSUME j <= Len(p) PROVE FALSE  BY <1>1, <1>2, DotsAreNumbers
  <2>2. PICK e \in Dots(p) : j < e /\ Between(p, j, e) = {}  BY <1>2, <2>1, NextDot
  <2>3. Walk(t, r, p)[e] = Entered(t, Walk(t, r, p)[j], SegmentTo(p, e), e > Len(p))
    BY <1>2, <2>2, WalkSteps
  <2>4. ~Walk(t, r, p)[e].ok  BY <1>2, <2>3 DEF Entered, Nowhere, Begin
  <2> QED  BY <1>1, <1>2, <2>2, <2>4
<1> QED  BY <1>2, <1>3 DEF Denotation

-----------------------------------------------------------------------------
\* The digits have values, and numerals are read from left to right.
LEMMA DigitsHaveValues ==
  ASSUME NEW c, IsDigit(c)
  PROVE  DigitValue(c) \in 0..9
<1>1. PICK k \in 1..10 : Digits[k] = c  BY DEF IsDigit
<1>2. k - 1 \in 0..9 /\ (k - 1) + 1 = k  BY <1>1
<1>3. \E v \in 0..9 : Digits[v + 1] = c  BY <1>1, <1>2
<1> QED  BY <1>3 DEF DigitValue

ReadUpTo(g, s, n) ==
  g = [k \in 2..n |-> IF k = 2 THEN 0 ELSE g[k - 1] * 10 + DigitValue(s[k])]

LEMMA NumeralUpTo ==
  ASSUME NEW s, NEW n \in Nat
  PROVE  \E g : ReadUpTo(g, s, n)
<1> DEFINE S == {m \in Nat : ~\E g : ReadUpTo(g, s, m)}
<1>1. SUFFICES ASSUME S # {} PROVE FALSE  OBVIOUS
<1>2. PICK m \in S : \A i \in S : m <= i  BY <1>1, LeastNumber
<1>3. PICK h : m # 0 => ReadUpTo(h, s, m - 1)
  <2>1. m # 0 => m - 1 \in Nat /\ ~(m <= m - 1)  BY <1>2
  <2>2. m # 0 => \E h : ReadUpTo(h, s, m - 1)  BY <1>2, <2>1
  <2> QED  BY <2>2
<1> DEFINE g == [k \in 2..m |-> IF k = 2 THEN 0 ELSE h[k - 1] * 10 + DigitValue(s[k])]
<1>4. \A k \in 2..m : k # 2 => k - 1 \in 2..(m - 1) /\ h[k - 1] = g[k - 1]
  <2>1. ASSUME NEW k \in 2..m, k # 2
        PROVE  k - 1 \in 2..(m - 1) /\ k - 1 \in 2..m /\ m # 0
    BY <1>2, <2>1
  <2>2. ASSUME NEW k \in 2..(m - 1), m # 0 PROVE h[k] = g[k]
    <3>1. k \in 2..m  BY <1>2, <2>2
    <3> QED  BY <1>3, <2>2, <3>1 DEF ReadUpTo
  <2> QED  BY <2>1, <2>2
<1>5. ReadUpTo(g, s, m)  BY <1>4 DEF ReadUpTo
<1> HIDE DEF g
<1> QED  BY <1>2, <1>5

LEMMA NumeralIs ==
  ASSUME NEW s \in Seq(Tokens)
  PROVE  /\ Len(s) >= 2 => Numeral(s)[2] = 0
         /\ \A k \in 3..Len(s) : Numeral(s)[k] = Numeral(s)[k - 1] * 10 + DigitValue(s[k])
<1>1. PICK g : ReadUpTo(g, s, Len(s))
  <2>1. Len(s) \in Nat  OBVIOUS
  <2> QED  BY <2>1, NumeralUpTo
<1>2. Numeral(s) =
        [k \in 2..Len(s) |-> IF k = 2 THEN 0 ELSE Numeral(s)[k - 1] * 10 + DigitValue(s[k])]
  BY <1>1 DEF Numeral, ReadUpTo
<1> DEFINE u == Numeral(s)
<1> HIDE DEF u
<1>3. u = [k \in 2..Len(s) |-> IF k = 2 THEN 0 ELSE u[k - 1] * 10 + DigitValue(s[k])]
  BY <1>2 DEF u
<1>4. Len(s) \in Nat  OBVIOUS
<1>5. Len(s) >= 2 => u[2] = 0  BY <1>3, <1>4
<1>6. \A k \in 3..Len(s) : k \in 2..Len(s) /\ k # 2  BY <1>4
<1>7. \A k \in 3..Len(s) : u[k] = u[k - 1] * 10 + DigitValue(s[k])  BY <1>3, <1>6
<1> QED  BY <1>5, <1>7 DEF u

\* More digits never make a smaller number.
LEMMA NumeralGrows ==
  ASSUME NEW s \in Seq(Tokens), NEW m \in 2..Len(s), \A k \in 3..m : IsDigit(s[k]),
         NEW j \in 2..m
  PROVE  /\ Numeral(s)[j] \in Nat /\ Numeral(s)[m] \in Nat
         /\ Numeral(s)[j] <= Numeral(s)[m]
<1> DEFINE u == Numeral(s)
           S == {k \in 2..m : u[k] \notin Nat}
           T == {k \in j..m : ~(u[j] <= u[k])}
<1>1. Len(s) \in Nat  OBVIOUS
<1>2. u[2] = 0 /\ \A k \in 3..m : u[k] = u[k - 1] * 10 + DigitValue(s[k])
  BY <1>1, NumeralIs
<1>3. \A k \in 3..m : DigitValue(s[k]) \in 0..9  BY DigitsHaveValues
<1> HIDE DEF u
<1>4. S = {}
  <2>1. SUFFICES ASSUME S # {} PROVE FALSE  OBVIOUS
  <2>2. S \in SUBSET Nat  OBVIOUS
  <2>3. PICK k \in S : \A i \in S : k <= i  BY <2>1, <2>2, LeastNumber
  <2>4. k \in 3..m /\ k - 1 \in 2..m /\ ~(k <= k - 1)  BY <1>2, <2>3
  <2>5. u[k - 1] \in Nat  BY <2>3, <2>4
  <2>6. u[k] = u[k - 1] * 10 + DigitValue(s[k]) /\ DigitValue(s[k]) \in 0..9
    BY <1>2, <1>3, <2>4
  <2>7. u[k] \in Nat  BY <2>5, <2>6
  <2> QED  BY <2>3, <2>7
<1>5. \A k \in 2..m : u[k] \in Nat  BY <1>4
<1>6. T = {}
  <2>1. SUFFICES ASSUME T # {} PROVE FALSE  OBVIOUS
  <2>2. T \in SUBSET Nat  OBVIOUS
  <2>3. PICK k \in T : \A i \in T : k <= i  BY <2>1, <2>2, LeastNumber
  <2>4. k # j  BY <1>5, <2>3
  <2>5. k \in 3..m /\ k - 1 \in j..m /\ k - 1 \in 2..m /\ ~(k <= k - 1)  BY <2>3, <2>4
  <2>6. u[j] <= u[k - 1]  BY <2>3, <2>5
  <2>7. u[k] = u[k - 1] * 10 + DigitValue(s[k])  BY <1>2, <2>5
  <2>8. u[k - 1] \in Nat /\ u[j] \in Nat /\ DigitValue(s[k]) \in 0..9  BY <1>3, <1>5, <2>5
  <2>9. u[j] <= u[k]  BY <2>6, <2>7, <2>8
  <2> QED  BY <2>3, <2>9
<1>7. m \in j..m  OBVIOUS
<1> QED  BY <1>5, <1>6, <1>7 DEF u

-----------------------------------------------------------------------------
\* What a name, a digit and the end of the text are not.
LEMMA TokenKinds ==
  /\ EndOfText \notin Tokens
  /\ \A c \in Names : ~IsDigit(c) /\ c \notin {"[", "]", ".", EndOfText}
  /\ \A c : IsDigit(c) => c \notin {"[", "]", ".", EndOfText}
<1>1. \A k \in 1..10 : Digits[k] \notin {"[", "]", ".", "?", EndOfText}
  BY DEF Digits, EndOfText
<1>2. \A c : IsDigit(c) => c \in {Digits[k] : k \in 1..10}  BY DEF IsDigit
<1>3. EndOfText \notin {"[", "]", ".", "?"}  BY DEF EndOfText
<1> QED  BY <1>1, <1>2, <1>3, NamesAssumption DEF Tokens

\* The numbers of an index do not wrap where the test lets them through.
LEMMA OverflowsIs ==
  ASSUME NEW i \in Nat, NEW v \in 0..9
  PROVE  Overflows(i, v) <=> i * 10 + v > SizeMax
<1>1. SizeMax \in Nat  BY SizeAssumption
<1> DEFINE n == SizeMax - v
<1>2. n \in Int  BY <1>1
<1> HIDE DEF n
<1>3. i > n \div 10 <=> i * 10 > n  BY <1>2
<1>4. i * 10 > n <=> i * 10 + v > SizeMax  BY <1>1 DEF n
<1> QED  BY <1>3, <1>4 DEF Overflows, n

\* A dot and the one behind it, and the tokens from one to the other.
Piece(b, e) == b \in Dots(path) /\ e \in Dots(path) /\ b < e /\ Between(path, b, e) = {}

LEMMA TokenHere ==
  ASSUME TypeOK, NEW b, NEW e, Piece(b, e), NEW c \in (b + 1)..e
  PROVE  LET s == SegmentTo(path, e)
         IN  /\ path \in Seq(Tokens) /\ s \in Seq(Tokens)
             /\ b \in Nat /\ e \in Nat /\ Len(path) \in Nat /\ e <= Len(path) + 1
             /\ Len(s) = e - b - 1 /\ Len(s) \in Nat
             /\ c < e => /\ Token(c) = s[c - b] /\ c - b \in 1..Len(s)
                         /\ Token(c) \notin {".", EndOfText}
             /\ c = e => Token(c) = IF e <= Len(path) THEN "." ELSE EndOfText
<1>1. path \in Seq(Tokens)  BY PathsAssumption DEF TypeOK
<1>2. b \in Nat /\ e \in Nat /\ Len(path) \in Nat /\ e <= Len(path) + 1 /\ b < e
  BY <1>1, DotsAreNumbers DEF Piece
<1> DEFINE s == SegmentTo(path, e)
<1>3. /\ s \in Seq(Tokens) /\ Len(s) = e - b - 1
      /\ \A i \in 1..Len(s) : s[i] = path[b + i]
      /\ \A k \in (b + 1)..(e - 1) : k \in 1..Len(path) /\ path[k] # "."
      /\ e \in 1..Len(path) => path[e] = "."
  BY <1>1, SegmentTokens DEF Piece
<1> HIDE DEF s
<1>4. ASSUME c < e
      PROVE  /\ Token(c) = s[c - b] /\ c - b \in 1..Len(s)
             /\ Token(c) \notin {".", EndOfText}
  <2>1. c - b \in 1..Len(s) /\ b + (c - b) = c /\ c \in (b + 1)..(e - 1)  BY <1>2, <1>3, <1>4
  <2>2. c \in 1..Len(path) /\ path[c] # "." /\ s[c - b] = path[c]  BY <1>3, <2>1
  <2>3. path[c] \in Tokens  BY <1>1, <2>2
  <2> QED  BY <2>1, <2>2, <2>3, TokenKinds DEF Token
<1>5. ASSUME c = e
      PROVE  Token(c) = IF e <= Len(path) THEN "." ELSE EndOfText
  BY <1>2, <1>3, <1>5 DEF Token
<1>6. Len(s) \in Nat  BY <1>2, <1>3
<1> QED  BY <1>1, <1>2, <1>3, <1>4, <1>5, <1>6 DEF s

\* The field that is looked up is the one the meaning selects.
LEMMA FieldFound ==
  ASSUME NEW t, NEW d, NEW s, NEW i \in Nat, i \in DOMAIN t[d].fields,
         DOMAIN t[d].fields \subseteq Nat \ {0}, find_field(t, d, s[1], i)
  PROVE  FieldOf(t, d, s) = i
<1>1. ASSUME NEW j \in DOMAIN t[d].fields, find_field(t, d, s[1], j) PROVE i = j
  <2>1. i \in Nat \ {0} /\ j \in Nat \ {0}  OBVIOUS
  <2>2. ~(j \in 1..(i - 1)) /\ ~(i \in 1..(j - 1))  BY <1>1 DEF find_field
  <2> QED  BY <2>1, <2>2
<1> QED  BY <1>1 DEF FieldOf

\* So it is at the current descriptor.
LEMMA FieldIsSelected ==
  ASSUME TypeOK, Walking, Placed, NEW s, NEW i \in DOMAIN table[current].fields,
         find_field(table, current, s[1], i)
  PROVE  /\ FieldOf(table, current, s) = i
         /\ Selected(table, current, s) = table[current].fields[i]
         /\ table[current].fields[i] \in Fields
<1>1. current \in Descriptors  BY DEF Placed, Reachable
<1>2. table[current].fields \in Seq(Fields)
  BY <1>1, TablesAssumption DEF TypeOK, DescriptorRecords
<1>3. DOMAIN table[current].fields \subseteq Nat \ {0}  BY <1>2
<1>4. FieldOf(table, current, s) = i  BY <1>3, FieldFound
<1> QED  BY <1>2, <1>4 DEF Selected

-----------------------------------------------------------------------------
\* What has been read of the segment s when its token number c is next.
Read(s, c) ==
  /\ at = "segment" => c = 1
  /\ at \in {"bracket", "digits", "tail"} =>
       /\ c > 1 /\ s[1] \in Names /\ find_field(table, current, s[1], field)
       /\ value = address + F.offset + (IF has_index THEN index * F.element_size ELSE 0)
  /\ at = "bracket" => c = 2 /\ index = 0
  /\ at = "digits" => /\ c > 2 /\ s[2] = "[" /\ Len(s) > 2 /\ IsDigit(s[3])
                      /\ \A k \in 3..(c - 1) : IsDigit(s[k])
                      /\ index = Numeral(s)[c - 1]
  /\ at = "tail" /\ ~has_index => c = 2 /\ Token(cursor) # "["
  /\ at = "tail" /\ has_index =>
       /\ c > 4 /\ s[2] = "[" /\ s[c - 1] = "]"
       /\ \A k \in 3..(c - 2) : IsDigit(s[k])
       /\ index = Numeral(s)[c - 2] /\ IndexOK(F, index)

\* The meaning of the path up to the dot b is where the walk is, in the segment that ends
\* at e.
Here(b, e) ==
  LET w == Walk(table, root, path)[b]
  IN  /\ w.ok /\ w.next = current /\ w.shift \in Nat /\ address = instance + w.shift
      /\ cursor \in (b + 1)..e
      /\ Read(SegmentTo(path, e), cursor - b)

OnTheWay ==
  /\ at # "done" => ret = "none"
  /\ at \in {"enter", "validate"} => cursor = 1
  /\ Walking => \E b, e : Piece(b, e) /\ Here(b, e)

Exact == OnTheWay /\ AcceptsWhatDenotes

-----------------------------------------------------------------------------
\* A segment that is not right makes the path mean nothing.
LEMMA Refused ==
  ASSUME TypeOK, NEW b, NEW e, Piece(b, e), Walk(table, root, path)[b].next = current,
         ~SegmentOK(table, current, SegmentTo(path, e))
  PROVE  ~Denoted.ok
<1>1. path \in Seq(Tokens)  BY PathsAssumption DEF TypeOK
<1>2. Walk(table, root, path)[e] =
        Entered(table, Walk(table, root, path)[b], SegmentTo(path, e), e > Len(path))
  BY <1>1, WalkSteps DEF Piece
<1>3. ~Walk(table, root, path)[e].ok  BY <1>2 DEF Entered, Nowhere, Begin
<1> QED  BY <1>1, <1>3, RefusedToTheEnd DEF Denoted, Piece

\* A failure is exact when the path means nothing.
LEMMA FailIsExact ==
  ASSUME IInv, Exact, at # "done", NEW code, Fail(code), code \notin {"none", "OK"},
         code \in {"INVALID_ARGUMENT", "NOT_FOUND", "OUT_OF_RANGE"} =>
           Missing \/ ~Denoted.ok
  PROVE  Exact'
<1>1. at' = "done" /\ ret' = code  BY DEF Fail
<1>2. UNCHANGED <<table, root, path, outputs>>  BY DEF Fail, arguments
<1>3. Denoted' = Denoted /\ Missing' = Missing  BY <1>2 DEF Denoted, Missing
<1>4. AcceptsWhatDenotes'  BY <1>1, <1>2, <1>3 DEF AcceptsWhatDenotes
<1>5. OnTheWay'  BY <1>1 DEF OnTheWay, Walking
<1> QED  BY <1>4, <1>5 DEF Exact

\* A step that goes on is exact when it is somewhere in the path.
LEMMA GoingOnIsExact ==
  ASSUME IInv, Exact, at # "done", UNCHANGED <<arguments, ret, cleared, out>>,
         at' \in {"segment", "bracket", "digits", "tail"},
         NEW b, NEW e, Piece(b, e), Here(b, e)'
  PROVE  Exact'
<1>1. ret' = "none" /\ at' \notin {"enter", "validate"}  BY DEF Exact, OnTheWay
<1>2. Piece(b, e)'  BY DEF Piece, arguments
<1>3. AcceptsWhatDenotes'  BY <1>1 DEF AcceptsWhatDenotes
<1>4. OnTheWay'  BY <1>1, <1>2 DEF OnTheWay
<1> QED  BY <1>3, <1>4 DEF Exact

LEMMA EnterIsExact ==
  ASSUME IInv, Exact, Enter
  PROVE  Exact'
<1>1. ret = "none" /\ cursor' = 1 /\ UNCHANGED <<table, root, path, outputs>>
  BY DEF Exact, OnTheWay, Enter, arguments
<1>2. CASE Missing /\ at' = "done" /\ ret' = "INVALID_ARGUMENT"
  <2>1. Missing'  BY <1>1, <1>2 DEF Missing
  <2> QED  BY <1>2, <2>1 DEF Exact, OnTheWay, AcceptsWhatDenotes, Walking
<1>3. CASE at' = "validate" /\ UNCHANGED ret
  BY <1>1, <1>3 DEF Exact, OnTheWay, AcceptsWhatDenotes, Walking
<1> QED  BY <1>2, <1>3 DEF Enter

LEMMA ValidateIsExact ==
  ASSUME IInv, Exact, Validate
  PROVE  Exact'
<1>1. at = "validate" /\ at # "done"  BY DEF Validate
<1>2. CASE Fail("CORRUPT_DESCRIPTOR") \/ Fail("OUT_OF_MEMORY")
  BY <1>1, <1>2, FailIsExact
<1>3. CASE /\ at' = "segment"
           /\ UNCHANGED <<arguments, cursor, current, address, field, value, index,
                          has_index, ret, cleared, out>>
  <2>1. path \in Seq(Tokens)  BY PathsAssumption DEF IInv, TypeOK
  <2>2. 0 \in Dots(path) /\ Len(path) \in Nat /\ 0 <= Len(path) /\ Dots(path) \subseteq Nat
    BY <2>1, DotsAreNumbers
  <2>3. PICK e \in Dots(path) : 0 < e /\ Between(path, 0, e) = {}  BY <2>1, <2>2, NextDot
  <2>4. Piece(0, e)  BY <2>2, <2>3 DEF Piece
  <2>5. Walk(table, root, path)[0] = Begin(root)  BY <2>1, <2>2, <2>3, WalkSteps
  <2>6. cursor = 1 /\ address = instance /\ current = root /\ instance \in Nat
    BY <1>1, Numbers DEF Exact, OnTheWay, IInv, Placed
  <2>7. Here(0, e)'
    <3>1. 1 \in (0 + 1)..e /\ 1 - 0 = 1  BY <2>2, <2>3
    <3>2. instance = instance + 0  BY <2>6
    <3> QED  BY <1>3, <2>5, <2>6, <3>1, <3>2 DEF Here, Read, Begin, arguments
  <2> QED  BY <1>1, <1>3, <2>4, <2>7, GoingOnIsExact
<1> QED  BY <1>2, <1>3 DEF Validate

LEMMA FindFieldIsExact ==
  ASSUME IInv, Exact, FindField
  PROVE  Exact'
<1>1. at = "segment" /\ at # "done" /\ Walking /\ TypeOK  BY DEF FindField, Walking, IInv
<1>2. PICK b, e : Piece(b, e) /\ Here(b, e)  BY <1>1 DEF Exact, OnTheWay
<1> DEFINE s == SegmentTo(path, e)
<1>3. /\ Walk(table, root, path)[b].next = current
      /\ cursor \in (b + 1)..e /\ cursor - b = 1
  BY <1>1, <1>2 DEF Here, Read
<1>4. /\ path \in Seq(Tokens) /\ s \in Seq(Tokens) /\ b \in Nat /\ e \in Nat
      /\ Len(s) = e - b - 1 /\ Len(s) \in Nat
      /\ cursor < e => /\ Token(cursor) = s[1] /\ 1 \in 1..Len(s)
                       /\ Token(cursor) \notin {".", EndOfText}
      /\ cursor = e => Token(cursor) \in {".", EndOfText}
  BY <1>1, <1>2, <1>3, TokenHere
<1> HIDE DEF s
<1>5. CASE Token(cursor) \notin Names /\ Fail("INVALID_ARGUMENT")
  <2>1. ~WellFormed(s)
    <3>1. CASE cursor < e  BY <1>4, <1>5, <3>1 DEF WellFormed
    <3>2. CASE cursor = e
      <4>1. Len(s) = 0  BY <1>3, <1>4, <3>2
      <4> QED  BY <1>4, <4>1 DEF WellFormed
    <3> QED  BY <1>3, <1>4, <3>1, <3>2
  <2>2. ~Denoted.ok  BY <1>1, <1>2, <1>3, <2>1, Refused DEF SegmentOK, s
  <2> QED  BY <1>1, <1>5, <2>2, FailIsExact
<1>6. ASSUME Token(cursor) \in Names PROVE cursor < e /\ Token(cursor) = s[1]
  <2>1. cursor # e  BY <1>4, <1>6, TokenKinds
  <2> QED  BY <1>3, <1>4, <2>1
<1>7. CASE /\ Token(cursor) \in Names
           /\ \A i \in DOMAIN table[current].fields : ~Called(table, current, i, Token(cursor))
           /\ Fail("NOT_FOUND")
  <2>1. ~SegmentOK(table, current, s)  BY <1>6, <1>7 DEF SegmentOK
  <2>2. ~Denoted.ok  BY <1>1, <1>2, <1>3, <2>1, Refused DEF s
  <2> QED  BY <1>1, <1>7, <2>2, FailIsExact
<1>8. CASE /\ Token(cursor) \in Names
           /\ \E i \in DOMAIN table[current].fields :
                /\ find_field(table, current, Token(cursor), i)
                /\ field' = i
                /\ value' = Wrap(address + table[current].fields[i].offset)
           /\ index' = 0 /\ has_index' = FALSE
           /\ cursor' = cursor + 1 /\ at' = "bracket"
           /\ UNCHANGED <<arguments, current, address, ret, cleared, out>>
  <2>1. PICK i \in DOMAIN table[current].fields :
          /\ find_field(table, current, Token(cursor), i)
          /\ field' = i
          /\ value' = Wrap(address + table[current].fields[i].offset)
    BY <1>8
  <2>2. /\ value' = address + table[current].fields[i].offset
        /\ value' \in Nat
    BY <1>1, <2>1, FieldInside
  <2>3. F' = table[current].fields[i]  BY <1>8, <2>1 DEF F, arguments
  <2>4. (cursor - b)' = 2 /\ cursor' \in (b + 1)..e  BY <1>3, <1>4, <1>6, <1>8
  <2>5. value' = value' + 0  BY <2>2
  <2>6. Read(s, cursor - b)'
    <3>1. s' = s  BY <1>8 DEF s, arguments
    <3>2. s[1] \in Names /\ find_field(table, current, s[1], field)'
      BY <1>6, <1>8, <2>1, <3>1 DEF arguments
    <3> QED  BY <1>8, <2>2, <2>3, <2>4, <2>5, <3>1, <3>2 DEF Read
  <2>7. Here(b, e)'
    BY <1>2, <1>8, <2>4, <2>6 DEF Here, arguments, s
  <2> QED  BY <1>1, <1>2, <1>8, <2>7, GoingOnIsExact
<1> QED  BY <1>5, <1>7, <1>8 DEF FindField

LEMMA OpenBracketIsExact ==
  ASSUME IInv, Exact, OpenBracket
  PROVE  Exact'
<1>1. at = "bracket" /\ at # "done" /\ Walking /\ TypeOK  BY DEF OpenBracket, Walking, IInv
<1>2. PICK b, e : Piece(b, e) /\ Here(b, e)  BY <1>1 DEF Exact, OnTheWay
<1> DEFINE s == SegmentTo(path, e)
<1>3. /\ Walk(table, root, path)[b].next = current
      /\ cursor \in (b + 1)..e /\ cursor - b = 2 /\ index = 0 /\ ~has_index
  BY <1>1, <1>2 DEF Here, Read, IInv, Placed
<1>4. /\ path \in Seq(Tokens) /\ s \in Seq(Tokens) /\ b \in Nat /\ e \in Nat
      /\ Len(s) = e - b - 1 /\ Len(s) \in Nat
      /\ cursor < e => Token(cursor) = s[2] /\ 2 \in 1..Len(s)
      /\ cursor = e => Token(cursor) \in {".", EndOfText}
  BY <1>1, <1>2, <1>3, TokenHere
<1>5. cursor < e => /\ cursor + 1 \in (b + 1)..e
                    /\ cursor + 1 < e => Token(cursor + 1) = s[3] /\ 3 \in 1..Len(s)
                    /\ cursor + 1 = e => Token(cursor + 1) \in {".", EndOfText}
  <2>1. SUFFICES ASSUME cursor < e
                 PROVE  /\ cursor + 1 \in (b + 1)..e
                        /\ cursor + 1 < e => Token(cursor + 1) = s[3] /\ 3 \in 1..Len(s)
                        /\ cursor + 1 = e => Token(cursor + 1) \in {".", EndOfText}
    OBVIOUS
  <2>2. cursor + 1 \in (b + 1)..e /\ (cursor + 1) - b = 3  BY <1>3, <1>4, <2>1
  <2> QED  BY <1>1, <1>2, <2>2, TokenHere
<1>6. Token(cursor) = "[" => cursor < e
  BY <1>3, <1>4 DEF EndOfText
<1> HIDE DEF s
<1>7. CASE Token(cursor) = "[" /\ ~IsDigit(Token(cursor + 1)) /\ Fail("INVALID_ARGUMENT")
  <2>1. ~WellFormed(s)
    <3>1. SUFFICES ASSUME WellFormed(s) PROVE FALSE  OBVIOUS
    <3>2. Len(s) > 3 /\ IsDigit(s[3])
      <4>1. Indexed(s)  BY <1>4, <1>6, <1>7 DEF Indexed
      <4>2. Len(s) > 3  BY <3>1, <4>1 DEF WellFormed
      <4>3. 3 \in 3..(Len(s) - 1)  BY <1>4, <4>2
      <4> QED  BY <3>1, <4>1, <4>2, <4>3 DEF WellFormed
    <3>3. cursor + 1 < e  BY <1>3, <1>4, <3>2
    <3> QED  BY <1>5, <1>6, <1>7, <3>2, <3>3
  <2>2. ~Denoted.ok  BY <1>1, <1>2, <1>3, <2>1, Refused DEF SegmentOK, s
  <2> QED  BY <1>1, <1>7, <2>2, FailIsExact
<1>8. ASSUME at' \in {"tail", "digits"}, cursor' \in (b + 1)..e,
             UNCHANGED <<arguments, current, address, field, value, index, has_index, ret, cleared, out>>,
             at' = "tail" => (cursor - b)' = 2 /\ Token(cursor)' # "[",
             at' = "digits" => /\ (cursor - b)' = 3 /\ s[2] = "[" /\ Len(s) > 2 /\ IsDigit(s[3])
                               /\ Numeral(s)[2] = 0
      PROVE  Exact'
  <2>1. s' = s /\ F' = F  BY <1>8 DEF s, arguments, F
  <2>2. s[1] \in Names /\ find_field(table, current, s[1], field) /\ value = address + F.offset + 0
    BY <1>1, <1>2, <1>3 DEF Here, Read, s
  <2>3. (cursor - b)' \in {2, 3} /\ (at' = "digits" => 3..((cursor - b)' - 1) = {})  BY <1>8
  <2>4. Read(s, cursor - b)'
    <3>1. at' # "segment" /\ at' # "bracket" /\ ~has_index'  BY <1>3, <1>8
    <3>2. /\ s[1] \in Names /\ find_field(table, current, s[1], field)'
          /\ value' = address' + F'.offset + (IF has_index' THEN index' * F'.element_size ELSE 0)
          /\ (cursor - b)' > 1
      BY <1>8, <2>1, <2>2, <2>3, <3>1 DEF arguments
    <3>3. at' = "digits" => index' = Numeral(s)[(cursor - b)' - 1] /\ (cursor - b)' > 2
      BY <1>3, <1>8
    <3> QED  BY <1>8, <2>1, <2>3, <3>1, <3>2, <3>3 DEF Read
  <2>5. Here(b, e)'  BY <1>2, <1>8, <2>4 DEF Here, arguments, s
  <2> QED  BY <1>1, <1>2, <1>8, <2>5, GoingOnIsExact
<1>9. CASE /\ Token(cursor) # "[" /\ at' = "tail" /\ UNCHANGED cursor
           /\ UNCHANGED <<arguments, current, address, field, value, index, has_index, ret, cleared, out>>
  <2>1. Token(cursor)' # "["  BY <1>9 DEF Token, arguments
  <2> QED  BY <1>3, <1>8, <1>9, <2>1
<1>10. CASE /\ Token(cursor) = "[" /\ IsDigit(Token(cursor + 1))
            /\ at' = "digits" /\ cursor' = cursor + 1
            /\ UNCHANGED <<arguments, current, address, field, value, index, has_index, ret, cleared, out>>
  <2>1. cursor + 1 < e
    <3>1. cursor + 1 # e  BY <1>5, <1>6, <1>10, TokenKinds
    <3> QED  BY <1>3, <1>4, <1>6, <1>10, <3>1
  <2>2. s[2] = "[" /\ IsDigit(s[3]) /\ Len(s) > 2  BY <1>4, <1>5, <1>6, <1>10, <2>1
  <2>3. Numeral(s)[2] = 0  BY <1>4, <2>2, NumeralIs
  <2>4. (cursor - b)' = 3  BY <1>3, <1>4, <1>10
  <2> QED  BY <1>5, <1>6, <1>8, <1>10, <2>2, <2>3, <2>4
<1> QED  BY <1>7, <1>9, <1>10 DEF OpenBracket

LEMMA DigitIsExact ==
  ASSUME IInv, Exact, Digit
  PROVE  Exact'
<1>1. at = "digits" /\ at # "done" /\ Walking /\ TypeOK /\ IsDigit(Token(cursor))
  BY DEF Digit, Walking, IInv
<1>2. PICK b, e : Piece(b, e) /\ Here(b, e)  BY <1>1 DEF Exact, OnTheWay
<1> DEFINE s == SegmentTo(path, e)
           c == cursor - b
           v == DigitValue(Token(cursor))
<1>3. /\ Walk(table, root, path)[b].next = current
      /\ cursor \in (b + 1)..e /\ ~has_index /\ c > 2 /\ s[2] = "["
      /\ Len(s) > 2 /\ \A k \in 3..(c - 1) : IsDigit(s[k])
      /\ index = Numeral(s)[c - 1]
  BY <1>1, <1>2 DEF Here, Read, IInv, Placed
<1>4. /\ path \in Seq(Tokens) /\ s \in Seq(Tokens) /\ b \in Nat /\ e \in Nat
      /\ Len(s) = e - b - 1 /\ Len(s) \in Nat
      /\ cursor < e => Token(cursor) = s[c] /\ c \in 1..Len(s)
      /\ cursor = e => Token(cursor) \in {".", EndOfText}
  BY <1>1, <1>2, <1>3, TokenHere
<1>5. cursor < e
  <2>1. cursor # e  BY <1>1, <1>4, TokenKinds
  <2> QED  BY <1>3, <1>4, <2>1
<1>6. v \in 0..9 /\ index \in Nat /\ IsDigit(s[c]) /\ v = DigitValue(s[c]) /\ c \in 3..Len(s)
  BY <1>1, <1>3, <1>4, <1>5, DigitsHaveValues, Numbers DEF IInv
<1> HIDE DEF s, v, c
<1>7. Numeral(s)[c] = index * 10 + v  BY <1>3, <1>4, <1>6, NumeralIs
<1>8. \A k \in 3..c : IsDigit(s[k])
  <2>1. \A k \in 3..c : k = c \/ k \in 3..(c - 1)  BY <1>6
  <2> QED  BY <1>3, <1>6, <2>1
<1>9. CASE Overflows(index, v) /\ Fail("OUT_OF_RANGE")
  <2>1. ~SegmentOK(table, current, s)
    <3>1. SUFFICES ASSUME SegmentOK(table, current, s) PROVE FALSE  OBVIOUS
    <3>2. WellFormed(s) /\ Indexed(s) /\ Len(s) - 1 \in 2..Len(s)
      BY <1>3, <1>4, <3>1 DEF SegmentOK, Indexed
    <3>3. s[Len(s)] = "]" /\ \A k \in 3..(Len(s) - 1) : IsDigit(s[k])  BY <3>2 DEF WellFormed
    <3>4. c \in 2..(Len(s) - 1)
      <4>1. c # Len(s)  BY <1>6, <3>3, TokenKinds
      <4> QED  BY <1>4, <1>6, <4>1
    <3>5. Numeral(s)[c] <= Number(s) /\ Number(s) \in Nat
      BY <1>4, <3>2, <3>3, <3>4, NumeralGrows DEF Number
    <3>6. Number(s) < Selected(table, current, s).element_count
      BY <3>1, <3>2 DEF SegmentOK
    <3>7. Selected(table, current, s).element_count \in Nat
          /\ Selected(table, current, s).element_count <= SizeMax
      <4>1. PICK i \in DOMAIN table[current].fields : Called(table, current, i, s[1])
        BY <3>1 DEF SegmentOK
      <4>2. field \in DOMAIN table[current].fields /\ find_field(table, current, s[1], field)
        BY <1>1, <1>2 DEF TypeOK, Here, Read, s
      <4>3. Selected(table, current, s) = F /\ F \in Fields
        BY <1>1, <4>2, FieldIsSelected DEF F, IInv
      <4> QED  BY <4>3, SizeAssumption DEF Fields, Sizes
    <3>8. index * 10 + v > SizeMax  BY <1>6, <1>9, OverflowsIs
    <3> QED  BY <1>6, <1>7, <3>5, <3>6, <3>7, <3>8, SizeAssumption
  <2>2. ~Denoted.ok  BY <1>1, <1>2, <1>3, <2>1, Refused DEF s
  <2> QED  BY <1>1, <1>9, <2>2, FailIsExact
<1>10. CASE /\ ~Overflows(index, v) /\ index' = Wrap(index * 10 + v)
            /\ cursor' = cursor + 1
            /\ UNCHANGED <<arguments, at, current, address, field, value, has_index, ret, cleared, out>>
  <2>1. index' = index * 10 + v
    <3> DEFINE n == index * 10 + v
    <3>1. n \in Nat /\ n <= SizeMax
      BY <1>6, <1>10, OverflowsIs, SizeAssumption
    <3> HIDE DEF n
    <3>2. Wrap(n) = n  BY <3>1, SizeAssumption DEF Wrap
    <3> QED  BY <1>10, <3>2 DEF n
  <2>2. s' = s /\ F' = F  BY <1>10 DEF s, arguments, F
  <2>3. c' = c + 1 /\ c' - 1 = c /\ cursor' \in (b + 1)..e
    BY <1>3, <1>4, <1>5, <1>6, <1>10 DEF c
  <2>4. Read(s, c)'
    <3>1. /\ s[1] \in Names /\ find_field(table, current, s[1], field) /\ IsDigit(s[3])
          /\ value = address + F.offset + 0
      BY <1>1, <1>2, <1>3 DEF Here, Read, s, c
    <3>2. /\ s[1] \in Names /\ find_field(table, current, s[1], field)'
          /\ value' = address' + F'.offset + (IF has_index' THEN index' * F'.element_size ELSE 0)
          /\ c' > 2 /\ c' > 1
      BY <1>3, <1>6, <1>10, <2>2, <2>3, <3>1 DEF arguments
    <3> QED  BY <1>1, <1>3, <1>7, <1>8, <1>10, <2>1, <2>2, <2>3, <3>1, <3>2 DEF Read
  <2>5. Here(b, e)'  BY <1>2, <1>10, <2>3, <2>4 DEF Here, arguments, s, c
  <2> QED  BY <1>1, <1>2, <1>10, <2>5, GoingOnIsExact
<1> QED  BY <1>9, <1>10 DEF Digit, v

LEMMA CloseBracketIsExact ==
  ASSUME IInv, Exact, CloseBracket
  PROVE  Exact'
<1>1. at = "digits" /\ at # "done" /\ Walking /\ TypeOK /\ ~IsDigit(Token(cursor))
  BY DEF CloseBracket, Walking, IInv
<1>2. PICK b, e : Piece(b, e) /\ Here(b, e)  BY <1>1 DEF Exact, OnTheWay
<1> DEFINE s == SegmentTo(path, e)
           c == cursor - b
<1>3. /\ Walk(table, root, path)[b].next = current
      /\ cursor \in (b + 1)..e /\ ~has_index /\ c > 2 /\ s[2] = "["
      /\ Len(s) > 2 /\ IsDigit(s[3]) /\ \A k \in 3..(c - 1) : IsDigit(s[k])
      /\ index = Numeral(s)[c - 1]
  BY <1>1, <1>2 DEF Here, Read, IInv, Placed
<1>4. /\ path \in Seq(Tokens) /\ s \in Seq(Tokens) /\ b \in Nat /\ e \in Nat
      /\ Len(s) = e - b - 1 /\ Len(s) \in Nat
      /\ cursor < e => Token(cursor) = s[c] /\ c \in 1..Len(s)
      /\ cursor = e => Token(cursor) \in {".", EndOfText}
  BY <1>1, <1>2, <1>3, TokenHere
<1>5. cursor = e => c = Len(s) + 1  BY <1>4
<1>6. c > 3 /\ c \in Int
  <2>1. c # 3  BY <1>1, <1>3, <1>4, <1>5
  <2> QED  BY <1>3, <1>4, <2>1
<1> HIDE DEF s, c
\* In a segment that is right this token is the last one.
<1>7. ASSUME WellFormed(s)
      PROVE  Token(cursor) = "]" /\ cursor < e /\ c = Len(s) /\ Indexed(s)
  <2>1. Indexed(s)  BY <1>3, <1>4 DEF Indexed
  <2>2. Len(s) > 3 /\ s[Len(s)] = "]" /\ \A k \in 3..(Len(s) - 1) : IsDigit(s[k])
    BY <1>7, <2>1 DEF WellFormed
  <2>3. cursor < e
    <3>1. SUFFICES ASSUME cursor = e PROVE FALSE  BY <1>3, <1>4
    <3>2. Len(s) \in 3..(c - 1)  BY <1>4, <1>5, <2>2, <3>1
    <3> QED  BY <1>3, <2>2, <3>2, TokenKinds
  <2>4. c = Len(s)
    <3>1. SUFFICES ASSUME c # Len(s) PROVE FALSE  OBVIOUS
    <3>2. c \in 3..(Len(s) - 1)  BY <1>4, <1>6, <2>3, <3>1
    <3> QED  BY <1>1, <1>4, <2>2, <2>3, <3>2
  <2> QED  BY <1>4, <2>1, <2>2, <2>3, <2>4
<1>8. /\ s[1] \in Names /\ find_field(table, current, s[1], field)
      /\ field \in DOMAIN table[current].fields /\ value = address + F.offset + 0
  BY <1>1, <1>2, <1>3 DEF TypeOK, Here, Read, s, c
<1>9. CASE Token(cursor) # "]" /\ Fail("INVALID_ARGUMENT")
  <2>1. ~Denoted.ok  BY <1>1, <1>2, <1>3, <1>7, <1>9, Refused DEF SegmentOK, s
  <2> QED  BY <1>1, <1>9, <2>1, FailIsExact
<1>10. CASE Token(cursor) = "]" /\ ~IndexOK(F, index) /\ Fail("OUT_OF_RANGE")
  <2>1. ~SegmentOK(table, current, s)
    <3>1. SUFFICES ASSUME SegmentOK(table, current, s) PROVE FALSE  OBVIOUS
    <3>2. c = Len(s) /\ Indexed(s)  BY <1>7, <3>1 DEF SegmentOK
    <3>3. Number(s) = index  BY <1>3, <3>2 DEF Number
    <3>4. Selected(table, current, s) = F  BY <1>1, <1>8, FieldIsSelected DEF F, IInv
    <3> QED  BY <1>10, <3>1, <3>2, <3>3, <3>4 DEF SegmentOK, IndexOK
  <2>2. ~Denoted.ok  BY <1>1, <1>2, <1>3, <2>1, Refused DEF s
  <2> QED  BY <1>1, <1>10, <2>2, FailIsExact
<1>11. CASE /\ Token(cursor) = "]" /\ IndexOK(F, index)
            /\ value' = Wrap(value + index * F.element_size)
            /\ has_index' = TRUE /\ cursor' = cursor + 1 /\ at' = "tail"
            /\ UNCHANGED <<arguments, current, address, field, index, ret, cleared, out>>
  <2>1. cursor < e /\ s[c] = "]"
    <3>1. cursor # e  BY <1>4, <1>11 DEF EndOfText
    <3> QED  BY <1>3, <1>4, <1>11, <3>1
  <2>2. value' = value + index * F.element_size  BY <1>1, <1>11, ElementInside
  <2>3. s' = s /\ F' = F  BY <1>11 DEF s, arguments, F
  <2>4. c' = c + 1 /\ c' - 1 = c /\ c' - 2 = c - 1 /\ c' > 4 /\ cursor' \in (b + 1)..e
    BY <1>3, <1>4, <1>6, <1>11, <2>1 DEF c
  <2>5. value' = address + F.offset + index * F.element_size
    <3>1. address + F.offset + 0 = address + F.offset
      <4>1. address \in Nat /\ F.offset \in Nat
        BY <1>1, <1>8, FieldFacts, Numbers DEF IInv, F
      <4> QED  BY <4>1
    <3> QED  BY <1>8, <2>2, <3>1
  <2>6. Read(s, c)'
    <3>1. s[1] \in Names /\ find_field(table, current, s[1], field)'
      BY <1>8, <1>11, <2>3 DEF arguments
    <3>2. value' = address' + F'.offset + (IF has_index' THEN index' * F'.element_size ELSE 0)
      BY <1>11, <2>3, <2>5
    <3>3. IndexOK(F, index)'  BY <1>11, <2>3
    <3> QED  BY <1>3, <1>8, <1>11, <2>1, <2>3, <2>4, <3>1, <3>2, <3>3 DEF Read
  <2>7. Here(b, e)'  BY <1>2, <1>11, <2>4, <2>6 DEF Here, arguments, s, c
  <2> QED  BY <1>1, <1>2, <1>11, <2>7, GoingOnIsExact
<1> QED  BY <1>9, <1>10, <1>11 DEF CloseBracket

\* A segment that has been read to its end is right, and selects the address.
LEMMA Accepted ==
  ASSUME IInv, at = "tail", NEW b, NEW e, Piece(b, e), Here(b, e), cursor = e
  PROVE  LET s == SegmentTo(path, e)
         IN  /\ SegmentOK(table, current, s)
             /\ Indexed(s) <=> has_index
             /\ FieldOf(table, current, s) = field /\ Selected(table, current, s) = F
             /\ Shift(table, current, s) =
                  F.offset + (IF has_index THEN index * F.element_size ELSE 0)
<1> DEFINE s == SegmentTo(path, e)
           c == cursor - b
<1>1. Walking /\ TypeOK /\ Placed /\ current \in Descriptors  BY Numbers DEF Walking, IInv
<1>2. /\ s[1] \in Names /\ find_field(table, current, s[1], field) /\ cursor \in (b + 1)..e
      /\ field \in DOMAIN table[current].fields
      /\ ~has_index => c = 2
      /\ has_index => /\ c > 4 /\ s[2] = "[" /\ s[c - 1] = "]"
                      /\ \A k \in 3..(c - 2) : IsDigit(s[k])
                      /\ index = Numeral(s)[c - 2] /\ IndexOK(F, index)
  BY <1>1 DEF Here, Read, TypeOK
<1>3. b \in Nat /\ e \in Nat /\ s \in Seq(Tokens) /\ Len(s) = e - b - 1 /\ Len(s) \in Nat
  BY <1>1, <1>2, TokenHere
<1>4. c - 1 = Len(s) /\ c - 2 = Len(s) - 1 /\ c = Len(s) + 1  BY <1>3
<1> HIDE DEF s, c
<1>5. FieldOf(table, current, s) = field /\ Selected(table, current, s) = F
  BY <1>1, <1>2, FieldIsSelected DEF F
<1>6. Indexed(s) <=> has_index  BY <1>2, <1>3, <1>4 DEF Indexed
<1>7. WellFormed(s)
  <2>1. s # <<>>
    <3>1. Len(s) # 0  BY <1>2, <1>3, <1>4
    <3> QED  BY <3>1
  <2> QED  BY <1>2, <1>3, <1>4, <1>6, <2>1 DEF WellFormed
<1>8. has_index => Number(s) = index  BY <1>2, <1>4 DEF Number
<1>9. SegmentOK(table, current, s)
  <2>1. current # NoDescriptor  BY <1>1, DescriptorsAssumption
  <2>2. \E i \in DOMAIN table[current].fields : Called(table, current, i, s[1])
    BY <1>2 DEF find_field
  <2> QED  BY <1>2, <1>5, <1>6, <1>7, <1>8, <2>1, <2>2 DEF SegmentOK, IndexOK
<1>10. Shift(table, current, s) =
         F.offset + (IF has_index THEN index * F.element_size ELSE 0)
  BY <1>5, <1>6, <1>8 DEF Shift
<1> QED  BY <1>5, <1>6, <1>9, <1>10 DEF s

LEMMA FinishIsExact ==
  ASSUME IInv, Exact, Finish
  PROVE  Exact'
<1>1. at = "tail" /\ Walking /\ TypeOK /\ Token(cursor) = EndOfText
  BY DEF Finish, Walking, IInv
<1>2. PICK b, e : Piece(b, e) /\ Here(b, e)  BY <1>1 DEF Exact, OnTheWay
<1> DEFINE s == SegmentTo(path, e)
           w == Walk(table, root, path)[b]
<1>3. /\ w.ok /\ w.next = current /\ w.shift \in Nat /\ address = instance + w.shift
      /\ cursor \in (b + 1)..e /\ field \in DOMAIN table[current].fields
      /\ value = address + F.offset + (IF has_index THEN index * F.element_size ELSE 0)
      /\ has_index => IndexOK(F, index)
  BY <1>1, <1>2 DEF Here, Read, TypeOK
<1>4. cursor = e /\ e = Len(path) + 1 /\ e > Len(path) /\ path \in Seq(Tokens)
  <2>1. /\ b \in Nat /\ e \in Nat /\ Len(path) \in Nat /\ e <= Len(path) + 1
        /\ path \in Seq(Tokens)
        /\ cursor < e => Token(cursor) # EndOfText
        /\ cursor = e => Token(cursor) = IF e <= Len(path) THEN "." ELSE EndOfText
    BY <1>1, <1>2, <1>3, TokenHere
  <2>2. cursor = e  BY <1>1, <1>3, <2>1
  <2>3. ~(e <= Len(path))  BY <1>1, <2>1, <2>2, TokenKinds DEF EndOfText
  <2> QED  BY <2>1, <2>2, <2>3
<1>5. /\ SegmentOK(table, current, s) /\ FieldOf(table, current, s) = field
      /\ Selected(table, current, s) = F
      /\ Shift(table, current, s) =
           F.offset + (IF has_index THEN index * F.element_size ELSE 0)
  BY <1>1, <1>2, <1>4, Accepted
<1>6. Denoted = Entered(table, w, s, e > Len(path))
  BY <1>2, <1>4, WalkSteps DEF Denoted, Denotation, Piece
<1> HIDE DEF w, s
<1>7. Denoted = [ok |-> TRUE, d |-> current, next |-> F.nested,
                 shift |-> w.shift + Shift(table, current, s), i |-> field]
  BY <1>3, <1>4, <1>5, <1>6 DEF Entered
<1>8. /\ Denoted.ok /\ Denoted.d = current /\ Denoted.i = field
      /\ Denoted.shift = w.shift + Shift(table, current, s)
  BY <1>7
<1>9. /\ F \in Fields /\ FieldValid(table, current, F)
      /\ F.offset \in Nat /\ F.element_size \in Nat /\ F.element_count \in Nat
      /\ address \in Nat /\ instance \in Nat /\ value \in Nat /\ index \in Nat
      /\ root \in Descriptors /\ table[root].size \in Nat /\ has_index \in BOOLEAN
  BY <1>1, <1>3, FieldFacts, Numbers DEF IInv, F, TypeOK
<1> DEFINE i == IF has_index THEN index ELSE 0
           o == i * F.element_size
<1>10. i \in Nat /\ o \in Nat /\ i < F.element_count
       /\ o = IF has_index THEN index * F.element_size ELSE 0
  <2>1. F.element_count # 0  BY <1>9 DEF FieldValid
  <2>2. index * F.element_size \in Nat /\ 0 * F.element_size = 0  BY <1>9
  <2> QED  BY <1>3, <1>9, <2>1, <2>2 DEF IndexOK
<1> HIDE DEF i, o
<1>11. value = address + F.offset + o /\ value = instance + Denoted.shift
  BY <1>3, <1>5, <1>8, <1>9, <1>10
<1>12. Wrap(value) = value
  <2>1. Inside(value, Usable(F, has_index))  BY <1>1 DEF IInv, InBounds
  <2>2. F.element_size # 0 /\ F.element_count # 0 /\ Extent(F) # 0 /\ Extent(F) \in Nat
    <3>1. F.element_size \in Nat \ {0} /\ F.element_count \in Nat \ {0}
      BY <1>9 DEF FieldValid
    <3>2. F.element_count * F.element_size # 0  BY <3>1
    <3> QED  BY <1>1, <1>3, <1>9, <3>1, <3>2, FieldFacts DEF IInv, F, Extent, FieldValid
  <2>3. Usable(F, has_index) \in Nat \ {0}  BY <1>9, <2>2 DEF Usable
  <2>4. value < instance + table[root].size  BY <1>9, <2>1, <2>3 DEF Inside
  <2> QED  BY <1>1, <1>9, <2>4, NoWrap DEF IInv
<1>13. get_element(F, address, i) = [ret |-> "OK", element |-> value]
  <2>1. ~(i >= F.element_count)  BY <1>9, <1>10
  <2> QED  BY <1>11, <1>12, <2>1 DEF get_element, o
<1>14. /\ UNCHANGED <<table, root, path, instance, address, has_index, index>>
       /\ ret' = "OK" /\ at' = "done"
       /\ out' = <<[d |-> current, i |-> field, value |-> value]>>
  BY DEF Finish, arguments
<1>15. Denoted' = Denoted  BY <1>14 DEF Denoted
<1>16. table[Denoted.d].fields[Denoted.i] = F /\ out'[1].value = value
  BY <1>8, <1>14 DEF F
<1>17. AcceptsWhatDenotes'
  <2>1. out' = <<[d |-> Denoted.d, i |-> Denoted.i, value |-> instance + Denoted.shift]>>
    BY <1>8, <1>11, <1>14
  <2>2. get_element(table[Denoted.d].fields[Denoted.i], address, i) =
          [ret |-> "OK", element |-> out'[1].value]
    BY <1>13, <1>16
  <2> QED  BY <1>8, <1>14, <1>15, <2>1, <2>2 DEF AcceptsWhatDenotes, i
<1>18. OnTheWay'  BY <1>14 DEF OnTheWay, Walking
<1> QED  BY <1>17, <1>18 DEF Exact

LEMMA DescendIsExact ==
  ASSUME IInv, Exact, Descend
  PROVE  Exact'
<1>1. at = "tail" /\ at # "done" /\ Walking /\ TypeOK /\ Token(cursor) # EndOfText
  BY DEF Descend, Walking, IInv
<1>2. PICK b, e : Piece(b, e) /\ Here(b, e)  BY <1>1 DEF Exact, OnTheWay
<1> DEFINE s == SegmentTo(path, e)
           w == Walk(table, root, path)[b]
           c == cursor - b
<1>3. /\ w.ok /\ w.next = current /\ w.shift \in Nat /\ address = instance + w.shift
      /\ cursor \in (b + 1)..e /\ field \in DOMAIN table[current].fields
      /\ value = address + F.offset + (IF has_index THEN index * F.element_size ELSE 0)
      /\ has_index \in BOOLEAN
      /\ ~has_index => c = 2 /\ Token(cursor) # "["
      /\ has_index => c > 4 /\ s[c - 1] = "]"
  BY <1>1, <1>2 DEF Here, Read, TypeOK
<1>4. /\ b \in Nat /\ e \in Nat /\ Len(path) \in Nat /\ e <= Len(path) + 1
      /\ path \in Seq(Tokens) /\ s \in Seq(Tokens) /\ Len(s) = e - b - 1 /\ Len(s) \in Nat
      /\ cursor < e => Token(cursor) = s[c] /\ c \in 1..Len(s) /\ Token(cursor) # "."
      /\ cursor = e => Token(cursor) = IF e <= Len(path) THEN "." ELSE EndOfText
  BY <1>1, <1>2, <1>3, TokenHere
<1>5. Walk(table, root, path)[e] = Entered(table, w, s, e > Len(path))
  BY <1>2, <1>4, WalkSteps DEF Piece
<1>6. ASSUME cursor = e
      PROVE  /\ SegmentOK(table, current, s) /\ (Indexed(s) <=> has_index)
             /\ FieldOf(table, current, s) = field /\ Selected(table, current, s) = F
             /\ Shift(table, current, s) =
                  F.offset + (IF has_index THEN index * F.element_size ELSE 0)
  BY <1>1, <1>2, <1>6, Accepted
<1> HIDE DEF s, w, c
<1>7. ASSUME Token(cursor) = "."
      PROVE  cursor = e /\ e <= Len(path)
  BY <1>3, <1>4, <1>7 DEF EndOfText
<1>8. F.element_count \in Nat \ {0} /\ F.offset \in Nat /\ F.element_size \in Nat
      /\ address \in Nat /\ instance \in Nat /\ index \in Nat
  BY <1>1, <1>3, FieldFacts, Numbers DEF IInv, F, FieldValid
<1>9. CASE Token(cursor) # "." /\ Fail("INVALID_ARGUMENT")
  <2>1. cursor < e  BY <1>1, <1>3, <1>4, <1>9
  <2>2. ~WellFormed(s)
    <3>1. SUFFICES ASSUME WellFormed(s) PROVE FALSE  OBVIOUS
    <3>2. Indexed(s)  BY <1>3, <1>4, <2>1 DEF Indexed
    <3>3. Len(s) > 3 /\ s[2] = "[" /\ \A k \in 3..(Len(s) - 1) : IsDigit(s[k])
      BY <3>1, <3>2 DEF WellFormed
    <3>4. has_index  BY <1>3, <1>4, <2>1, <3>3
    <3>5. c - 1 \in 3..(Len(s) - 1)  BY <1>3, <1>4, <2>1, <3>4
    <3> QED  BY <1>3, <3>3, <3>4, <3>5, TokenKinds
  <2>3. ~Denoted.ok  BY <1>1, <1>2, <1>3, <2>2, Refused DEF SegmentOK, s, w
  <2> QED  BY <1>1, <1>9, <2>3, FailIsExact
<1>10. CASE Token(cursor) = "." /\ ~Enterable(F, has_index) /\ Fail("INVALID_ARGUMENT")
  <2>1. cursor = e /\ ~(e > Len(path))  BY <1>4, <1>7, <1>10
  <2>2. ~(F.kind = "struct" /\ (has_index \/ F.element_count = 1))
    BY <1>8, <1>10 DEF Enterable
  <2>3. Walk(table, root, path)[e] =
          [ok |-> FALSE, d |-> current, next |-> F.nested,
           shift |-> w.shift + Shift(table, current, s), i |-> field]
    BY <1>3, <1>5, <1>6, <2>1, <2>2 DEF Entered
  <2>4. ~Denoted.ok  BY <1>2, <1>4, <2>3, RefusedToTheEnd DEF Denoted, Piece
  <2> QED  BY <1>1, <1>10, <2>4, FailIsExact
<1>11. ASSUME Token(cursor) = ".", Enterable(F, has_index)
       PROVE  Walk(table, root, path)[e] =
                [ok |-> TRUE, d |-> current, next |-> F.nested,
                 shift |-> w.shift + Shift(table, current, s), i |-> field]
  <2>1. cursor = e /\ ~(e > Len(path))  BY <1>4, <1>7, <1>11
  <2>2. F.kind = "struct" /\ (has_index \/ F.element_count = 1)
    BY <1>8, <1>11 DEF Enterable
  <2> QED  BY <1>3, <1>5, <1>6, <2>1, <2>2 DEF Entered
<1>12. ASSUME Token(cursor) = "."
       PROVE  \E n : Piece(e, n)
  <2>1. e \in Dots(path) /\ e <= Len(path)  BY <1>2, <1>7, <1>12 DEF Piece
  <2> QED  BY <1>4, <2>1, NextDot DEF Piece
<1>13. CASE /\ Token(cursor) = "." /\ Enterable(F, has_index)
            /\ Token(cursor + 1) = EndOfText /\ Fail("INVALID_ARGUMENT")
  <2>1. PICK n : Piece(e, n)  BY <1>12, <1>13
  <2>2. n \in Nat /\ n <= Len(path) + 1 /\ e < n  BY <1>4, <2>1, DotsAreNumbers DEF Piece
  <2>3. cursor + 1 \in (e + 1)..n /\ cursor + 1 = e + 1  BY <1>4, <1>7, <1>13, <2>2
  <2>4. /\ SegmentTo(path, n) \in Seq(Tokens) /\ Len(SegmentTo(path, n)) = n - e - 1
        /\ cursor + 1 < n => Token(cursor + 1) # EndOfText
    BY <1>1, <2>1, <2>3, TokenHere
  <2>5. Len(SegmentTo(path, n)) = 0  BY <1>4, <1>13, <2>2, <2>3, <2>4
  <2>6. ~WellFormed(SegmentTo(path, n))  BY <2>4, <2>5 DEF WellFormed
  <2>7. Walk(table, root, path)[n] =
          Entered(table, Walk(table, root, path)[e], SegmentTo(path, n), n > Len(path))
    BY <1>4, <2>1, WalkSteps DEF Piece
  <2>8. ~Walk(table, root, path)[n].ok
    BY <2>6, <2>7 DEF Entered, SegmentOK, Nowhere, Begin
  <2>9. ~Denoted.ok  BY <1>4, <2>1, <2>8, RefusedToTheEnd DEF Denoted, Piece
  <2> QED  BY <1>1, <1>13, <2>9, FailIsExact
<1>14. CASE /\ Token(cursor) = "." /\ Enterable(F, has_index)
            /\ current' = F.nested /\ address' = value
            /\ cursor' = cursor + 1 /\ at' = "segment"
            /\ UNCHANGED <<arguments, field, value, index, has_index, ret, cleared, out>>
  <2>1. PICK n : Piece(e, n)  BY <1>12, <1>14
  <2>2. n \in Nat /\ e < n  BY <1>4, <2>1, DotsAreNumbers DEF Piece
  <2>3. cursor' \in (e + 1)..n /\ (cursor - e)' = 1  BY <1>4, <1>7, <1>14, <2>2
  <2> DEFINE x == Walk(table, root, path)[e]
             q == IF has_index THEN index * F.element_size ELSE 0
  <2>4. x.ok /\ x.next = F.nested /\ x.shift = w.shift + (F.offset + q)
    <3>1. cursor = e  BY <1>7, <1>14
    <3>2. Shift(table, current, s) = F.offset + q  BY <1>6, <3>1
    <3> QED  BY <1>11, <1>14, <3>2
  <2>5. q \in Nat  BY <1>3, <1>8
  <2> HIDE DEF x, q
  <2>6. x.shift \in Nat /\ value = instance + x.shift
    <3>1. value = address + F.offset + q  BY <1>3 DEF q
    <3> QED  BY <1>3, <1>8, <2>4, <2>5, <3>1
  <2>7. Here(e, n)'
    BY <1>14, <2>3, <2>4, <2>6 DEF Here, Read, arguments, x
  <2> QED  BY <1>1, <1>14, <2>1, <2>7, GoingOnIsExact
<1> QED  BY <1>9, <1>10, <1>13, <1>14 DEF Descend

LEMMA StutterIsExact ==
  ASSUME Exact, UNCHANGED vars
  PROVE  Exact'
<1>1. Denoted' = Denoted /\ Missing' = Missing  BY DEF Denoted, Missing, vars
<1>2. AcceptsWhatDenotes'  BY <1>1 DEF Exact, AcceptsWhatDenotes, vars
<1>3. ASSUME NEW b, NEW e, Here(b, e) PROVE Here(b, e)'
  <2>1. F' = F /\ Token(cursor)' = Token(cursor)  BY DEF F, Token, vars
  <2> QED  BY <1>3, <2>1 DEF Here, Read, vars
<1>4. ASSUME NEW b, NEW e, Piece(b, e) PROVE Piece(b, e)'
  BY <1>4 DEF Piece, vars
<1>5. OnTheWay'  BY <1>3, <1>4 DEF Exact, OnTheWay, Walking, vars
<1> QED  BY <1>2, <1>5 DEF Exact

\* What has been stored to the outputs.
Clearing ==
  /\ at = "enter" => ret = "none"
  /\ at # "enter" => cleared = Cleared
  /\ at \notin {"enter", "done"} => ~Missing /\ ret = "none"
  /\ ret # "OK" => out = <<>>

LEMMA ClearingStep ==
  ASSUME Clearing, [Next]_vars
  PROVE  Clearing'
<1>1. CASE Enter
  <2>1. Missing' = Missing /\ Cleared' = Cleared
    BY <1>1 DEF Enter, arguments, Missing, Cleared
  <2>2. CASE Missing /\ at' = "done" /\ ret' = "INVALID_ARGUMENT"
    BY <1>1, <2>1, <2>2 DEF Enter, Clearing
  <2>3. CASE ~Missing /\ at' = "validate" /\ UNCHANGED ret
    BY <1>1, <2>1, <2>3 DEF Enter, Clearing
  <2> QED  BY <1>1, <2>2, <2>3 DEF Enter
<1>2. ASSUME at \notin {"enter", "done"}, at' # "enter", UNCHANGED <<arguments, cleared>>,
             \/ UNCHANGED <<ret, out>> /\ at' # "done"
             \/ at' = "done" /\ (ret' # "OK" => UNCHANGED out)
      PROVE  Clearing'
  <2>1. Missing' = Missing /\ Cleared' = Cleared  BY <1>2 DEF arguments, Missing, Cleared
  <2> QED  BY <1>2, <2>1 DEF Clearing
<1>3. CASE Validate  BY <1>2, <1>3 DEF Validate, Fail
<1>4. CASE FindField  BY <1>2, <1>4 DEF FindField, Fail
<1>5. CASE OpenBracket  BY <1>2, <1>5 DEF OpenBracket, Fail
<1>6. CASE Digit  BY <1>2, <1>6 DEF Digit, Fail
<1>7. CASE CloseBracket  BY <1>2, <1>7 DEF CloseBracket, Fail
<1>8. CASE Finish  BY <1>2, <1>8 DEF Finish
<1>9. CASE Descend  BY <1>2, <1>9 DEF Descend, Fail
<1>10. CASE UNCHANGED vars
  <2>1. Missing' = Missing /\ Cleared' = Cleared  BY <1>10 DEF vars, Missing, Cleared
  <2> QED  BY <1>10, <2>1 DEF Clearing, vars
<1> QED
  BY <1>1, <1>3, <1>4, <1>5, <1>6, <1>7, <1>8, <1>9, <1>10 DEF Next, Done

\* A path is accepted exactly when it denotes a value, and gives that value, for any
\* table, text, address and width of size_t; an error behind the checks of the arguments
\* leaves NULL in both outputs, whatever they held when the call began.
THEOREM ResolutionIsExact == Spec => []ResolvesAsDenoted
<1>1. Init => Exact
  BY DEF Init, Exact, OnTheWay, AcceptsWhatDenotes, Walking
<1>2. IInv /\ Exact /\ [Next]_vars => Exact'
  BY EnterIsExact, ValidateIsExact, FindFieldIsExact, OpenBracketIsExact, DigitIsExact,
     CloseBracketIsExact, FinishIsExact, DescendIsExact, StutterIsExact DEF Next, Done
<1>3. Init => Clearing  BY DEF Init, Clearing
<1>4. Clearing /\ [Next]_vars => Clearing'  BY ClearingStep
<1>5. Exact /\ Clearing => ResolvesAsDenoted
  <2> SUFFICES ASSUME Exact, Clearing PROVE ResolvesAsDenoted  OBVIOUS
  <2>1. ret # "none" => cleared = Cleared  BY DEF Clearing
  <2>2. ClearsOutputs  BY <2>1 DEF Clearing, ClearsOutputs, Cleared, Outputs
  <2> QED  BY <2>2 DEF Exact, ResolvesAsDenoted
<1> QED  BY <1>1, <1>2, <1>3, <1>4, <1>5, Invariance, PTL DEF Spec
=============================================================================
