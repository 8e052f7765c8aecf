---------------------- MODULE DescriptorValidate_proofs ----------------------
(***************************************************************************)
(* Proofs about DescriptorValidate, for every set of descriptors, every    *)
(* table and every width of size_t: the types, the array that finds the    *)
(* cycles, that what has been found good is well-founded, and that the     *)
(* verdict is exactly the one StructMeta defines.                          *)
(***************************************************************************)
EXTENDS DescriptorValidate, SequenceTheorems, WellFoundedInduction, TLAPS

Frames == [d : Descriptors, at : Steps, i : Nat \ {0}]


-----------------------------------------------------------------------------
\* Dropping the last element keeps the others.
LEMMA Pop ==
  ASSUME NEW S, NEW s \in Seq(S), s # <<>>
  PROVE  /\ WithoutLast(s) \in Seq(S)
         /\ Len(s) \in Nat \ {0}
         /\ Len(WithoutLast(s)) = Len(s) - 1
         /\ \A k \in 1..(Len(s) - 1) : WithoutLast(s)[k] = s[k]
         /\ s[Len(s)] \in S
<1>1. Len(s) \in Nat \ {0}  BY EmptySeq
<1>2. \A k \in 1..Len(s) : s[k] \in S  OBVIOUS
<1> DEFINE n == Len(s) - 1
<1>3. n \in Int /\ n - 1 + 1 = n /\ \A k \in 1..n : s[k] \in S  BY <1>1, <1>2
<1>4. WithoutLast(s) \in Seq(S) /\ Len(WithoutLast(s)) = n
  BY <1>1, <1>3, SubSeqProperties DEF WithoutLast
<1>5. \A k \in 1..n : WithoutLast(s)[k] = s[k]
  <2>1. \A k \in 1..(n - 1 + 1) : SubSeq(s, 1, n)[k] = s[1 + k - 1]
    BY <1>3, SubSeqProperties
  <2> QED  BY <1>3, <2>1 DEF WithoutLast
<1> QED  BY <1>1, <1>2, <1>4, <1>5

\* The positions of a sequence that has more than one element, but for the last.
LEMMA MoreThanOne ==
  ASSUME NEW n \in Nat \ {0}, n # 1
  PROVE  n - 1 \in 1..(n - 1) /\ 1 \in 1..(n - 1)
  OBVIOUS

\* Appending keeps the elements there are.
LEMMA Push ==
  ASSUME NEW S, NEW s \in Seq(S), NEW e \in S
  PROVE  /\ Append(s, e) \in Seq(S)
         /\ Len(Append(s, e)) = Len(s) + 1
         /\ \A k \in 1..Len(s) : Append(s, e)[k] = s[k]
         /\ Append(s, e)[Len(s) + 1] = e
  OBVIOUS

\* The running call goes on, its callers stay where they are.
LEMMA Resumed ==
  ASSUME frames \in Seq(Frames), frames # <<>>, NEW at \in Steps, NEW i \in Nat \ {0}
  PROVE  /\ Resume(at, i) \in Seq(Frames)
         /\ Len(Resume(at, i)) = Len(frames)
         /\ \A k \in 1..(Len(frames) - 1) : Resume(at, i)[k] = frames[k]
         /\ LET e == Resume(at, i)[Len(frames)]
            IN  e \in Frames /\ e.d = Top.d /\ e.at = at /\ e.i = i
<1> DEFINE e == [Top EXCEPT !.at = at, !.i = i]
<1>1. Top \in Frames  BY Pop DEF Top
<1>2. e \in Frames /\ e.d = Top.d /\ e.at = at /\ e.i = i
  BY <1>1 DEF Frames
<1>3. /\ WithoutLast(frames) \in Seq(Frames) /\ Len(WithoutLast(frames)) = Len(frames) - 1
      /\ \A k \in 1..(Len(frames) - 1) : WithoutLast(frames)[k] = frames[k]
      /\ Len(frames) \in Nat \ {0}
  BY Pop
<1>4. Resume(at, i) = Append(WithoutLast(frames), e)  BY DEF Resume
<1>5. Len(frames) - 1 + 1 = Len(frames)  BY <1>3
<1> HIDE DEF e
<1> QED  BY <1>2, <1>3, <1>4, <1>5, Push

\* A quotient times its divisor.
LEMMA Quotient ==
  ASSUME NEW e \in Nat \ {0}
  PROVE  SizeMax \div e \in Nat /\ (SizeMax \div e) * e <= SizeMax
<1>1. SizeMax \in Nat  BY SizeAssumption
<1>2. SizeMax \div e \in Nat  BY <1>1
<1>3. (SizeMax \div e) * e <= SizeMax  BY <1>1
<1> QED  BY <1>2, <1>3

\* A product that passes the division test does not overflow.
LEMMA NoOverflow ==
  ASSUME NEW n \in Nat, NEW e \in Nat \ {0}, n <= SizeMax \div e
  PROVE  n * e <= SizeMax /\ n * e \in Nat
<1> DEFINE q == SizeMax \div e
<1>1. q \in Nat /\ q * e <= SizeMax  BY Quotient
<1> HIDE DEF q
<1>2. n <= q => n * e <= q * e /\ n * e \in Nat  BY <1>1
<1>3. n <= q  BY DEF q
<1> QED  BY <1>1, <1>2, <1>3, SizeAssumption

\* The checks of the loop body, in unsigned arithmetic, are those of StructMeta.
LEMMA FieldChecked ==
  ASSUME NEW d \in Descriptors, NEW f \in Fields, table[d] \in DescriptorRecords,
         Checked(table, d, f), validate_attributes(f)
  PROVE  FieldValid(table, d, f)
<1>1. Extent(f) = FieldSize(f) /\ Extent(f) \in Nat
  <2>1. CASE f.kind = "char_array"
    BY <2>1 DEF Extent, FieldSize, Fields, Sizes
  <2>2. CASE f.kind # "char_array"
    <3>1. f.element_count \in Nat /\ f.element_size \in Nat \ {0}
      BY SizeAssumption DEF Checked, ShapeOK, Fields, Sizes
    <3>2. f.element_count <= SizeMax \div f.element_size
      BY <2>2 DEF Checked, ShapeOK
    <3>3. f.element_count * f.element_size \in 0..SizeMax
      BY <3>1, <3>2, NoOverflow, SizeAssumption
    <3>4. (f.element_count * f.element_size) % (SizeMax + 1) = f.element_count * f.element_size
      <4> DEFINE p == f.element_count * f.element_size
      <4>1. p \in 0..SizeMax  BY <3>3
      <4> HIDE DEF p
      <4>2. p % (SizeMax + 1) = p  BY <4>1, SizeAssumption
      <4> QED  BY <4>2 DEF p
    <3> QED  BY <2>2, <3>3, <3>4 DEF Extent, FieldSize
  <2> QED  BY <2>1, <2>2
<1>2. f.offset + Extent(f) <= table[d].size
  <2>1. f.offset \in Sizes /\ table[d].size \in Sizes /\ f.offset <= table[d].size
    BY DEF Fields, DescriptorRecords, Checked, RangeOK
  <2>2. (table[d].size - f.offset) % (SizeMax + 1) = table[d].size - f.offset
    <3> DEFINE r == table[d].size - f.offset
    <3>1. r \in 0..SizeMax  BY <2>1, SizeAssumption DEF Sizes
    <3> HIDE DEF r
    <3>2. r % (SizeMax + 1) = r  BY <3>1, SizeAssumption
    <3> QED  BY <3>2 DEF r
  <2>3. Extent(f) <= table[d].size - f.offset
    BY <1>1, <2>2 DEF Checked, RangeOK
  <2> QED  BY <1>1, <2>1, <2>3, SizeAssumption DEF Sizes
<1>3. KeysValid(f)
  BY DEF validate_attributes, KeysValid, Fields
<1> QED
  BY <1>2, <1>3 DEF FieldValid, Checked, ShapeOK, NestedOK

-----------------------------------------------------------------------------
\* Field j of descriptor d is good, and what it nests is in g.
FieldDone(t, g, d, j) ==
  LET f == t[d].fields[j]
  IN  /\ Checked(t, d, f) /\ validate_attributes(f)
      /\ f.nested = NoDescriptor \/ Found(g, f.nested)

\* How far a call has come: its header and the fields before i are good.
Progressed(t, g, fr) ==
  /\ HeaderOK(t[fr.d]) /\ fr.i <= Len(t[fr.d].fields) + 1
  /\ \A j \in 1..(fr.i - 1) : FieldDone(t, g, fr.d, j)
  /\ fr.at = "attributes" =>
       fr.i <= Len(t[fr.d].fields) /\ Checked(t, fr.d, t[fr.d].fields[fr.i])

\* A call waits for the one above it, which has the descriptor of its current field.
Waits(t, fr, above) == fr.at = "attributes" /\ t[fr.d].fields[fr.i].nested = above.d

\* The nested descriptor of the running call's field, if any, has been found good.
NestedFound(t, g, fr) ==
  LET n == t[fr.d].fields[fr.i].nested IN n = NoDescriptor \/ Found(g, n)

Walk ==
  /\ \A k \in 1..Len(frames) : frames[k].at # "enter" => Progressed(table, good, frames[k])
  /\ \A k \in 1..(Len(frames) - 1) : Waits(table, frames[k], frames[k + 1])
  /\ ret = "none" /\ frames # <<>> /\ Top.at = "attributes" => NestedFound(table, good, Top)
  /\ frames # <<>> => frames[1].d = root /\ ret \in {"none"} \cup Errors
  /\ frames # <<>> /\ ret # "none" => Top.at = "attributes"
  /\ ret = "OK" => Found(good, root)

\* context.stack mirrors the calls that have been pushed.
Mirror ==
  /\ \A k \in 1..Len(stack) : stack[k] = frames[k].d
  /\ Len(stack) = IF frames # <<>> /\ Top.at = "enter" THEN Len(frames) - 1
                  ELSE Len(frames)

IInv == TypeOK /\ Walk /\ Mirror /\ StackDistinct /\ GoodIsWellFounded

\* A call whose first i fields are good may go on with the next.
LEMMA NextField ==
  ASSUME NEW t, NEW g, NEW d, NEW i \in Nat, Len(t[d].fields) \in Nat,
         HeaderOK(t[d]), i <= Len(t[d].fields), \A j \in 1..i : FieldDone(t, g, d, j)
  PROVE  Progressed(t, g, [d |-> d, at |-> "fields", i |-> i + 1])
<1> DEFINE e == [d |-> d, at |-> "fields", i |-> i + 1]
<1>1. e.d = d /\ e.at = "fields" /\ e.i = i + 1  OBVIOUS
<1> HIDE DEF e
<1>2. e.i - 1 = i /\ e.i <= Len(t[d].fields) + 1  BY <1>1
<1>3. Progressed(t, g, e)  BY <1>1, <1>2 DEF Progressed
<1> QED  BY <1>3 DEF e

-----------------------------------------------------------------------------
\* What the invariant says of a state in which a call is under way.
LEMMA Facts ==
  ASSUME IInv, frames # <<>>
  PROVE  /\ frames \in Seq(Frames) /\ Len(frames) \in Nat \ {0} /\ Top \in Frames
         /\ stack \in Seq(Descriptors) /\ Len(stack) \in Nat /\ capacity \in Nat
         /\ good \in Seq(Descriptors) /\ Len(good) \in Nat
         /\ table \in [Descriptors -> DescriptorRecords]
         /\ \A k \in 1..Len(frames) : frames[k] \in Frames
<1>1. frames \in Seq(Frames)  BY DEF IInv, TypeOK, Frames
<1>2. Len(frames) \in Nat \ {0} /\ Top \in Frames  BY <1>1, Pop DEF Top
<1> QED  BY <1>1, <1>2, TablesAssumption DEF IInv, TypeOK

\* A call that returns an error leaves its callers and what is good alone.
LEMMA ErrorStep ==
  ASSUME IInv, frames # <<>>, frames' = WithoutLast(frames), ret' \in Errors,
         UNCHANGED <<table, root, capacity, good>>,
         \/ Top.at = "enter" /\ stack' = stack
         \/ Top.at # "enter" /\ stack' = WithoutLast(stack)
  PROVE  IInv'
<1>1. /\ frames' \in Seq(Frames) /\ Len(frames') = Len(frames) - 1
      /\ \A k \in 1..(Len(frames) - 1) : frames'[k] = frames[k]
  BY Facts, Pop
<1>t. frames' # <<>> => Top'.at = "attributes"
  <2>1. frames' # <<>> => Len(frames) - 1 \in 1..(Len(frames) - 1)
    BY <1>1, Facts, EmptySeq
  <2>2. frames' # <<>> => frames'[Len(frames')].at = "attributes"
    BY <1>1, <2>1, Facts DEF IInv, Walk, Waits
  <2> QED  BY <2>2 DEF Top
<1>2. /\ stack' \in Seq(Descriptors) /\ Len(stack') = Len(frames) - 1
      /\ \A k \in 1..Len(stack') : stack'[k] = stack[k] /\ k \in 1..Len(stack)
  <2>1. CASE Top.at = "enter"  BY <2>1, Facts DEF IInv, Mirror
  <2>2. CASE Top.at # "enter"
    <3>1. Len(stack) = Len(frames) /\ stack # <<>>  BY <2>2, Facts DEF IInv, Mirror
    <3>2. stack' = WithoutLast(stack)  BY <2>2
    <3>3. /\ WithoutLast(stack) \in Seq(Descriptors)
          /\ Len(WithoutLast(stack)) = Len(stack) - 1
          /\ \A k \in 1..(Len(stack) - 1) : WithoutLast(stack)[k] = stack[k]
      BY <3>1, Facts, Pop
    <3>4. \A k \in 1..(Len(stack) - 1) : k \in 1..Len(stack)  BY <3>1, Facts
    <3> QED  BY <3>1, <3>2, <3>3, <3>4
  <2> QED  BY <2>1, <2>2
<1>3. TypeOK'
  <2>1. \A k \in 1..Len(frames') : frames'[k].i <= Len(table'[frames'[k].d].fields) + 1
    <3> SUFFICES ASSUME NEW k \in 1..(Len(frames) - 1)
                 PROVE  frames[k].i <= Len(table[frames[k].d].fields) + 1
      BY <1>1
    <3>1. k \in 1..Len(frames)  BY Facts
    <3> QED  BY <3>1 DEF IInv, TypeOK
  <2> QED  BY <1>1, <1>2, <2>1 DEF IInv, TypeOK, Frames
<1>4. Walk'
  <2>1. \A k \in 1..Len(frames') :
           frames'[k].at # "enter" => Progressed(table', good', frames'[k])
    BY <1>1, Facts DEF IInv, Walk
  <2>2. \A k \in 1..(Len(frames') - 1) : Waits(table', frames'[k], frames'[k + 1])
    <3>0. Len(frames') - 1 = Len(frames) - 2  BY <1>1, Facts
    <3> SUFFICES ASSUME NEW k \in 1..(Len(frames) - 2)
                 PROVE  Waits(table, frames'[k], frames'[k + 1])
      BY <3>0
    <3>1. k \in 1..(Len(frames) - 1) /\ k + 1 \in 1..(Len(frames) - 1)  BY Facts
    <3>2. frames'[k] = frames[k] /\ frames'[k + 1] = frames[k + 1]  BY <1>1, <3>1
    <3> QED  BY <3>1, <3>2 DEF IInv, Walk
  <2>3. frames' # <<>> => frames'[1].d = root'
    <3>1. frames' # <<>> => 1 \in 1..(Len(frames) - 1)  BY <1>1, Facts, EmptySeq
    <3> QED  BY <1>1, <3>1, Facts DEF IInv, Walk
  <2> QED  BY <1>t, <2>1, <2>2, <2>3 DEF Walk, Errors
<1>5. Mirror'
  <2>2. \A k \in 1..Len(stack') : stack'[k] = frames'[k].d
    BY <1>1, <1>2, Facts DEF IInv, Mirror
  <2> QED  BY <1>1, <1>2, <1>t, <2>2 DEF Mirror
<1>6. StackDistinct'
  BY <1>1, <1>2, Facts DEF IInv, StackDistinct
<1>7. GoodIsWellFounded'
  <2>1. good' = good /\ table' = table  OBVIOUS
  <2> QED  BY <2>1 DEF IInv, GoodIsWellFounded
<1> QED  BY <1>3, <1>4, <1>5, <1>6, <1>7 DEF IInv

\* The running call goes on with a field before which everything is good.
LEMMA ResumeStep ==
  ASSUME IInv, frames # <<>>, ret = "none", NEW at \in Steps \ {"enter"}, NEW i \in Nat \ {0},
         frames' = Resume(at, i), UNCHANGED <<table, root, good, ret>>,
         Progressed(table, good, [d |-> Top.d, at |-> at, i |-> i]),
         at = "attributes" => NestedFound(table, good, [d |-> Top.d, at |-> at, i |-> i]),
         capacity' \in Nat,
         \/ Top.at # "enter" /\ UNCHANGED <<stack, capacity>>
         \/ /\ Top.at = "enter" /\ stack' = Append(stack, Top.d)
            /\ ~OnStack(stack, Top.d) /\ Len(stack') <= capacity'
  PROVE  IInv'
<1> DEFINE e == [d |-> Top.d, at |-> at, i |-> i]
<1>1. /\ frames' \in Seq(Frames) /\ Len(frames') = Len(frames)
      /\ \A k \in 1..(Len(frames) - 1) : frames'[k] = frames[k]
      /\ frames'[Len(frames)].d = Top.d /\ frames'[Len(frames)].at = at
      /\ frames'[Len(frames)].i = i /\ frames'[Len(frames)] \in Frames
  BY Facts, Resumed
<1>2. frames'[Len(frames)] = e  BY <1>1 DEF Frames
<1>d. \A k \in 1..Len(frames) : frames'[k].d = frames[k].d
  <2> SUFFICES ASSUME NEW k \in 1..Len(frames) PROVE frames'[k].d = frames[k].d
    OBVIOUS
  <2>1. CASE k = Len(frames)  BY <1>1, <2>1 DEF Top
  <2>2. CASE k # Len(frames)
    <3>1. k \in 1..(Len(frames) - 1)  BY <2>2, Facts
    <3> QED  BY <1>1, <3>1
  <2> QED  BY <2>1, <2>2
<1>3. frames' # <<>> /\ Top' = e  BY <1>1, <1>2, Facts, EmptySeq DEF Top
<1>4. /\ stack' \in Seq(Descriptors) /\ Len(stack') = Len(frames)
      /\ \A k \in 1..(Len(frames) - 1) : stack'[k] = stack[k]
      /\ stack'[Len(frames)] = Top.d
      /\ \A k \in 1..(Len(frames) - 1) : k \in 1..Len(stack)
  <2>1. CASE Top.at = "enter"
    <3>1. Len(stack) + 1 = Len(frames)  BY <2>1, Facts DEF IInv, Mirror
    <3>2. Top.d \in Descriptors  BY Facts DEF Frames
    <3>3. /\ Append(stack, Top.d) \in Seq(Descriptors)
          /\ Len(Append(stack, Top.d)) = Len(stack) + 1
          /\ \A k \in 1..Len(stack) : Append(stack, Top.d)[k] = stack[k]
          /\ Append(stack, Top.d)[Len(stack) + 1] = Top.d
      BY <3>2, Facts, Push
    <3>4. stack' = Append(stack, Top.d) /\ Len(stack) = Len(frames) - 1
      BY <2>1, <3>1, Facts
    <3> QED  BY <3>1, <3>3, <3>4, Facts
  <2>2. CASE Top.at # "enter"
    <3>1. Len(stack) = Len(frames)  BY <2>2, Facts DEF IInv, Mirror
    <3>2. stack[Len(frames)] = Top.d  BY <3>1, Facts DEF IInv, Mirror, Top
    <3> QED  BY <2>2, <3>1, <3>2, Facts
  <2> QED  BY <2>1, <2>2
<1>5. TypeOK'
  <2>1. \A k \in 1..Len(frames') : frames'[k].i <= Len(table'[frames'[k].d].fields) + 1
    <3>1. frames'[Len(frames)].i <= Len(table'[frames'[Len(frames)].d].fields) + 1
      BY <1>1 DEF Progressed
    <3>2. \A k \in 1..(Len(frames) - 1) : frames'[k].i <= Len(table'[frames'[k].d].fields) + 1
      <4>1. \A k \in 1..(Len(frames) - 1) : k \in 1..Len(frames)  BY Facts
      <4> QED  BY <1>1, <4>1 DEF IInv, TypeOK
    <3>3. \A k \in 1..Len(frames) : k = Len(frames) \/ k \in 1..(Len(frames) - 1)  BY Facts
    <3> QED  BY <1>1, <3>1, <3>2, <3>3
  <2> QED  BY <1>1, <1>4, <2>1 DEF IInv, TypeOK, Frames
<1>6. Walk'
  <2>1. \A k \in 1..Len(frames') :
           frames'[k].at # "enter" => Progressed(table', good', frames'[k])
    BY <1>1, <1>2, Facts DEF IInv, Walk
  <2>2. \A k \in 1..(Len(frames') - 1) : Waits(table', frames'[k], frames'[k + 1])
    <3> SUFFICES ASSUME NEW k \in 1..(Len(frames) - 1)
                 PROVE  Waits(table, frames'[k], frames'[k + 1])
      BY <1>1, Facts
    <3>0. k + 1 \in 1..Len(frames) /\ k \in 1..Len(frames)  BY Facts
    <3>1. frames'[k] = frames[k] /\ frames'[k + 1].d = frames[k + 1].d
      BY <1>1, <1>d, <3>0
    <3> QED  BY <3>1, Facts DEF IInv, Walk, Waits
  <2>3. frames'[1].d = root'
    <3>1. 1 \in 1..Len(frames)  BY Facts
    <3> QED  BY <1>d, <3>1 DEF IInv, Walk
  <2> QED  BY <1>3, <2>1, <2>2, <2>3 DEF Walk
<1>7. Mirror'
  <2>1. \A k \in 1..(Len(frames) - 1) : stack'[k] = frames'[k].d
    <3>1. \A k \in 1..(Len(frames) - 1) : k \in 1..Len(frames)  BY Facts
    <3> QED  BY <1>d, <1>4, <3>1 DEF IInv, Mirror
  <2>2. \A k \in 1..Len(frames) : k = Len(frames) \/ k \in 1..(Len(frames) - 1)  BY Facts
  <2>3. \A k \in 1..Len(stack') : stack'[k] = frames'[k].d
    BY <1>1, <1>4, <2>1, <2>2
  <2> QED  BY <1>1, <1>3, <1>4, <2>3 DEF Mirror
<1>8. StackDistinct'
  <2>1. \A j, k \in 1..Len(stack') : j # k => stack'[j] # stack'[k]
    <3>1. CASE Top.at = "enter"
      <4>1. \A k \in 1..(Len(frames) - 1) : stack'[k] # Top.d
        BY <3>1, <1>4 DEF OnStack
      <4> QED  BY <1>4, <4>1, Facts DEF IInv, StackDistinct
    <3>2. CASE Top.at # "enter"  BY <3>2, Facts DEF IInv, StackDistinct
    <3> QED  BY <3>1, <3>2
  <2> QED  BY <1>1, <1>4, <2>1, Facts DEF IInv, StackDistinct
<1>9. GoodIsWellFounded'
  <2>1. good' = good /\ table' = table  OBVIOUS
  <2> QED  BY <2>1 DEF IInv, GoodIsWellFounded
<1> QED  BY <1>5, <1>6, <1>7, <1>8, <1>9 DEF IInv

\* The running call comes to a struct field and calls itself for what it nests.
LEMMA DescendStep ==
  ASSUME IInv, frames # <<>>, ret = "none", Top.at = "fields",
         NEW n \in Descriptors, table[Top.d].fields[Top.i].nested = n,
         Progressed(table, good, [d |-> Top.d, at |-> "attributes", i |-> Top.i]),
         frames' = Append(Resume("attributes", Top.i), Call(n)),
         UNCHANGED <<table, root, stack, capacity, good, ret>>
  PROVE  IInv'
<1> DEFINE r == Resume("attributes", Top.i)
           e == [d |-> Top.d, at |-> "attributes", i |-> Top.i]
<1>1. /\ r \in Seq(Frames) /\ Len(r) = Len(frames)
      /\ \A k \in 1..(Len(frames) - 1) : r[k] = frames[k]
      /\ r[Len(frames)].d = Top.d /\ r[Len(frames)].at = "attributes"
      /\ r[Len(frames)].i = Top.i /\ r[Len(frames)] \in Frames
  <2>1. Top.i \in Nat \ {0} /\ "attributes" \in Steps  BY Facts DEF Frames, Steps
  <2> QED  BY <2>1, Facts, Resumed
<1>2. r[Len(frames)] = e  BY <1>1 DEF Frames
<1>3. Call(n) \in Frames /\ Call(n).d = n /\ Call(n).at = "enter" /\ Call(n).i = 1
  BY DEF Call, Frames, Steps
<1> HIDE DEF r
<1>4. /\ frames' \in Seq(Frames) /\ Len(frames') = Len(frames) + 1
      /\ \A k \in 1..Len(frames) : frames'[k] = r[k]
      /\ frames'[Len(frames) + 1] = Call(n)
  <2>1. frames' = Append(r, Call(n))  BY DEF r
  <2>2. /\ Append(r, Call(n)) \in Seq(Frames) /\ Len(Append(r, Call(n))) = Len(r) + 1
        /\ \A k \in 1..Len(r) : Append(r, Call(n))[k] = r[k]
        /\ Append(r, Call(n))[Len(r) + 1] = Call(n)
    BY <1>1, <1>3, Push
  <2>3. Len(r) = Len(frames)  BY <1>1
  <2> QED  BY <2>1, <2>2, <2>3
<1>a. Len(frames) \in Nat \ {0}  BY Facts
<1>5. \A k \in 1..Len(frames) : k = Len(frames) \/ k \in 1..(Len(frames) - 1)  BY <1>a
<1>6. Len(frames) \in 1..Len(frames) /\ \A k \in 1..(Len(frames) - 1) : k \in 1..Len(frames)
  BY Facts
<1>7. \A k \in 1..(Len(frames) - 1) : frames'[k] = frames[k]  BY <1>1, <1>4, <1>6
<1>8. frames'[Len(frames)] = e  BY <1>2, <1>4, <1>6
<1>9. \A k \in 1..Len(frames') : k = Len(frames) + 1 \/ k = Len(frames) \/ k \in 1..(Len(frames) - 1)
  BY <1>4, Facts
<1>10. \A k \in 1..Len(frames) : frames'[k].d = frames[k].d
  <2>1. frames'[Len(frames)].d = frames[Len(frames)].d  BY <1>1, <1>4, <1>6 DEF Top
  <2> QED  BY <1>5, <1>7, <2>1
<1>11. frames' # <<>> /\ Top' = Call(n)
  <2>1. frames' # <<>>
    <3>1. Len(frames') # 0  BY <1>4, <1>a
    <3> QED  BY <3>1, EmptySeq
  <2>2. Top' = frames'[Len(frames')]  BY DEF Top
  <2> QED  BY <1>4, <2>1, <2>2
<1>12. TypeOK'
  <2>1. \A k \in 1..(Len(frames) - 1) : frames'[k].i <= Len(table[frames'[k].d].fields) + 1
    BY <1>6, <1>7 DEF IInv, TypeOK
  <2>2. e.i <= Len(table[e.d].fields) + 1  BY DEF Progressed
  <2>3. Call(n).i <= Len(table[Call(n).d].fields) + 1
    <3>1. table[n].fields \in Seq(Fields)  BY Facts DEF DescriptorRecords
    <3>2. Len(table[n].fields) \in Nat  BY <3>1
    <3> QED  BY <1>3, <3>2
  <2>4. \A k \in 1..Len(frames') : frames'[k].i <= Len(table'[frames'[k].d].fields) + 1
    BY <1>4, <1>8, <1>9, <2>1, <2>2, <2>3
  <2> QED  BY <1>4, <2>4 DEF IInv, TypeOK, Frames
<1>13. Walk'
  <2>1. \A k \in 1..Len(frames') :
           frames'[k].at # "enter" => Progressed(table', good', frames'[k])
    <3>1. \A k \in 1..(Len(frames) - 1) :
             frames'[k].at # "enter" => Progressed(table, good, frames'[k])
      BY <1>6, <1>7 DEF IInv, Walk
    <3> QED  BY <1>3, <1>4, <1>8, <1>9, <3>1
  <2>2. \A k \in 1..(Len(frames') - 1) : Waits(table', frames'[k], frames'[k + 1])
    <3>1. Waits(table, e, Call(n))  BY <1>3 DEF Waits
    <3>2. \A k \in 1..(Len(frames) - 1) : Waits(table, frames'[k], frames'[k + 1])
      <4> SUFFICES ASSUME NEW k \in 1..(Len(frames) - 1)
                   PROVE  Waits(table, frames'[k], frames'[k + 1])
        OBVIOUS
      <4>1. k + 1 \in 1..Len(frames)  BY Facts
      <4>2. frames'[k] = frames[k] /\ frames'[k + 1].d = frames[k + 1].d
        BY <1>7, <1>10, <4>1
      <4> QED  BY <4>2 DEF IInv, Walk, Waits
    <3>3. Len(frames') - 1 = Len(frames)  BY <1>4, Facts
    <3> QED  BY <1>4, <1>5, <1>8, <3>1, <3>2, <3>3
  <2>3. frames'[1].d = root'
    <3>1. 1 \in 1..Len(frames)  BY Facts
    <3> QED  BY <1>10, <3>1 DEF IInv, Walk
  <2> QED  BY <1>3, <1>11, <2>1, <2>2, <2>3 DEF Walk
<1>14. Mirror'
  <2>1. Len(stack) = Len(frames)  BY Facts DEF IInv, Mirror
  <2>2. \A k \in 1..Len(stack) : stack[k] = frames'[k].d
    BY <1>10, <2>1 DEF IInv, Mirror
  <2>3. Len(stack) = Len(frames') - 1  BY <1>4, <2>1, Facts
  <2> QED  BY <1>3, <1>11, <2>2, <2>3 DEF Mirror
<1>15. StackDistinct'
  <2>1. Len(stack) = Len(frames)  BY Facts DEF IInv, Mirror
  <2> QED  BY <1>4, <2>1, Facts DEF IInv, StackDistinct
<1>16. GoodIsWellFounded'
  <2>1. good' = good /\ table' = table  OBVIOUS
  <2> QED  BY <2>1 DEF IInv, GoodIsWellFounded
<1> QED  BY <1>12, <1>13, <1>14, <1>15, <1>16 DEF IInv

-----------------------------------------------------------------------------
\* What was found good stays so when another descriptor is.
LEMMA MoreFound ==
  ASSUME NEW t, NEW g, NEW h, NEW fr, \A n : Found(g, n) => Found(h, n)
  PROVE  Progressed(t, g, fr) => Progressed(t, h, fr)
  BY DEF Progressed, FieldDone

\* A call that has come to the end of its fields has found its descriptor valid.
LEMMA ReturnsValid ==
  ASSUME IInv, frames # <<>>, Top.at = "fields", Top.i > Len(table[Top.d].fields)
  PROVE  /\ LocallyValid(table, Top.d)
         /\ \A n \in Nested(table, Top.d) : Found(good, n)
<1> DEFINE fs == table[Top.d].fields
<1>1. Top.d \in Descriptors /\ table[Top.d] \in DescriptorRecords /\ Top.i \in Nat
  <2>1. Top \in Frames /\ table \in [Descriptors -> DescriptorRecords]  BY Facts
  <2>2. Top.d \in Descriptors /\ Top.i \in Nat  BY <2>1 DEF Frames
  <2> QED  BY <2>1, <2>2
<1>2. fs \in Seq(Fields) /\ Len(fs) \in Nat /\ DOMAIN fs = 1..Len(fs)
  BY <1>1 DEF DescriptorRecords
<1>3. Progressed(table, good, Top)
  <2>1. Len(frames) \in 1..Len(frames)  BY Facts
  <2> QED  BY <2>1 DEF IInv, Walk, Top
<1>4. \A j \in 1..Len(fs) : FieldDone(table, good, Top.d, j)
  BY <1>1, <1>2, <1>3 DEF Progressed
<1>5. \A j \in 1..Len(fs) : FieldValid(table, Top.d, fs[j])
  <2> SUFFICES ASSUME NEW j \in 1..Len(fs) PROVE FieldValid(table, Top.d, fs[j])
    OBVIOUS
  <2>1. fs[j] \in Fields  BY <1>2
  <2>2. Checked(table, Top.d, fs[j]) /\ validate_attributes(fs[j])  BY <1>4 DEF FieldDone
  <2> QED  BY <1>1, <2>1, <2>2, FieldChecked
<1>6. LocallyValid(table, Top.d)
  BY <1>2, <1>3, <1>5 DEF LocallyValid, Progressed, HeaderOK
<1>7. \A n \in Nested(table, Top.d) : Found(good, n)
  BY <1>2, <1>4 DEF Nested, FieldDone
<1> QED  BY <1>6, <1>7

\* The running call returns COM_UTIL_OK: its descriptor is good, its caller goes on.
LEMMA ReturnStep ==
  ASSUME IInv, Return
  PROVE  IInv'
<1>0. /\ ret = "none" /\ frames # <<>> /\ Top.at = "fields"
      /\ Top.i > Len(table[Top.d].fields)
      /\ frames' = WithoutLast(frames) /\ stack' = WithoutLast(stack)
      /\ table' = table /\ root' = root /\ capacity' = capacity
      /\ ret' = IF Len(frames) = 1 THEN "OK" ELSE "none"
      /\ good' = IF Found(good, Top.d) THEN good ELSE Append(good, Top.d)
  BY DEF Return, Running, data
<1>a. Len(frames) \in Nat \ {0} /\ Top \in Frames /\ Top.d \in Descriptors
  BY <1>0, Facts DEF Frames
<1>1. /\ frames' \in Seq(Frames) /\ Len(frames') = Len(frames) - 1
      /\ \A k \in 1..(Len(frames) - 1) : frames'[k] = frames[k]
  BY <1>0, Facts, Pop
<1>t. frames' # <<>> => Top'.at = "attributes"
  <2> SUFFICES ASSUME frames' # <<>> PROVE Top'.at = "attributes"
    OBVIOUS
  <2>1. Len(frames) - 1 \in 1..(Len(frames) - 1)
    <3>1. Len(frames') # 0  BY <1>1, EmptySeq
    <3> QED  BY <1>1, <1>a, <3>1
  <2>2. Top' = frames[Len(frames) - 1]  BY <1>1, <2>1 DEF Top
  <2> QED  BY <2>1, <2>2 DEF IInv, Walk, Waits
<1>2. /\ stack' \in Seq(Descriptors) /\ Len(stack') = Len(frames) - 1
      /\ \A k \in 1..(Len(frames) - 1) : stack'[k] = stack[k] /\ k \in 1..Len(stack)
  <2>1. Len(stack) = Len(frames)  BY <1>0 DEF IInv, Mirror
  <2>2. stack # <<>>
    <3>1. Len(stack) # 0  BY <1>a, <2>1
    <3> QED  BY <3>1
  <2> QED  BY <1>0, <1>a, <2>1, <2>2, Facts, Pop
<1>3. /\ good' \in Seq(Descriptors) /\ Found(good', Top.d)
      /\ \A n : Found(good, n) => Found(good', n)
  <2>1. CASE Found(good, Top.d)  BY <1>0, <2>1, Facts
  <2>2. CASE ~Found(good, Top.d)
    <3>1. /\ Append(good, Top.d) \in Seq(Descriptors)
          /\ Len(Append(good, Top.d)) = Len(good) + 1
          /\ \A k \in 1..Len(good) : Append(good, Top.d)[k] = good[k]
          /\ Append(good, Top.d)[Len(good) + 1] = Top.d
      BY <1>0, <1>a, Facts, Push
    <3>2. good' = Append(good, Top.d) /\ Len(good) \in Nat  BY <1>0, <2>2, Facts
    <3>3. Found(good', Top.d)  BY <3>1, <3>2 DEF Found
    <3>4. \A n : Found(good, n) => Found(good', n)  BY <3>1, <3>2 DEF Found
    <3> QED  BY <3>1, <3>2, <3>3, <3>4
  <2> QED  BY <2>1, <2>2
<1>4. TypeOK'
  <2>1. \A k \in 1..(Len(frames) - 1) : frames[k].i <= Len(table[frames[k].d].fields) + 1
    <3>1. \A k \in 1..(Len(frames) - 1) : k \in 1..Len(frames)  BY <1>a
    <3> QED  BY <3>1 DEF IInv, TypeOK
  <2>2. \A k \in 1..Len(frames') : frames'[k].i <= Len(table'[frames'[k].d].fields) + 1
    BY <1>0, <1>1, <2>1
  <2> QED  BY <1>0, <1>1, <1>2, <1>3, <2>2 DEF IInv, TypeOK, Frames
<1>5. Walk'
  <2>1. \A k \in 1..Len(frames') :
           frames'[k].at # "enter" => Progressed(table', good', frames'[k])
    <3> SUFFICES ASSUME NEW k \in 1..(Len(frames) - 1), frames[k].at # "enter"
                 PROVE  Progressed(table, good', frames[k])
      BY <1>0, <1>1
    <3>1. k \in 1..Len(frames)  BY <1>a
    <3>2. Progressed(table, good, frames[k])  BY <3>1 DEF IInv, Walk
    <3> QED  BY <1>3, <3>2, MoreFound
  <2>2. \A k \in 1..(Len(frames') - 1) : Waits(table', frames'[k], frames'[k + 1])
    <3>0. Len(frames') - 1 = Len(frames) - 2  BY <1>1, <1>a
    <3> SUFFICES ASSUME NEW k \in 1..(Len(frames) - 2)
                 PROVE  Waits(table, frames'[k], frames'[k + 1])
      BY <1>0, <3>0
    <3>1. k \in 1..(Len(frames) - 1) /\ k + 1 \in 1..(Len(frames) - 1)  BY <1>a
    <3>2. frames'[k] = frames[k] /\ frames'[k + 1] = frames[k + 1]  BY <1>1, <3>1
    <3> QED  BY <3>1, <3>2 DEF IInv, Walk
  <2>3. CASE Len(frames) = 1
    <3>1. frames' = <<>>  BY <1>1, <2>3, EmptySeq
    <3>2. Top.d = root  BY <1>0, <2>3 DEF IInv, Walk, Top
    <3>3. ret' = "OK" /\ Found(good', root')  BY <1>0, <1>3, <2>3, <3>2
    <3>4. frames' # <<>> => frames'[1].d = root' /\ ret' \in {"none"} \cup Errors
      BY <3>1
    <3>5. ret' # "none"  BY <3>3
    <3>6. ret' = "OK" => Found(good', root')  BY <3>3
    <3>7. ret' = "none" /\ frames' # <<>> /\ Top'.at = "attributes" =>
             NestedFound(table', good', Top')
      BY <3>5
    <3> QED  BY <1>t, <2>1, <2>2, <3>4, <3>6, <3>7 DEF Walk
  <2>4. CASE Len(frames) # 1
    <3>1. Len(frames) - 1 \in 1..(Len(frames) - 1) /\ 1 \in 1..(Len(frames) - 1)
      BY <1>a, <2>4, MoreThanOne
    <3>2. Top' = frames[Len(frames) - 1]  BY <1>1, <3>1 DEF Top
    <3>3. Waits(table, frames[Len(frames) - 1], Top)
      <4>1. Len(frames) - 1 + 1 = Len(frames)  BY <1>a
      <4>2. Waits(table, frames[Len(frames) - 1], frames[Len(frames) - 1 + 1])
        BY <3>1 DEF IInv, Walk
      <4> QED  BY <4>1, <4>2 DEF Top
    <3>4. NestedFound(table', good', Top')
      BY <1>0, <1>3, <3>2, <3>3 DEF Waits, NestedFound
    <3>5. frames'[1].d = root' /\ ret' = "none"
      BY <1>0, <1>1, <2>4, <3>1 DEF IInv, Walk
    <3> QED  BY <1>t, <2>1, <2>2, <3>4, <3>5 DEF Walk
  <2> QED  BY <2>3, <2>4
<1>6. Mirror'
  <2>2. \A k \in 1..Len(stack') : stack'[k] = frames'[k].d
    <3>1. \A k \in 1..(Len(frames) - 1) : stack[k] = frames[k].d
      BY <1>2 DEF IInv, Mirror
    <3> QED  BY <1>1, <1>2, <3>1
  <2> QED  BY <1>1, <1>2, <1>t, <2>2 DEF Mirror
<1>7. StackDistinct'
  <2>1. capacity' \in Nat /\ Len(frames) - 1 <= capacity'
    <3>1. Len(stack) = Len(frames)  BY <1>0 DEF IInv, Mirror
    <3> QED  BY <1>0, <1>a, <3>1 DEF IInv, StackDistinct, TypeOK
  <2>2. \A i, j \in 1..Len(stack') : i # j => stack'[i] # stack'[j]
    <3> SUFFICES ASSUME NEW i \in 1..Len(stack'), NEW j \in 1..Len(stack'), i # j
                 PROVE  stack'[i] # stack'[j]
      OBVIOUS
    <3>1. /\ stack'[i] = stack[i] /\ i \in 1..Len(stack)
          /\ stack'[j] = stack[j] /\ j \in 1..Len(stack)
      BY <1>2
    <3> QED  BY <3>1 DEF IInv, StackDistinct
  <2>3. Len(frames') = Len(stack')  BY <1>1, <1>2
  <2> QED  BY <1>2, <1>a, <2>1, <2>2, <2>3 DEF StackDistinct
<1>8. GoodIsWellFounded'
  <2>1. CASE Found(good, Top.d)
    <3>1. good' = good /\ table' = table  BY <1>0, <2>1
    <3> QED  BY <3>1 DEF IInv, GoodIsWellFounded
  <2>2. CASE ~Found(good, Top.d)
    <3>1. good' = Append(good, Top.d) /\ table' = table /\ Len(good) \in Nat
      BY <1>0, <2>2, Facts
    <3>2. /\ Len(good') = Len(good) + 1
          /\ \A k \in 1..Len(good) : good'[k] = good[k]
          /\ good'[Len(good) + 1] = Top.d
      BY <1>0, <1>a, <3>1, Facts, Push
    <3>3. LocallyValid(table, Top.d) /\ \A n \in Nested(table, Top.d) : Found(good, n)
      BY <1>0, ReturnsValid
    <3> SUFFICES ASSUME NEW k \in 1..Len(good')
                 PROVE  /\ LocallyValid(table, good'[k])
                        /\ \A n \in Nested(table, good'[k]) :
                              \E j \in 1..(k - 1) : good'[j] = n
      BY <3>1 DEF GoodIsWellFounded
    <3>4. CASE k = Len(good) + 1
      <4>1. k - 1 = Len(good)  BY <3>1, <3>4
      <4> QED  BY <3>2, <3>3, <3>4, <4>1 DEF Found
    <3>5. CASE k # Len(good) + 1
      <4>1. k \in 1..Len(good) /\ \A j \in 1..(k - 1) : j \in 1..Len(good)
        BY <3>1, <3>2, <3>5
      <4> QED  BY <3>2, <4>1 DEF IInv, GoodIsWellFounded
    <3> QED  BY <3>4, <3>5
  <2> QED  BY <2>1, <2>2
<1> QED  BY <1>4, <1>5, <1>6, <1>7, <1>8 DEF IInv

-----------------------------------------------------------------------------
\* Every step keeps the invariant.
LEMMA StepInv == IInv /\ [Next]_vars => IInv'
<1> SUFFICES ASSUME IInv, [Next]_vars PROVE IInv'
  OBVIOUS
<1>1. CASE EnterRejects
  BY <1>1, ErrorStep DEF EnterRejects, Running, data, Errors
<1>2. CASE EnterOutOfMemory
  BY <1>2, ErrorStep DEF EnterOutOfMemory, Running, data, Errors
<1>3. CASE push_descriptor
  <2>1. /\ ret = "none" /\ frames # <<>> /\ Top.at = "enter" /\ HeaderOK(table[Top.d])
        /\ ~OnStack(stack, Top.d) /\ stack' = Append(stack, Top.d)
        /\ frames' = Resume("fields", 1) /\ UNCHANGED <<table, root, good, ret>>
        /\ capacity' = IF Len(stack) # capacity THEN capacity
                       ELSE IF capacity = 0 THEN FirstCapacity ELSE capacity * 2
    BY <1>3 DEF push_descriptor, Running, data
  <2>2. /\ stack \in Seq(Descriptors) /\ Len(stack) \in Nat /\ capacity \in Nat
        /\ Top.d \in Descriptors /\ table[Top.d] \in DescriptorRecords
        /\ Len(stack) <= capacity
    BY <2>1, Facts DEF Frames, IInv, StackDistinct
  <2>3. Len(stack') = Len(stack) + 1  BY <2>1, <2>2, Push
  <2>4. capacity' \in Nat /\ Len(stack) + 1 <= capacity'
    BY <2>1, <2>2, CapacityAssumption
  <2>5. Progressed(table, good, [d |-> Top.d, at |-> "fields", i |-> 1])
    <3>1. Len(table[Top.d].fields) \in Nat  BY <2>2 DEF DescriptorRecords
    <3> QED  BY <2>1, <3>1 DEF Progressed
  <2>6. "fields" \in Steps \ {"enter"} /\ 1 \in Nat \ {0}  BY DEF Steps
  <2> QED  BY <2>1, <2>3, <2>4, <2>5, <2>6, ResumeStep
<1>4. CASE CheckField
  <2>1. /\ ret = "none" /\ frames # <<>> /\ Top.at = "fields"
        /\ Top.i <= Len(table[Top.d].fields)
    BY <1>4 DEF CheckField, Running
  <2>2. CASE Reject
    BY <2>1, <2>2, ErrorStep DEF Reject, data, Errors
  <2>3. CASE /\ Checked(table, Top.d, CurrentField)
             /\ frames' = IF CurrentField.kind = "struct"
                            THEN Append(Resume("attributes", Top.i), Call(CurrentField.nested))
                          ELSE Resume("attributes", Top.i)
             /\ UNCHANGED <<data, stack, capacity, ret, good>>
    <3> DEFINE e == [d |-> Top.d, at |-> "attributes", i |-> Top.i]
    <3>1. Progressed(table, good, Top)  BY <2>1, Facts DEF IInv, Walk, Top
    <3>2. Progressed(table, good, e)
      BY <2>1, <2>3, <3>1 DEF Progressed, CurrentField
    <3>3. Top.d \in Descriptors /\ Top.i \in Nat \ {0} /\ "attributes" \in Steps \ {"enter"}
      BY <2>1, Facts DEF Frames, Steps
    <3>4. CurrentField \in Fields
      <4>1. table[Top.d].fields \in Seq(Fields)  BY <2>1, <3>3, Facts DEF DescriptorRecords
      <4>2. Top.i \in 1..Len(table[Top.d].fields)  BY <2>1, <3>3, <4>1
      <4> QED  BY <4>1, <4>2 DEF CurrentField
    <3>5. UNCHANGED <<table, root, stack, capacity, good, ret>>  BY <2>3 DEF data
    <3>6. CASE CurrentField.kind = "struct"
      <4>1. CurrentField.nested \in Descriptors
        BY <2>3, <3>4, <3>6 DEF Checked, NestedOK, Fields
      <4>2. table[Top.d].fields[Top.i].nested = CurrentField.nested  BY DEF CurrentField
      <4>3. frames' = Append(Resume("attributes", Top.i), Call(CurrentField.nested))
        BY <2>3, <3>6
      <4> QED  BY <2>1, <3>2, <3>5, <4>1, <4>2, <4>3, DescendStep
    <3>7. CASE CurrentField.kind # "struct"
      <4>1. NestedFound(table, good, e)
        BY <2>3, <3>7 DEF Checked, NestedOK, NestedFound, CurrentField
      <4>2. frames' = Resume("attributes", Top.i)  BY <2>3, <3>7
      <4>3. capacity' \in Nat  BY <3>5 DEF IInv, TypeOK
      <4> HIDE DEF e
      <4> QED  BY <2>1, <3>2, <3>3, <3>5, <4>1, <4>2, <4>3, ResumeStep DEF e
    <3> QED  BY <3>6, <3>7
  <2> QED  BY <1>4, <2>2, <2>3 DEF CheckField
<1>5. CASE CheckAttributes
  <2>1. ret = "none" /\ frames # <<>> /\ Top.at = "attributes"
    BY <1>5 DEF CheckAttributes, Running
  <2>2. CASE Reject
    BY <2>1, <2>2, ErrorStep DEF Reject, data, Errors
  <2>3. CASE /\ validate_attributes(CurrentField)
             /\ frames' = Resume("fields", Top.i + 1)
             /\ UNCHANGED <<data, stack, capacity, ret, good>>
    <3>1. Progressed(table, good, Top) /\ NestedFound(table, good, Top)
      BY <2>1, Facts DEF IInv, Walk, Top
    <3>2. Top.i \in Nat \ {0} /\ Top.i + 1 \in Nat \ {0} /\ "fields" \in Steps \ {"enter"}
      BY <2>1, Facts DEF Frames, Steps
    <3>3. FieldDone(table, good, Top.d, Top.i)
      BY <2>1, <2>3, <3>1 DEF Progressed, NestedFound, FieldDone, CurrentField
    <3>4. \A j \in 1..Top.i : FieldDone(table, good, Top.d, j)
      BY <3>1, <3>2, <3>3 DEF Progressed
    <3>5. Progressed(table, good, [d |-> Top.d, at |-> "fields", i |-> Top.i + 1])
      <4>1. Len(table[Top.d].fields) \in Nat
        <5>1. Top.d \in Descriptors  BY <2>1, Facts DEF Frames
        <5> QED  BY <2>1, <5>1, Facts DEF DescriptorRecords
      <4>2. Top.i <= Len(table[Top.d].fields)  BY <2>1, <3>1 DEF Progressed
      <4>3. HeaderOK(table[Top.d])  BY <3>1 DEF Progressed
      <4> QED  BY <3>2, <3>4, <4>1, <4>2, <4>3, NextField
    <3>6. UNCHANGED <<table, root, good, ret>> /\ UNCHANGED <<stack, capacity>>
      BY <2>3 DEF data
    <3>7. capacity' \in Nat  BY <3>6 DEF IInv, TypeOK
    <3> QED  BY <2>1, <2>3, <3>2, <3>5, <3>6, <3>7, ResumeStep
  <2> QED  BY <1>5, <2>2, <2>3 DEF CheckAttributes
<1>6. CASE Return
  BY <1>6, ReturnStep
<1>7. CASE Unwind
  <2>1. ret \in Errors /\ frames # <<>>  BY <1>7 DEF Unwind
  <2>2. CASE Top.at # "enter"
    BY <1>7, <2>1, <2>2, ErrorStep DEF Unwind, data
  <2>3. CASE Top.at = "enter"
    <3>1. ret # "none"  BY <2>1 DEF Errors
    <3> QED  BY <2>1, <2>3, <3>1 DEF IInv, Walk
  <2> QED  BY <2>2, <2>3
<1>8. CASE Done \/ UNCHANGED vars
  <2>1. UNCHANGED vars  BY <1>8 DEF Done
  <2>2. UNCHANGED <<table, root, frames, stack, capacity, ret, good>>  BY <2>1 DEF vars
  <2>3. TypeOK'  BY <2>2 DEF IInv, TypeOK
  <2>4. Walk'  BY <2>2 DEF IInv, Walk, Top
  <2>5. Mirror' /\ StackDistinct'  BY <2>2 DEF IInv, Mirror, StackDistinct, Top
  <2>6. GoodIsWellFounded'  BY <2>2 DEF IInv, GoodIsWellFounded
  <2> QED  BY <2>3, <2>4, <2>5, <2>6 DEF IInv
<1> QED
  BY <1>1, <1>2, <1>3, <1>4, <1>5, <1>6, <1>7, <1>8 DEF Next

\* A call on NULL has returned already, any other is about to enter the root.
LEMMA InitInv == Init => IInv
<1> SUFFICES ASSUME Init PROVE IInv
  OBVIOUS
<1>1. CASE root = NoDescriptor
  BY <1>1 DEF Init, IInv, TypeOK, Walk, Mirror, StackDistinct, GoodIsWellFounded, Errors
<1>2. CASE root # NoDescriptor
  <2>1. /\ table \in Tables /\ root \in Descriptors /\ frames = <<Call(root)>>
        /\ ret = "none" /\ stack = <<>> /\ capacity = 0 /\ good = <<>>
    BY <1>2 DEF Init
  <2>2. /\ Len(frames) = 1 /\ frames # <<>> /\ frames[1].d = root
        /\ frames[1].at = "enter" /\ frames[1].i = 1
        /\ frames \in Seq([d : Descriptors, at : Steps, i : Nat \ {0}])
    BY <2>1 DEF Call, Steps
  <2>3. Len(table[root].fields) \in Nat
    BY <2>1, TablesAssumption DEF DescriptorRecords
  <2>4. TypeOK
    <3>1. \A k \in 1..Len(frames) : frames[k].i <= Len(table[frames[k].d].fields) + 1
      BY <2>2, <2>3
    <3> QED  BY <2>1, <2>2, <3>1 DEF TypeOK
  <2>5. Walk  BY <2>1, <2>2 DEF Walk, Top
  <2>6. Mirror /\ StackDistinct /\ GoodIsWellFounded
    BY <2>1, <2>2 DEF Mirror, StackDistinct, GoodIsWellFounded, Top
  <2> QED  BY <2>4, <2>5, <2>6 DEF IInv
<1> QED  BY <1>1, <1>2

LEMMA Invariance == Spec => []IInv
  BY InitInv, StepInv, PTL DEF Spec

\* The calls, the array and the result are of their types whatever the caller's
\* descriptors point at; the field index never passes the end of the fields.
THEOREM Typing == Spec => []TypeOK
<1>1. IInv => TypeOK  BY DEF IInv
<1> QED  BY Invariance, <1>1, PTL

\* The recursion of validate_descriptor never meets a descriptor twice on its way down
\* and never writes outside the array it has allocated.
THEOREM RecursionBounded == Spec => []StackDistinct
<1>1. IInv => StackDistinct  BY DEF IInv
<1> QED  BY Invariance, <1>1, PTL

\* A descriptor is accepted only after all it nests: what has been accepted has no
\* cycle, and every reader that recurses into it comes to an end.
THEOREM AcceptedIsWellFounded == Spec => []GoodIsWellFounded
<1>1. IInv => GoodIsWellFounded  BY DEF IInv
<1> QED  BY Invariance, <1>1, PTL

-----------------------------------------------------------------------------
\* Every set of natural numbers that is not empty has a least one.
LEMMA LeastNumber ==
  ASSUME NEW S \in SUBSET Nat, S # {}
  PROVE  \E n \in S : \A m \in S : n <= m
<1>1. PICK n \in S : \A m \in S : ~(<<m, n>> \in OpToRel(<, Nat))
  BY NatLessThanWellFounded, WFMin
<1>2. \A m \in S : ~(m < n)  BY <1>1 DEF OpToRel
<1> QED  BY <1>2

\* What is reachable is a set of descriptors that holds the root and all it nests.
LEMMA ReachableIsClosed ==
  ASSUME NEW t \in [Descriptors -> DescriptorRecords], NEW r \in Descriptors
  PROVE  /\ Reachable(t, r) \subseteq Descriptors
         /\ r \in Reachable(t, r)
         /\ \A d \in Reachable(t, r) : Nested(t, d) \subseteq Reachable(t, r)
<1>1. \A d \in Descriptors : Nested(t, d) \subseteq Descriptors
  <2> SUFFICES ASSUME NEW d \in Descriptors, NEW n \in Nested(t, d) PROVE n \in Descriptors
    OBVIOUS
  <2>1. PICK i \in DOMAIN t[d].fields : n = t[d].fields[i].nested /\ n # NoDescriptor
    BY DEF Nested
  <2>2. t[d].fields \in Seq(Fields)  BY DEF DescriptorRecords
  <2>3. t[d].fields[i] \in Fields  BY <2>1, <2>2
  <2> QED  BY <2>1, <2>3 DEF Fields
<1>2. ASSUME NEW d \in Reachable(t, r), NEW n \in Nested(t, d) PROVE n \in Reachable(t, r)
  <2>1. d \in Descriptors /\ n \in Descriptors  BY <1>1, <1>2 DEF Reachable
  <2>2. ASSUME NEW S \in SUBSET Descriptors, r \in S, \A e \in S : Nested(t, e) \subseteq S
        PROVE  n \in S
    <3>1. d \in S  BY <2>2 DEF Reachable
    <3> QED  BY <1>2, <2>2, <3>1
  <2> QED  BY <2>1, <2>2 DEF Reachable
<1> QED  BY <1>2 DEF Reachable

\* What has been found good holds with a descriptor all that is reachable from it.
LEMMA GoodIsValid ==
  ASSUME IInv, NEW r \in Descriptors, Found(good, r)
  PROVE  Valid(table, r)
<1> DEFINE G == {d \in Descriptors : Found(good, d)}
<1>0. table \in [Descriptors -> DescriptorRecords] /\ Len(good) \in Nat /\ good \in Seq(Descriptors)
  BY TablesAssumption DEF IInv, TypeOK
<1>1. Reachable(table, r) \subseteq G
  <2>1. G \in SUBSET Descriptors /\ r \in G  OBVIOUS
  <2>2. ASSUME NEW e \in G, NEW n \in Nested(table, e) PROVE n \in G
    <3>1. PICK k \in 1..Len(good) : good[k] = e  BY DEF Found
    <3>2. PICK j \in 1..(k - 1) : good[j] = n  BY <2>2, <3>1 DEF IInv, GoodIsWellFounded
    <3>3. j \in 1..Len(good)  BY <1>0
    <3> QED  BY <1>0, <3>2, <3>3 DEF Found
  <2> QED  BY <2>1, <2>2 DEF Reachable
<1>2. \A d \in G : LocallyValid(table, d)  BY DEF Found, IInv, GoodIsWellFounded
<1>3. ASSUME NEW T \in SUBSET G, T # {} PROVE \E d \in T : Nested(table, d) \cap T = {}
  <2> DEFINE K == {k \in 1..Len(good) : good[k] \in T}
  <2>1. K \in SUBSET Nat /\ K # {}  BY <1>0, <1>3 DEF Found
  <2> HIDE DEF K
  <2>2. PICK k \in K : \A j \in K : k <= j  BY <2>1, LeastNumber
  <2> USE DEF K
  <2>3. ASSUME NEW n \in Nested(table, good[k]), n \in T PROVE FALSE
    <3>1. PICK j \in 1..(k - 1) : good[j] = n  BY <2>2, <2>3 DEF IInv, GoodIsWellFounded
    <3>2. j \in K /\ j < k  BY <1>0, <2>2, <2>3, <3>1
    <3> QED  BY <1>0, <2>2, <3>2
  <2> QED  BY <2>2, <2>3
<1> QED  BY <1>1, <1>2, <1>3 DEF Valid, Acyclic

\* A product within size_t passes the division test.
LEMMA QuotientBound ==
  ASSUME NEW n \in Nat, NEW e \in Nat \ {0}, n * e <= SizeMax
  PROVE  n <= SizeMax \div e
<1> DEFINE q == SizeMax \div e
<1>1. q \in Nat /\ SizeMax \in Nat  BY Quotient, SizeAssumption
<1>2. SizeMax < (q + 1) * e  BY <1>1
<1> HIDE DEF q
<1>3. q + 1 <= n => (q + 1) * e <= n * e  BY <1>1
<1>4. n <= q  BY <1>1, <1>2, <1>3
<1> QED  BY <1>4 DEF q

\* The other way round: a field the loop body rejects is not one StructMeta accepts.
LEMMA FieldRejected ==
  ASSUME NEW t \in [Descriptors -> DescriptorRecords], NEW d \in Descriptors, NEW f \in Fields,
         FieldValid(t, d, f)
  PROVE  Checked(t, d, f) /\ validate_attributes(f)
<1>t. /\ f.offset \in Sizes /\ f.element_size \in Sizes /\ f.element_count \in Sizes
      /\ f.char_buffer_size \in Sizes /\ t[d].size \in Sizes
      /\ f.keys \in Seq(Names \cup {NoName}) /\ SizeMax \in Nat \ {0}
  BY SizeAssumption DEF Fields, DescriptorRecords
<1>1. Extent(f) \in Nat /\ Extent(f) <= t[d].size
  <2>1. Extent(f) \in Nat  BY <1>t DEF Extent, Sizes
  <2> QED  BY <1>t, <2>1 DEF FieldValid, Sizes
<1>2. FieldSize(f) = Extent(f)
  <2>1. CASE f.kind = "char_array"  BY <2>1 DEF FieldSize, Extent
  <2>2. CASE f.kind # "char_array"
    <3> DEFINE p == f.element_count * f.element_size
    <3>1. Extent(f) = p /\ FieldSize(f) = p % (SizeMax + 1)  BY <2>2 DEF Extent, FieldSize
    <3>2. p \in 0..SizeMax  BY <1>t, <1>1, <3>1 DEF Sizes
    <3> HIDE DEF p
    <3>3. p % (SizeMax + 1) = p  BY SizeAssumption, <3>2
    <3> QED  BY <3>1, <3>3
  <2> QED  BY <2>1, <2>2
<1>3. ShapeOK(f)
  <2>1. CASE f.kind = "char_array"  BY <2>1 DEF FieldValid, ShapeOK
  <2>2. CASE f.kind # "char_array"
    <3>1. f.element_count * f.element_size <= SizeMax  BY <1>t, <1>1, <2>2 DEF Extent, Sizes
    <3>2. f.element_size \in Nat \ {0} /\ f.element_count \in Nat
      BY <1>t DEF FieldValid, Sizes
    <3>3. f.element_count <= SizeMax \div f.element_size
      <4> DEFINE n == f.element_count
                 e == f.element_size
      <4>1. n \in Nat /\ e \in Nat \ {0} /\ n * e <= SizeMax  BY <3>1, <3>2
      <4> HIDE DEF n, e
      <4>2. n <= SizeMax \div e  BY <4>1, <1>t, QuotientBound
      <4> QED  BY <4>2 DEF n, e
    <3> QED  BY <2>2, <3>3 DEF FieldValid, ShapeOK
  <2> QED  BY <2>1, <2>2
<1>4. RangeOK(t[d].size, f)
  <2>1. f.offset <= t[d].size /\ FieldSize(f) <= t[d].size - f.offset
    BY <1>t, <1>1, <1>2 DEF FieldValid, Sizes
  <2>2. (t[d].size - f.offset) % (SizeMax + 1) = t[d].size - f.offset
    <3> DEFINE r == t[d].size - f.offset
    <3>1. r \in 0..SizeMax  BY <1>t, <2>1 DEF Sizes
    <3> HIDE DEF r
    <3>2. r % (SizeMax + 1) = r  BY SizeAssumption, <3>1
    <3> QED  BY <3>2 DEF r
  <2> QED  BY <2>1, <2>2 DEF RangeOK
<1>5. validate_attributes(f)
  <2>1. Len(f.keys) \in Nat /\ DOMAIN f.keys = 1..Len(f.keys)  BY <1>t
  <2>2. KeysValid(f)  BY DEF FieldValid
  <2>3. ASSUME NEW i \in 1..Len(f.keys), NEW j \in (i + 1)..Len(f.keys)
        PROVE  f.keys[i] # f.keys[j]
    <3>1. j \in 1..Len(f.keys) /\ i # j  BY <2>1
    <3> QED  BY <2>1, <2>2, <3>1 DEF KeysValid
  <2> QED  BY <2>1, <2>2, <2>3 DEF KeysValid, validate_attributes
<1> QED  BY <1>3, <1>4, <1>5 DEF FieldValid, Checked, NestedOK

-----------------------------------------------------------------------------
\* The calls under way are for descriptors reachable from the root, and the code on its
\* way back tells of the whole graph what StructMeta says of it.
Settled ==
  /\ \A k \in 1..Len(frames) : frames[k].d \in Reachable(table, root)
  /\ ret = "CORRUPT_DESCRIPTOR" => ~Valid(table, root)
  /\ ret = "INVALID_ARGUMENT" <=> root = NoDescriptor

\* What waits for a call nests the descriptor of the call.
LEMMA WaitingNests ==
  ASSUME IInv, NEW k \in 1..(Len(frames) - 1)
  PROVE  frames[k + 1].d \in Nested(table, frames[k].d)
<1>1. /\ frames \in Seq(Frames) /\ Len(frames) \in Nat
      /\ table \in [Descriptors -> DescriptorRecords]
  BY TablesAssumption DEF IInv, TypeOK, Frames
<1>2. k \in 1..Len(frames) /\ k + 1 \in 1..Len(frames)  BY <1>1
<1>3. frames[k] \in Frames /\ frames[k + 1] \in Frames  BY <1>1, <1>2
<1>4. Waits(table, frames[k], frames[k + 1])  BY DEF IInv, Walk
<1>5. Progressed(table, good, frames[k])  BY <1>2, <1>4 DEF IInv, Walk, Waits
<1>6. frames[k].i \in DOMAIN table[frames[k].d].fields
  <2>1. table[frames[k].d].fields \in Seq(Fields)  BY <1>1, <1>3 DEF Frames, DescriptorRecords
  <2>2. frames[k].i \in Nat \ {0} /\ frames[k].i <= Len(table[frames[k].d].fields)
    BY <1>3, <1>4, <1>5 DEF Frames, Waits, Progressed
  <2> QED  BY <2>1, <2>2
<1>7. frames[k + 1].d # NoDescriptor  BY <1>3, DescriptorsAssumption DEF Frames
<1> QED  BY <1>4, <1>6, <1>7 DEF Waits, Nested

\* One bad descriptor within reach makes the root invalid.
LEMMA BadIsInvalid ==
  ASSUME NEW d \in Reachable(table, root), ~LocallyValid(table, d)
  PROVE  ~Valid(table, root)
  BY DEF Valid

\* A descriptor met again on the way down closes a cycle: the calls from it to the
\* running one nest each other.
LEMMA MetAgainIsInvalid ==
  ASSUME IInv, Settled, frames # <<>>, Top.at = "enter", OnStack(stack, Top.d)
  PROVE  ~Valid(table, root)
<1>1. /\ Len(frames) \in Nat \ {0} /\ Len(stack) = Len(frames) - 1
      /\ \A k \in 1..Len(stack) : stack[k] = frames[k].d
  BY Facts DEF IInv, Mirror
<1>2. PICK j \in 1..Len(stack) : stack[j] = Top.d  BY DEF OnStack
<1> DEFINE T == {stack[k] : k \in j..Len(stack)}
<1>3. T # {} /\ T \subseteq Reachable(table, root)
  <2>1. \A k \in j..Len(stack) : k \in 1..Len(stack) /\ k \in 1..Len(frames)  BY <1>1, <1>2
  <2>2. \A k \in j..Len(stack) : stack[k] \in Reachable(table, root)
    BY <1>1, <2>1 DEF Settled
  <2>3. j \in j..Len(stack)  BY <1>1, <1>2
  <2> QED  BY <2>2, <2>3
<1>4. ASSUME NEW k \in j..Len(stack) PROVE Nested(table, stack[k]) \cap T # {}
  <2>1. k \in 1..(Len(frames) - 1) /\ k \in 1..Len(stack)  BY <1>1, <1>2
  <2>2. frames[k + 1].d \in Nested(table, stack[k])  BY <1>1, <2>1, WaitingNests
  <2>3. CASE k = Len(stack)
    <3>1. k + 1 = Len(frames) /\ j \in j..Len(stack)  BY <1>1, <1>2, <2>3
    <3>2. frames[k + 1].d = stack[j]  BY <1>2, <3>1 DEF Top
    <3>3. stack[j] \in T  BY <3>1
    <3> QED  BY <2>2, <3>2, <3>3
  <2>4. CASE k # Len(stack)
    <3>1. k + 1 \in j..Len(stack) /\ k + 1 \in 1..Len(stack)  BY <1>1, <1>2, <2>4
    <3>2. frames[k + 1].d = stack[k + 1] /\ stack[k + 1] \in T  BY <1>1, <3>1
    <3> QED  BY <2>2, <3>2
  <2> QED  BY <2>3, <2>4
<1>5. \A d \in T : Nested(table, d) \cap T # {}  BY <1>4
<1> HIDE DEF T
<1> QED  BY <1>3, <1>5 DEF Valid, Acyclic

\* The descriptors of the calls stay within reach when the running one goes on.
LEMMA ReachResumes ==
  ASSUME IInv, Settled, frames # <<>>, NEW at \in Steps, NEW i \in Nat \ {0}
  PROVE  \A k \in 1..Len(Resume(at, i)) : Resume(at, i)[k].d \in Reachable(table, root)
<1>1. /\ Len(Resume(at, i)) = Len(frames) /\ Len(frames) \in Nat \ {0}
      /\ \A k \in 1..(Len(frames) - 1) : Resume(at, i)[k] = frames[k]
      /\ Resume(at, i)[Len(frames)].d = frames[Len(frames)].d
  BY Facts, Resumed DEF Top
<1> SUFFICES ASSUME NEW k \in 1..Len(frames)
             PROVE  Resume(at, i)[k].d \in Reachable(table, root)
  BY <1>1
<1>2. Resume(at, i)[k].d = frames[k].d
  <2>1. CASE k = Len(frames)  BY <1>1, <2>1
  <2>2. CASE k # Len(frames)
    <3>1. k \in 1..(Len(frames) - 1)  BY <1>1, <2>2
    <3> QED  BY <1>1, <3>1
  <2> QED  BY <2>1, <2>2
<1> QED  BY <1>2 DEF Settled

\* A step that ends the running call with an error keeps what is settled, if the error
\* is the truth.
LEMMA SettledByError ==
  ASSUME IInv, Settled, frames # <<>>, frames' = WithoutLast(frames),
         UNCHANGED <<table, root>>, ret' # "INVALID_ARGUMENT",
         ret' = "CORRUPT_DESCRIPTOR" => ~Valid(table, root)
  PROVE  Settled'
<1>1. /\ Len(frames') = Len(frames) - 1 /\ Len(frames) \in Nat \ {0}
      /\ \A k \in 1..(Len(frames) - 1) : frames'[k] = frames[k]
  BY Facts, Pop
<1>2. \A k \in 1..Len(frames') : k \in 1..Len(frames) /\ frames'[k] = frames[k]
  BY <1>1
<1>3. root # NoDescriptor
  <2>1. frames[1].d = root /\ 1 \in 1..Len(frames)  BY <1>1 DEF IInv, Walk
  <2>2. frames[1] \in Frames  BY <2>1, Facts
  <2> QED  BY <2>1, <2>2, DescriptorsAssumption DEF Frames
<1> QED  BY <1>2, <1>3 DEF Settled

\* Every step keeps what is settled.
LEMMA SettledStep == IInv /\ Settled /\ [Next]_vars => Settled'
<1> SUFFICES ASSUME IInv, Settled, [Next]_vars PROVE Settled'
  OBVIOUS
<1>f. frames # <<>> => /\ root # NoDescriptor /\ Top.d \in Reachable(table, root)
                       /\ Top.d \in Descriptors /\ table[Top.d] \in DescriptorRecords
                       /\ Top.i \in Nat \ {0} /\ Len(frames) \in Nat \ {0}
  <2> SUFFICES ASSUME frames # <<>>
               PROVE  /\ root # NoDescriptor /\ Top.d \in Reachable(table, root)
                      /\ Top \in Frames /\ table \in [Descriptors -> DescriptorRecords]
                      /\ Len(frames) \in Nat \ {0}
    BY DEF Frames
  <2>1. Len(frames) \in Nat \ {0} /\ Top \in Frames /\ frames[1] \in Frames
    <3>1. Len(frames) \in Nat \ {0}  BY Facts
    <3>2. 1 \in 1..Len(frames)  BY <3>1
    <3> QED  BY <3>1, <3>2, Facts
  <2>2. 1 \in 1..Len(frames) /\ Len(frames) \in 1..Len(frames)  BY <2>1
  <2>3. frames[1].d = root  BY DEF IInv, Walk
  <2>4. root # NoDescriptor  BY <2>1, <2>3, DescriptorsAssumption DEF Frames
  <2> QED  BY <2>1, <2>2, <2>4, Facts DEF Settled, Top
\* The field of a call in its loop is one of the descriptor's.
<1>g. ASSUME frames # <<>>, Top.i <= Len(table[Top.d].fields)
      PROVE  /\ CurrentField \in Fields /\ Top.i \in DOMAIN table[Top.d].fields
             /\ CurrentField = table[Top.d].fields[Top.i]
             /\ table \in [Descriptors -> DescriptorRecords]
  <2>1. table[Top.d].fields \in Seq(Fields)  BY <1>f, <1>g DEF DescriptorRecords
  <2>2. Top.i \in DOMAIN table[Top.d].fields  BY <1>f, <1>g, <2>1
  <2> QED  BY <1>g, <2>1, <2>2, Facts DEF CurrentField
\* A field that fails a check makes the root invalid.
<1>h. ASSUME frames # <<>>, Top.i <= Len(table[Top.d].fields),
             ~(Checked(table, Top.d, CurrentField) /\ validate_attributes(CurrentField))
      PROVE  ~Valid(table, root)
  <2>1. ~FieldValid(table, Top.d, CurrentField)  BY <1>f, <1>g, <1>h, FieldRejected
  <2>2. ~LocallyValid(table, Top.d)  BY <1>g, <1>h, <2>1 DEF LocallyValid
  <2> QED  BY <1>f, <1>h, <2>2, BadIsInvalid
<1>1. CASE EnterRejects
  <2>1. /\ frames # <<>> /\ Top.at = "enter" /\ ret' = "CORRUPT_DESCRIPTOR"
        /\ ~HeaderOK(table[Top.d]) \/ OnStack(stack, Top.d)
        /\ frames' = WithoutLast(frames) /\ UNCHANGED <<table, root>>
    BY <1>1 DEF EnterRejects, Running, data
  <2>2. CASE ~HeaderOK(table[Top.d])
    <3>1. ~LocallyValid(table, Top.d)  BY <2>2 DEF HeaderOK, LocallyValid
    <3>2. ~Valid(table, root)  BY <1>f, <2>1, <3>1, BadIsInvalid
    <3> QED  BY <2>1, <3>2, SettledByError
  <2>3. CASE OnStack(stack, Top.d)
    <3>1. ~Valid(table, root)  BY <2>1, <2>3, MetAgainIsInvalid
    <3> QED  BY <2>1, <3>1, SettledByError
  <2> QED  BY <2>1, <2>2, <2>3
<1>2. CASE EnterOutOfMemory
  BY <1>2, SettledByError DEF EnterOutOfMemory, Running, data
<1>3. CASE push_descriptor
  <2>1. /\ frames # <<>> /\ frames' = Resume("fields", 1) /\ UNCHANGED <<table, root, ret>>
    BY <1>3 DEF push_descriptor, Running, data
  <2>2. "fields" \in Steps /\ 1 \in Nat \ {0}  BY DEF Steps
  <2>3. \A k \in 1..Len(frames') : frames'[k].d \in Reachable(table, root)
    BY <2>1, <2>2, ReachResumes
  <2> QED  BY <2>1, <2>3 DEF Settled
<1>4. CASE CheckField
  <2>1. /\ ret = "none" /\ frames # <<>> /\ Top.i <= Len(table[Top.d].fields)
    BY <1>4 DEF CheckField, Running
  <2>2. CASE ~Checked(table, Top.d, CurrentField) /\ Reject
    <3>1. ~Valid(table, root)  BY <1>h, <2>1, <2>2
    <3> QED  BY <2>1, <2>2, <3>1, SettledByError DEF Reject, data
  <2>3. CASE /\ Checked(table, Top.d, CurrentField)
             /\ frames' = IF CurrentField.kind = "struct"
                            THEN Append(Resume("attributes", Top.i), Call(CurrentField.nested))
                          ELSE Resume("attributes", Top.i)
             /\ UNCHANGED <<data, stack, capacity, ret, good>>
    <3>1. /\ UNCHANGED <<table, root, ret>> /\ "attributes" \in Steps
          /\ Top.i \in Nat \ {0}
      BY <1>f, <2>1, <2>3 DEF data, Steps
    <3> DEFINE r == Resume("attributes", Top.i)
               c == Call(CurrentField.nested)
    <3>2. /\ \A k \in 1..Len(r) : r[k].d \in Reachable(table, root)
          /\ r \in Seq(Frames)
      BY <2>1, <3>1, ReachResumes, Resumed, Facts
    <3>3. CASE CurrentField.kind = "struct"
      <4>1. CurrentField.nested \in Nested(table, Top.d) /\ CurrentField.nested \in Descriptors
        BY <1>g, <2>1, <2>3, <3>3 DEF Checked, NestedOK, Nested, Fields
      <4>2. c.d \in Reachable(table, root) /\ c \in Frames
        <5>1. root \in Descriptors  BY <1>f, <2>1 DEF IInv, TypeOK
        <5>2. table \in [Descriptors -> DescriptorRecords]  BY <2>1, Facts
        <5>3. CurrentField.nested \in Reachable(table, root)
          BY <1>f, <2>1, <4>1, <5>1, <5>2, ReachableIsClosed
        <5> QED  BY <4>1, <5>3 DEF Call, Frames, Steps
      <4>3. frames' = Append(r, c)  BY <2>3, <3>3
      <4> HIDE DEF r, c
      <4>4. /\ Len(frames') = Len(r) + 1 /\ Len(r) \in Nat
            /\ \A k \in 1..Len(r) : frames'[k] = r[k]
            /\ frames'[Len(r) + 1] = c
        BY <3>2, <4>2, <4>3, Push
      <4>5. ASSUME NEW k \in 1..Len(frames') PROVE frames'[k].d \in Reachable(table, root)
        <5>1. k \in 1..Len(r) \/ k = Len(r) + 1  BY <4>4
        <5> QED  BY <3>2, <4>2, <4>4, <5>1
      <4> QED  BY <3>1, <4>5 DEF Settled
    <3>4. CASE CurrentField.kind # "struct"
      <4>1. frames' = r  BY <2>3, <3>4
      <4> QED  BY <3>1, <3>2, <4>1 DEF Settled
    <3> QED  BY <3>3, <3>4
  <2> QED  BY <1>4, <2>2, <2>3 DEF CheckField
<1>5. CASE CheckAttributes
  <2>1. ret = "none" /\ frames # <<>> /\ Top.at = "attributes"
    BY <1>5 DEF CheckAttributes, Running
  <2>2. CASE ~validate_attributes(CurrentField) /\ Reject
    <3>1. Top.i <= Len(table[Top.d].fields)
      <4>1. Progressed(table, good, Top)  BY <2>1, Facts DEF IInv, Walk, Top
      <4> QED  BY <2>1, <4>1 DEF Progressed
    <3>2. ~Valid(table, root)  BY <1>h, <2>1, <2>2, <3>1
    <3> QED  BY <2>1, <2>2, <3>2, SettledByError DEF Reject, data
  <2>3. CASE frames' = Resume("fields", Top.i + 1) /\ UNCHANGED <<data, ret>>
    <3>1. "fields" \in Steps /\ Top.i + 1 \in Nat \ {0}  BY <1>f, <2>1 DEF Steps
    <3>2. \A k \in 1..Len(frames') : frames'[k].d \in Reachable(table, root)
      BY <2>1, <2>3, <3>1, ReachResumes
    <3> QED  BY <2>3, <3>2 DEF Settled, data
  <2> QED  BY <1>5, <2>2, <2>3 DEF CheckAttributes
<1>6. CASE Return
  BY <1>6, SettledByError DEF Return, Running, data
<1>7. CASE Unwind
  <2>1. ret \in Errors /\ frames # <<>> /\ ret' = ret  BY <1>7 DEF Unwind
  <2>2. ret # "INVALID_ARGUMENT"  BY <1>f, <2>1 DEF Settled
  <2> QED  BY <1>7, <2>1, <2>2, SettledByError DEF Unwind, data, Settled
<1>8. CASE Done \/ UNCHANGED vars
  BY <1>8 DEF Done, vars, Settled
<1> QED
  BY <1>1, <1>2, <1>3, <1>4, <1>5, <1>6, <1>7, <1>8 DEF Next

\* The first call is for the root itself; a call on NULL has returned.
LEMMA SettledInit == Init => Settled
<1> SUFFICES ASSUME Init PROVE Settled
  OBVIOUS
<1>1. CASE root = NoDescriptor  BY <1>1 DEF Init, Settled
<1>2. CASE root # NoDescriptor
  <2>1. /\ root \in Descriptors /\ frames = <<Call(root)>> /\ ret = "none"
        /\ table \in [Descriptors -> DescriptorRecords]
    BY <1>2, TablesAssumption DEF Init
  <2>2. root \in Reachable(table, root)  BY <2>1, ReachableIsClosed
  <2>3. Len(frames) = 1 /\ frames[1].d = root  BY <2>1 DEF Call
  <2> QED  BY <1>2, <2>1, <2>2, <2>3 DEF Settled
<1> QED  BY <1>1, <1>2

\* validate.c accepts exactly the descriptors that StructMeta calls valid - every
\* descriptor within reach good by itself, none nested in itself - and calls corrupt only
\* the others, for every table, however deep, and every width of size_t.
THEOREM VerdictIsExact == Spec => []VerdictExact
<1>1. Spec => []Settled
  <2>1. IInv /\ Settled /\ [Next]_vars => Settled'  BY SettledStep
  <2> QED  BY Invariance, SettledInit, <2>1, PTL DEF Spec
<1>2. IInv /\ Settled => VerdictExact
  <2> SUFFICES ASSUME IInv, Settled PROVE VerdictExact
    OBVIOUS
  <2>1. ASSUME ret = "OK" PROVE Valid(table, root)
    <3>1. root # NoDescriptor  BY <2>1 DEF Settled
    <3>2. root \in Descriptors /\ Found(good, root)  BY <2>1, <3>1 DEF IInv, TypeOK, Walk
    <3> QED  BY <3>2, GoodIsValid
  <2> QED  BY <2>1 DEF Settled, VerdictExact
<1> QED  BY Invariance, <1>1, <1>2, PTL
=============================================================================
