-------------------------- MODULE PatchMenu_proofs --------------------------
(***************************************************************************)
(* For every valid descriptor, every path and every line typed: the paths  *)
(* shown lead back to what they are shown for (ShownPathsResolve), a       *)
(* number is stored as it was typed, or as the nearest float               *)
(* (TypedIsStored), and of a leaf whose description has room for its kind  *)
(* an edit changes nothing else (EditsWhatItShows) and nothing outside of  *)
(* the instance (StaysInside).                                             *)
(*                                                                         *)
(* A path with one more segment is resolved by looking the segment up      *)
(* where the path leads (ResolveAppend).  The invariant says of each call  *)
(* under way that its path leads to it (FrameOK); a menu then opens only   *)
(* calls of which that is true again (SelectionOK, ElementOK).             *)
(***************************************************************************)
EXTENDS PatchMenu, SequenceTheorems, WellFoundedInduction, TLAPS

Frames == [is : {"struct", "array", "scalar"}, d : Descriptors, i : Nat, addr : Nat,
           path : Seq(Segments)]

\* A call under way is at the place its path leads to, a menu or prompt as the field there
\* wants it; only the menu of the whole structure has no path.
FrameOK(fr) ==
  /\ fr \in Frames
  /\ fr.path = <<>> => fr = Frame("struct", Root, 0, 0, <<>>)
  /\ fr.path # <<>> =>
       LET r == path_resolve(fr.path)
       IN  /\ LeadsTo(fr.path, fr)
           /\ fr.is # "array" => (fr.is = "struct" <=> Field(r.d, r.i).kind = "struct")

IInv ==
  /\ frames \in Seq(Frames) /\ DOMAIN mem = Memory
  /\ \A k \in DOMAIN frames : FrameOK(frames[k])
  /\ TypedIsStored

-----------------------------------------------------------------------------
\* A nonempty set of natural numbers has a least one.
LEMMA LeastNumber ==
  ASSUME NEW S \in SUBSET Nat, S # {}
  PROVE  \E n \in S : \A m \in S : n <= m
<1>1. PICK n \in S : \A m \in S : ~(<<m, n>> \in OpToRel(<, Nat))
  BY NatLessThanWellFounded, WFMin
<1>2. \A m \in S : ~(m < n)  BY <1>1 DEF OpToRel
<1> QED  BY <1>2

\* A recursive function exists because it does up to each number: the least number up to
\* which it did not would follow one up to which it does.
WalksUpTo(g, p, n) ==
  g = [k \in 1..n |-> IF k = 1 THEN Lookup(Root, 0, p[1]) ELSE Into(g[k - 1], p[k])]

LEMMA WalkUpTo ==
  ASSUME NEW p, NEW n \in Nat
  PROVE  \E g : WalksUpTo(g, p, n)
<1> DEFINE Is(g, m) == WalksUpTo(g, p, m)
           S == {m \in Nat : ~\E g : Is(g, m)}
<1>1. SUFFICES ASSUME S # {} PROVE FALSE  OBVIOUS
<1>2. PICK m \in S : \A i \in S : m <= i  BY <1>1, LeastNumber
<1>3. PICK h : m # 0 => Is(h, m - 1)
  <2>1. m # 0 => m - 1 \in Nat /\ ~(m <= m - 1)  BY <1>2
  <2>2. m # 0 => \E h : Is(h, m - 1)  BY <1>2, <2>1
  <2> HIDE DEF Is
  <2> QED  BY <2>2
<1> DEFINE g == [k \in 1..m |->
                   IF k = 1 THEN Lookup(Root, 0, p[1]) ELSE Into(h[k - 1], p[k])]
<1>4. \A k \in 1..(m - 1) : h[k] = g[k]
  <2>1. SUFFICES ASSUME NEW k \in 1..(m - 1) PROVE h[k] = g[k]  OBVIOUS
  <2>2. m # 0 /\ k \in 1..m  BY <1>2
  <2> QED  BY <1>3, <2>2 DEF WalksUpTo
<1>5. \A k \in 1..m : k # 1 => h[k - 1] = g[k - 1]
  <2>1. \A k \in 1..m : k # 1 => k - 1 \in 1..(m - 1)  BY <1>2
  <2> HIDE DEF g
  <2> QED  BY <1>4, <2>1
<1>6. Is(g, m)  BY <1>5 DEF WalksUpTo
<1> HIDE DEF g, Is
<1> QED  BY <1>2, <1>6

\* The walk begins at the root and goes on with one segment after the other.
LEMMA WalkIs ==
  ASSUME NEW p \in Seq(Segments), NEW n \in 1..Len(p)
  PROVE  Walk(p)[n] = IF n = 1 THEN Lookup(Root, 0, p[1]) ELSE Into(Walk(p)[n - 1], p[n])
<1> DEFINE w == Walk(p)
<1>1. PICK g : WalksUpTo(g, p, Len(p))  BY WalkUpTo
<1>2. w = [k \in 1..Len(p) |->
             IF k = 1 THEN Lookup(Root, 0, p[1]) ELSE Into(w[k - 1], p[k])]
  BY <1>1 DEF WalksUpTo, Walk
<1> HIDE DEF w
<1>3. w[n] = IF n = 1 THEN Lookup(Root, 0, p[1]) ELSE Into(w[n - 1], p[n])  BY <1>2
<1> QED  BY <1>3 DEF w

\* Where a path leads with one more segment: looked up in the root or where the path leads.
Reach(q, s) == IF q = <<>> THEN Lookup(Root, 0, s) ELSE Into(path_resolve(q), s)

LEMMA ResolveAppend ==
  ASSUME NEW q \in Seq(Segments), NEW s \in Segments
  PROVE  path_resolve(Append(q, s)) = Reach(q, s)
<1> DEFINE p == Append(q, s)
           N == Len(q)
           S == {n \in 1..N : Walk(p)[n] # Walk(q)[n]}
<1>1. p \in Seq(Segments) /\ Len(p) = N + 1 /\ p # <<>> /\ N \in Nat /\ p[N + 1] = s
      /\ \A n \in 1..N : p[n] = q[n]
  OBVIOUS
<1> HIDE DEF p
<1>2. \A n \in 1..N : Walk(p)[n] = Walk(q)[n]
  <2>1. SUFFICES ASSUME S # {} PROVE FALSE  OBVIOUS
  <2>2. PICK n \in S : \A m \in S : n <= m
    <3>1. S \in SUBSET Nat  BY <1>1
    <3> HIDE DEF S
    <3> QED  BY <2>1, <3>1, LeastNumber
  <2>3. n \in 1..N /\ n \in 1..Len(p) /\ p[n] = q[n] /\ p[1] = q[1]  BY <1>1, <2>2
  <2>4. Walk(p)[n] = IF n = 1 THEN Lookup(Root, 0, p[1]) ELSE Into(Walk(p)[n - 1], p[n])
    BY <1>1, <2>3, WalkIs
  <2>5. Walk(q)[n] = IF n = 1 THEN Lookup(Root, 0, q[1]) ELSE Into(Walk(q)[n - 1], q[n])
    BY <2>3, WalkIs
  <2>6. CASE n = 1  BY <2>2, <2>3, <2>4, <2>5, <2>6
  <2>7. CASE n # 1
    <3>1. n - 1 \in 1..N /\ ~(n <= n - 1)  BY <1>1, <2>3, <2>7
    <3>2. Walk(p)[n - 1] = Walk(q)[n - 1]  BY <2>2, <3>1
    <3> QED  BY <2>2, <2>3, <2>4, <2>5, <2>7, <3>2
  <2> QED  BY <2>6, <2>7
<1>3. path_resolve(p) = Walk(p)[N + 1]  BY <1>1 DEF path_resolve
<1>4. Walk(p)[N + 1] = IF N + 1 = 1 THEN Lookup(Root, 0, p[1]) ELSE Into(Walk(p)[N], p[N + 1])
  <2>1. N + 1 \in 1..Len(p) /\ (N + 1) - 1 = N  BY <1>1
  <2>2. Walk(p)[N + 1] = IF N + 1 = 1 THEN Lookup(Root, 0, p[1])
                         ELSE Into(Walk(p)[(N + 1) - 1], p[N + 1])
    BY <1>1, <2>1, WalkIs
  <2> QED  BY <2>1, <2>2
<1>5. CASE q = <<>>
  <2>1. N = 0 /\ p[1] = s  BY <1>1, <1>5
  <2> QED  BY <1>3, <1>4, <1>5, <2>1 DEF Reach, p
<1>6. CASE q # <<>>
  <2>1. N # 0 /\ N \in 1..N /\ N + 1 # 1  BY <1>1, <1>6
  <2>2. path_resolve(q) = Walk(q)[N]  BY <1>6 DEF path_resolve
  <2> QED  BY <1>1, <1>2, <1>3, <1>4, <1>6, <2>1, <2>2 DEF Reach, p
<1> QED  BY <1>5, <1>6

-----------------------------------------------------------------------------
\* What a field of a descriptor the root reaches is, and that the root reaches the
\* descriptor nested in it.
LEMMA FieldFacts ==
  ASSUME NEW d \in Reachable(table, Root), NEW i \in DOMAIN table[d].fields
  PROVE  /\ d \in Descriptors /\ i \in Nat \ {0} /\ i <= Len(table[d].fields)
         /\ Field(d, i).offset \in Nat /\ Field(d, i).element_size \in Nat
         /\ Field(d, i).element_count \in Nat \ {0} /\ Field(d, i).char_buffer_size \in Nat
         /\ Field(d, i).kind = "char_array" => Field(d, i).element_count = 1
         /\ Field(d, i).name \in Names
         /\ Field(d, i).offset + Extent(Field(d, i)) <= table[d].size
         /\ Field(d, i).kind = "struct" =>
              /\ Field(d, i).nested \in Reachable(table, Root)
              /\ Field(d, i).element_size = table[Field(d, i).nested].size
<1> DEFINE f == Field(d, i)
<1>1. d \in Descriptors  BY DEF Reachable
<1>2. f \in Fields /\ i \in Nat \ {0} /\ i <= Len(table[d].fields)
  <2>1. table[d].fields \in Seq(Fields)  BY <1>1, TableAssumption DEF DescriptorRecords
  <2> QED  BY <2>1 DEF Field
<1>3. FieldValid(table, d, f)  BY TableAssumption DEF Valid, LocallyValid, Field
<1>4. /\ f.offset \in Nat /\ f.element_size \in Nat /\ f.element_count \in Nat
      /\ f.char_buffer_size \in Nat /\ f.name \in Names \cup {NoName}
      /\ f.nested \in Descriptors \cup {NoDescriptor}
  BY <1>2, SizeAssumption DEF Fields, Sizes
<1>5. f.element_count # 0 /\ f.name # NoName
      /\ (f.kind = "char_array" => f.element_count = 1)
      /\ (f.kind = "struct" => f.nested # NoDescriptor /\ f.element_size = table[f.nested].size)
      /\ f.offset + Extent(f) <= table[d].size
  BY <1>3 DEF FieldValid
<1>6. ASSUME f.kind = "struct" PROVE f.nested \in Reachable(table, Root)
  <2>1. f.nested \in Nested(table, d) /\ f.nested \in Descriptors
    BY <1>4, <1>5, <1>6 DEF Nested, Field
  <2> HIDE DEF f
  <2> QED  BY <2>1 DEF Reachable
<1> HIDE DEF f
<1>7. /\ d \in Descriptors /\ i \in Nat \ {0} /\ i <= Len(table[d].fields)
      /\ f.offset \in Nat /\ f.element_size \in Nat
      /\ f.element_count \in Nat \ {0} /\ f.char_buffer_size \in Nat
      /\ f.kind = "char_array" => f.element_count = 1
      /\ f.name \in Names
      /\ f.offset + Extent(f) <= table[d].size
      /\ f.kind = "struct" => /\ f.nested \in Reachable(table, Root)
                              /\ f.element_size = table[f.nested].size
  BY <1>1, <1>2, <1>4, <1>5, <1>6
<1> QED  BY <1>7 DEF f

LEMMA RootIsReached ==
  Root \in Reachable(table, Root) /\ Size \in Nat /\ 0 + table[Root].size <= Size
<1>1. Root \in Reachable(table, Root)  BY StructAssumption DEF Reachable
<1>2. Size \in Nat
  BY StructAssumption, TableAssumption, SizeAssumption DEF Size, DescriptorRecords, Sizes
<1> QED  BY <1>1, <1>2 DEF Size

\* Element i of n elements of e bytes ends inside them.
LEMMA ElementFits ==
  ASSUME NEW i \in Nat, NEW n \in Nat, NEW e \in Nat, i < n
  PROVE  i * e \in Nat /\ n * e \in Nat /\ i * e + e <= n * e
<1>1. i * e \in Nat /\ n * e \in Nat  OBVIOUS
<1>2. (i + 1) * e = i * e + e  OBVIOUS
<1>3. i + 1 \in Nat /\ i + 1 <= n  OBVIOUS
<1>4. \A k \in Nat : k <= n => k * e <= n * e  OBVIOUS
<1>5. (i + 1) * e <= n * e  BY <1>3, <1>4
<1> QED  BY <1>1, <1>2, <1>5

\* The place of field i in the structure d at base, with the index k or with none.
Place(d, i, base, k) ==
  [ok |-> TRUE, d |-> d, i |-> i, indexed |-> k # NoIndex,
   addr |-> base + Field(d, i).offset
              + (IF k = NoIndex THEN 0 ELSE k * Field(d, i).element_size)]

IndexFits(f, k) == k = NoIndex \/ (f.kind # "char_array" /\ k < f.element_count)

\* A segment is found under the name of a field, of which there is but one.
LEMMA LookupFinds ==
  ASSUME NEW d \in Reachable(table, Root), NEW i \in DOMAIN table[d].fields, NEW base,
         NEW s \in Segments, s.name = Field(d, i).name
  PROVE  Lookup(d, base, s) =
           IF IndexFits(Field(d, i), s.index) THEN Place(d, i, base, s.index) ELSE NoPlace
<1> DEFINE hits == {j \in DOMAIN table[d].fields : Field(d, j).name = s.name}
<1>1. d \in Descriptors  BY DEF Reachable
<1>2. hits = {i}  BY <1>1, NamesAssumption DEF Field
<1>3. (CHOOSE j \in hits : TRUE) = i /\ hits # {}  BY <1>2
<1>4. s.index # NoIndex =>
        (s.index >= Field(d, i).element_count <=> ~(s.index < Field(d, i).element_count))
  BY FieldFacts DEF Segments
<1>5. Lookup(d, base, s) =
        IF s.index # NoIndex
             /\ (Field(d, i).kind = "char_array" \/ s.index >= Field(d, i).element_count)
        THEN NoPlace ELSE Place(d, i, base, s.index)
  <2> HIDE DEF hits
  <2> QED  BY <1>3 DEF Lookup, Place, hits
<1> QED  BY <1>4, <1>5 DEF IndexFits

\* What is found is a field of the structure searched, one of that name.
LEMMA FoundByName ==
  ASSUME NEW d \in Reachable(table, Root), NEW base, NEW s \in Segments,
         Lookup(d, base, s).ok
  PROVE  \E i \in DOMAIN table[d].fields :
           /\ Field(d, i).name = s.name /\ IndexFits(Field(d, i), s.index)
           /\ Lookup(d, base, s) = Place(d, i, base, s.index)
<1>1. PICK i \in DOMAIN table[d].fields : Field(d, i).name = s.name
  <2>1. SUFFICES ASSUME \A i \in DOMAIN table[d].fields : Field(d, i).name # s.name
                 PROVE  FALSE
    OBVIOUS
  <2>2. {i \in DOMAIN table[d].fields : Field(d, i).name = s.name} = {}  BY <2>1
  <2>3. Lookup(d, base, s) = NoPlace  BY <2>2 DEF Lookup
  <2> QED  BY <2>3 DEF NoPlace
<1>2. Lookup(d, base, s) =
        IF IndexFits(Field(d, i), s.index) THEN Place(d, i, base, s.index) ELSE NoPlace
  BY <1>1, LookupFinds
<1>3. IndexFits(Field(d, i), s.index)  BY <1>2 DEF NoPlace
<1> QED  BY <1>1, <1>2, <1>3

\* The bytes from the address of a place that belong to it.
Room(r) == IF r.indexed THEN Field(r.d, r.i).element_size ELSE Extent(Field(r.d, r.i))

\* A place is a field of a descriptor the root reaches, and lies in the instance with all
\* its bytes; a text has no elements.
Sound(r) ==
  r.ok => /\ r.d \in Reachable(table, Root) /\ r.i \in DOMAIN table[r.d].fields
          /\ r.addr \in Nat /\ r.indexed \in BOOLEAN
          /\ r.indexed => Field(r.d, r.i).kind # "char_array"
          /\ r.addr + Room(r) <= Size

LEMMA LookupSound ==
  ASSUME NEW d \in Reachable(table, Root), NEW base \in Nat, NEW s \in Segments,
         base + table[d].size <= Size
  PROVE  Sound(Lookup(d, base, s))
<1> DEFINE r == Lookup(d, base, s)
<1>1. SUFFICES ASSUME r.ok PROVE Sound(r)  BY DEF Sound
<1>2. PICK i \in DOMAIN table[d].fields :
        IndexFits(Field(d, i), s.index) /\ r = Place(d, i, base, s.index)
  BY <1>1, FoundByName
<1> HIDE DEF r
<1>3. r.ok = TRUE /\ r.d = d /\ r.i = i /\ r.indexed = (s.index # NoIndex)
      /\ r.addr = base + Field(d, i).offset
                    + (IF s.index = NoIndex THEN 0 ELSE s.index * Field(d, i).element_size)
  BY <1>2 DEF Place
<1> DEFINE f == Field(d, i)
           e == f.element_size
           n == f.element_count
           o == f.offset
           k == s.index
<1>4. /\ e \in Nat /\ o \in Nat /\ n \in Nat /\ f.char_buffer_size \in Nat
      /\ o + Extent(f) <= table[d].size /\ table[d].size \in Nat /\ Size \in Nat
  <2>1. table[d].size \in Nat
    BY TableAssumption, SizeAssumption DEF Reachable, DescriptorRecords, Sizes
  <2> QED  BY <2>1, FieldFacts, RootIsReached
<1>5. /\ r.addr = base + o + (IF k = NoIndex THEN 0 ELSE k * e)
      /\ Room(r) = IF k = NoIndex THEN Extent(f) ELSE e
      /\ k # NoIndex => k \in Nat /\ k < n /\ Extent(f) = n * e
  BY <1>2, <1>3 DEF Segments, Room, IndexFits, Extent
<1>6. Extent(f) \in Nat  BY <1>4 DEF Extent
<1>7. r.addr \in Nat /\ r.addr + Room(r) <= Size
  <2> DEFINE x == Extent(f)
             z == table[d].size
  <2>1. base + z <= Size  OBVIOUS
  <2>2. o + x <= z  BY <1>4
  <2> HIDE DEF f, e, n, o, k, x, z
  <2>3. CASE k = NoIndex  BY <1>4, <1>5, <1>6, <2>1, <2>2, <2>3 DEF x, z
  <2>4. CASE k # NoIndex
    <3>1. k * e \in Nat /\ n * e \in Nat /\ k * e + e <= n * e
      BY <1>4, <1>5, <2>4, ElementFits
    <3> DEFINE ke == k * e
               ne == n * e
    <3>2. r.addr = base + o + ke /\ Room(r) = e /\ x = ne  BY <1>5, <2>4 DEF x
    <3>3. ke \in Nat /\ ne \in Nat /\ ke + e <= ne  BY <3>1
    <3>4. z \in Nat  BY <1>4 DEF z
    <3> HIDE DEF ke, ne
    <3> QED  BY <1>4, <2>1, <2>2, <3>2, <3>3, <3>4
  <2> QED  BY <2>3, <2>4
<1> QED  BY <1>2, <1>3, <1>7 DEF Sound, IndexFits

LEMMA IntoSound ==
  ASSUME NEW w, Sound(w), NEW s \in Segments
  PROVE  Sound(Into(w, s))
<1>1. CASE ~w.ok \/ Field(w.d, w.i).kind # "struct"
           \/ (Field(w.d, w.i).element_count > 1 /\ ~w.indexed)
  BY <1>1 DEF Into, Sound, NoPlace
<1>2. CASE ~(~w.ok \/ Field(w.d, w.i).kind # "struct"
             \/ (Field(w.d, w.i).element_count > 1 /\ ~w.indexed))
  <2>1. Into(w, s) = Lookup(Field(w.d, w.i).nested, w.addr, s)  BY <1>2 DEF Into
  <2> DEFINE f == Field(w.d, w.i)
  <2>2. /\ w.addr \in Nat /\ f.nested \in Reachable(table, Root)
        /\ f.element_size = table[f.nested].size /\ f.element_size \in Nat
        /\ f.element_count \in Nat \ {0} /\ w.addr + Room(w) <= Size
    BY <1>2, FieldFacts DEF Sound
  <2>3. ~w.indexed => f.element_count = 1  BY <1>2, <2>2
  <2>4. f.element_count = 1 => f.element_count * f.element_size = f.element_size  BY <2>2
  <2>5. Room(w) = f.element_size  BY <1>2, <2>3, <2>4 DEF Room, Extent
  <2> HIDE DEF f
  <2>6. w.addr + table[f.nested].size <= Size  BY <2>2, <2>5
  <2> QED  BY <2>1, <2>2, <2>6, LookupSound DEF f
<1> QED  BY <1>1, <1>2

\* Wherever a path leads is a place.
LEMMA ResolveSound ==
  ASSUME NEW p \in Seq(Segments)
  PROVE  Sound(path_resolve(p))
<1> DEFINE S == {n \in 1..Len(p) : ~Sound(Walk(p)[n])}
<1>1. \A n \in 1..Len(p) : Sound(Walk(p)[n])
  <2>1. SUFFICES ASSUME S # {} PROVE FALSE  OBVIOUS
  <2>2. PICK n \in S : \A m \in S : n <= m
    <3>1. S \in SUBSET Nat  OBVIOUS
    <3> HIDE DEF S
    <3> QED  BY <2>1, <3>1, LeastNumber
  <2>3. Walk(p)[n] = IF n = 1 THEN Lookup(Root, 0, p[1]) ELSE Into(Walk(p)[n - 1], p[n])
    BY <2>2, WalkIs
  <2>4. p[n] \in Segments  BY <2>2
  <2>5. CASE n = 1  BY <2>2, <2>3, <2>4, <2>5, LookupSound, RootIsReached
  <2>6. CASE n # 1
    <3>1. n - 1 \in 1..Len(p) /\ ~(n <= n - 1)  BY <2>2, <2>6
    <3>2. Sound(Walk(p)[n - 1])  BY <2>2, <3>1
    <3> QED  BY <2>2, <2>3, <2>4, <2>6, <3>2, IntoSound
  <2> QED  BY <2>5, <2>6
<1>2. CASE p = <<>>  BY <1>2 DEF path_resolve, Sound, NoPlace
<1>3. CASE p # <<>>
  <2>1. Len(p) \in 1..Len(p)  BY <1>3
  <2> QED  BY <1>1, <1>3, <2>1 DEF path_resolve
<1> QED  BY <1>2, <1>3

-----------------------------------------------------------------------------
\* A path behind whose end there is a segment is one with that segment appended.
LEMMA LastSegment ==
  ASSUME NEW p \in Seq(Segments), p # <<>>
  PROVE  \E q \in Seq(Segments) : p = Append(q, p[Len(p)]) /\ p[Len(p)] \in Segments
<1> DEFINE q == SubSeq(p, 1, Len(p) - 1)
<1>1. q \in Seq(Segments) /\ Len(q) = Len(p) - 1
  <2>1. Len(p) \in Nat \ {0}  OBVIOUS
  <2>2. 1 \in 1..(Len(p) + 1) /\ Len(p) - 1 \in (1 - 1)..Len(p)
        /\ (Len(p) - 1) - 1 + 1 = Len(p) - 1
    BY <2>1
  <2> QED  BY <2>2, SubSeqProperties
<1>2. p = Append(q, p[Len(p)]) /\ p[Len(p)] \in Segments  OBVIOUS
<1> QED  BY <1>1, <1>2

\* The last segment of a path that leads somewhere is looked up in some structure.
LEMMA ReachLooksUp ==
  ASSUME NEW q \in Seq(Segments), NEW s \in Segments, Reach(q, s).ok
  PROVE  \E d \in Reachable(table, Root), base \in Nat :
           \A x \in Segments : Reach(q, x) = Lookup(d, base, x)
<1>1. CASE q = <<>>  BY <1>1, RootIsReached DEF Reach
<1>2. CASE q # <<>>
  <2> DEFINE w == path_resolve(q)
             f == Field(w.d, w.i)
  <2>1. Into(w, s).ok  BY <1>2 DEF Reach
  <2>2. w.ok /\ f.kind = "struct" /\ ~(f.element_count > 1 /\ ~w.indexed)
    BY <2>1 DEF Into, NoPlace
  <2>3. Sound(w)  BY ResolveSound
  <2>4. f.nested \in Reachable(table, Root) /\ w.addr \in Nat
    BY <2>2, <2>3, FieldFacts DEF Sound
  <2>5. \A x \in Segments : Reach(q, x) = Lookup(f.nested, w.addr, x)
    BY <1>2, <2>2 DEF Reach, Into
  <2> HIDE DEF f, w
  <2> QED  BY <2>4, <2>5
<1> QED  BY <1>1, <1>2

\* A path means an element exactly when its last segment has an index.
LEMMA TerminalIndex ==
  ASSUME NEW p \in Seq(Segments), path_resolve(p).ok
  PROVE  p # <<>> /\ (path_resolve(p).indexed <=> path_has_terminal_index(p))
<1>1. p # <<>>  BY DEF path_resolve, NoPlace
<1>2. PICK q \in Seq(Segments) : p = Append(q, p[Len(p)]) /\ p[Len(p)] \in Segments
  BY <1>1, LastSegment
<1> DEFINE s == p[Len(p)]
<1>3. path_resolve(p) = Reach(q, s)
  <2>1. path_resolve(Append(q, s)) = Reach(q, s)  BY <1>2, ResolveAppend
  <2> QED  BY <1>2, <2>1
<1>4. PICK d \in Reachable(table, Root), base \in Nat : Reach(q, s) = Lookup(d, base, s)
  BY <1>2, <1>3, ReachLooksUp
<1>5. PICK i : path_resolve(p) = Place(d, i, base, s.index)
  BY <1>2, <1>3, <1>4, FoundByName
<1>6. path_resolve(p).indexed = (s.index # NoIndex)  BY <1>5 DEF Place
<1> QED  BY <1>1, <1>6 DEF path_has_terminal_index

\* The path of an array with an index leads to the element.
LEMMA IndexedPath ==
  ASSUME NEW p \in Seq(Segments), path_resolve(p).ok, ~path_resolve(p).indexed,
         NEW k \in Nat,
         Field(path_resolve(p).d, path_resolve(p).i).kind # "char_array",
         k < Field(path_resolve(p).d, path_resolve(p).i).element_count
  PROVE  /\ append_index_path(p, k) \in Seq(Segments) /\ append_index_path(p, k) # <<>>
         /\ path_resolve(append_index_path(p, k)) =
              [ok |-> TRUE, d |-> path_resolve(p).d, i |-> path_resolve(p).i, indexed |-> TRUE,
               addr |-> path_resolve(p).addr
                          + k * Field(path_resolve(p).d, path_resolve(p).i).element_size]
<1> DEFINE r == path_resolve(p)
           s == p[Len(p)]
           x == [s EXCEPT !.index = k]
<1>1. p # <<>> /\ s.index = NoIndex  BY TerminalIndex DEF path_has_terminal_index
<1>2. PICK q \in Seq(Segments) : p = Append(q, s) /\ s \in Segments  BY <1>1, LastSegment
<1>3. x \in Segments /\ x.index = k /\ x.name = s.name  BY <1>2 DEF Segments
<1>4. append_index_path(p, k) = Append(q, x)  BY <1>1, <1>2, <1>3 DEF append_index_path, Segments
<1>5. r = Reach(q, s)
  <2>1. path_resolve(Append(q, s)) = Reach(q, s)  BY <1>2, ResolveAppend
  <2> QED  BY <1>2, <2>1
<1>6. path_resolve(append_index_path(p, k)) = Reach(q, x)  BY <1>3, <1>4, ResolveAppend
<1>7. PICK d \in Reachable(table, Root), base \in Nat :
        \A y \in Segments : Reach(q, y) = Lookup(d, base, y)
  BY <1>2, <1>5, ReachLooksUp
<1>8. PICK i \in DOMAIN table[d].fields :
        Field(d, i).name = s.name /\ r = Place(d, i, base, s.index)
  BY <1>2, <1>5, <1>7, FoundByName
<1>9. r.d = d /\ r.i = i  BY <1>8 DEF Place
<1>10. IndexFits(Field(d, i), k)  BY <1>9 DEF IndexFits
<1>11. Reach(q, x) = Place(d, i, base, k)  BY <1>3, <1>7, <1>8, <1>10, LookupFinds
<1>12. k # NoIndex  BY StructAssumption
<1>13. Place(d, i, base, k) =
         [ok |-> TRUE, d |-> d, i |-> i, indexed |-> TRUE,
          addr |-> r.addr + k * Field(d, i).element_size]
  <2> HIDE DEF r, s
  <2>1. r = [ok |-> TRUE, d |-> d, i |-> i, indexed |-> FALSE,
             addr |-> base + Field(d, i).offset]
    <3>1. Field(d, i).offset \in Nat /\ base \in Nat  BY FieldFacts
    <3>2. base + Field(d, i).offset + 0 = base + Field(d, i).offset  BY <3>1
    <3>3. s.index = NoIndex  BY <1>1
    <3>4. Place(d, i, base, NoIndex) =
            [ok |-> TRUE, d |-> d, i |-> i, indexed |-> FALSE,
             addr |-> base + Field(d, i).offset]
      BY <3>2 DEF Place
    <3> QED  BY <1>8, <3>3, <3>4
  <2>2. Place(d, i, base, k) =
          [ok |-> TRUE, d |-> d, i |-> i, indexed |-> TRUE,
           addr |-> base + Field(d, i).offset + k * Field(d, i).element_size]
    BY <1>12 DEF Place
  <2>3. r.addr = base + Field(d, i).offset  BY <2>1
  <2> QED  BY <2>2, <2>3
<1>14. Append(q, x) \in Seq(Segments) /\ Append(q, x) # <<>>  BY <1>3
<1> HIDE DEF x
<1> QED  BY <1>4, <1>6, <1>9, <1>11, <1>13, <1>14

\* The path of a structure with a name leads to the field of that name.
LEMMA FieldPath ==
  ASSUME NEW p \in Seq(Segments), NEW d \in Reachable(table, Root), NEW base \in Nat,
         NEW i \in DOMAIN table[d].fields,
         \A x \in Segments : Reach(p, x) = Lookup(d, base, x)
  PROVE  /\ append_field_path(p, Field(d, i).name) \in Seq(Segments)
         /\ append_field_path(p, Field(d, i).name) # <<>>
         /\ path_resolve(append_field_path(p, Field(d, i).name)) = Place(d, i, base, NoIndex)
<1> DEFINE s == Segment(Field(d, i).name, NoIndex)
<1>1. s \in Segments /\ s.name = Field(d, i).name /\ s.index = NoIndex
  BY FieldFacts DEF Segment, Segments
<1>2. append_field_path(p, Field(d, i).name) = Append(p, s)  BY DEF append_field_path
<1> HIDE DEF s
<1>3. path_resolve(Append(p, s)) = Lookup(d, base, s)  BY <1>1, ResolveAppend
<1>4. Lookup(d, base, s) = Place(d, i, base, NoIndex)  BY <1>1, LookupFinds DEF IndexFits
<1> QED  BY <1>1, <1>2, <1>3, <1>4

-----------------------------------------------------------------------------
\* A menu of a structure is at the structure its path leads to.
LEMMA StructFrame ==
  ASSUME NEW fr, FrameOK(fr), fr.is = "struct"
  PROVE  /\ fr.d \in Reachable(table, Root) /\ fr.addr \in Nat /\ fr.path \in Seq(Segments)
         /\ \A x \in Segments : Reach(fr.path, x) = Lookup(fr.d, fr.addr, x)
<1>1. fr.addr \in Nat /\ fr.path \in Seq(Segments)  BY DEF FrameOK, Frames
<1>2. CASE fr.path = <<>>
  <2>1. fr.d = Root /\ fr.addr = 0  BY <1>2 DEF FrameOK, Frame
  <2> QED  BY <1>1, <1>2, <2>1, RootIsReached DEF Reach
<1>3. CASE fr.path # <<>>
  <2> DEFINE r == path_resolve(fr.path)
             f == Field(r.d, r.i)
  <2>1. LeadsTo(fr.path, fr) /\ f.kind = "struct"  BY <1>3 DEF FrameOK
  <2>2. r.ok /\ r.addr = fr.addr /\ f.nested = fr.d /\ ~(f.element_count > 1 /\ ~r.indexed)
    BY <2>1 DEF LeadsTo, IsArray
  <2>3. Sound(r)  BY <1>1, ResolveSound
  <2>4. f.nested \in Reachable(table, Root)  BY <2>1, <2>2, <2>3, FieldFacts DEF Sound
  <2>5. \A x \in Segments : Reach(fr.path, x) = Lookup(f.nested, r.addr, x)
    BY <1>3, <2>1, <2>2 DEF Reach, Into
  <2> HIDE DEF f, r
  <2> QED  BY <1>1, <2>2, <2>4, <2>5
<1> QED  BY <1>2, <1>3

\* Any other call is at the field its path leads to.
LEMMA FieldFrame ==
  ASSUME NEW fr, FrameOK(fr), fr.is # "struct"
  PROVE  /\ fr.path # <<>> /\ fr.path \in Seq(Segments) /\ fr.addr \in Nat
         /\ fr.d \in Reachable(table, Root) /\ fr.i \in DOMAIN table[fr.d].fields
         /\ path_resolve(fr.path).ok /\ path_resolve(fr.path).addr = fr.addr
         /\ path_resolve(fr.path).d = fr.d /\ path_resolve(fr.path).i = fr.i
         /\ fr.is = "array" <=> (IsArray(Field(fr.d, fr.i)) /\ ~path_resolve(fr.path).indexed)
<1>1. fr.addr \in Nat /\ fr.path \in Seq(Segments)  BY DEF FrameOK, Frames
<1>2. fr.path # <<>>
  <2>1. Frame("struct", Root, 0, 0, <<>>).is = "struct"  BY DEF Frame
  <2> QED  BY <2>1 DEF FrameOK
<1>3. LeadsTo(fr.path, fr)  BY <1>2 DEF FrameOK
<1>4. Sound(path_resolve(fr.path))  BY <1>1, ResolveSound
<1> QED  BY <1>1, <1>2, <1>3, <1>4 DEF LeadsTo, Sound

\* patch_element and patch_array_field, called for what a path leads to.
LEMMA OpensElement ==
  ASSUME NEW p \in Seq(Segments), path_resolve(p).ok,
         ~(IsArray(Field(path_resolve(p).d, path_resolve(p).i)) /\ ~path_resolve(p).indexed)
  PROVE  FrameOK(patch_element(path_resolve(p).d, path_resolve(p).i, path_resolve(p).addr, p))
<1> DEFINE r == path_resolve(p)
           f == Field(r.d, r.i)
           fr == patch_element(r.d, r.i, r.addr, p)
<1>1. Sound(r) /\ p # <<>>  BY ResolveSound, TerminalIndex
<1>2. /\ r.d \in Descriptors /\ r.i \in Nat /\ r.addr \in Nat
      /\ f.kind = "struct" => f.nested \in Descriptors
  BY <1>1, FieldFacts DEF Sound, Reachable
<1>3. CASE f.kind = "struct"
  <2>1. fr = [is |-> "struct", d |-> f.nested, i |-> 0, addr |-> r.addr, path |-> p]
    BY <1>3 DEF patch_element, Frame
  <2> HIDE DEF fr, f, r
  <2>2. fr \in Frames /\ fr.path = p /\ fr.is = "struct" /\ fr.addr = r.addr /\ fr.d = f.nested
    BY <1>2, <1>3, <2>1 DEF Frames
  <2>3. LeadsTo(p, fr)  BY <2>2 DEF LeadsTo, r, f
  <2>4. FrameOK(fr)  BY <1>1, <1>3, <2>2, <2>3 DEF FrameOK, r, f
  <2> QED  BY <2>4 DEF fr, f, r
<1>4. CASE f.kind # "struct"
  <2>1. fr = [is |-> "scalar", d |-> r.d, i |-> r.i, addr |-> r.addr, path |-> p]
    BY <1>4 DEF patch_element, Frame
  <2> HIDE DEF fr, f, r
  <2>2. fr \in Frames /\ fr.path = p /\ fr.is = "scalar" /\ fr.addr = r.addr
        /\ fr.d = r.d /\ fr.i = r.i
    BY <1>2, <2>1 DEF Frames
  <2>3. LeadsTo(p, fr)  BY <2>2 DEF LeadsTo, r, f
  <2>4. FrameOK(fr)  BY <1>1, <1>4, <2>2, <2>3 DEF FrameOK, r, f
  <2> QED  BY <2>4 DEF fr, f, r
<1> QED  BY <1>3, <1>4

LEMMA OpensArray ==
  ASSUME NEW p \in Seq(Segments), path_resolve(p).ok,
         IsArray(Field(path_resolve(p).d, path_resolve(p).i)), ~path_resolve(p).indexed
  PROVE  FrameOK(patch_array_field(path_resolve(p).d, path_resolve(p).i, path_resolve(p).addr, p))
<1> DEFINE r == path_resolve(p)
           fr == patch_array_field(r.d, r.i, r.addr, p)
<1>1. Sound(r) /\ p # <<>>  BY ResolveSound, TerminalIndex
<1>2. r.d \in Descriptors /\ r.i \in Nat /\ r.addr \in Nat
  BY <1>1, FieldFacts DEF Sound, Reachable
<1>3. fr = [is |-> "array", d |-> r.d, i |-> r.i, addr |-> r.addr, path |-> p]
  BY DEF patch_array_field, Frame
<1> HIDE DEF fr, r
<1>4. fr \in Frames /\ fr.path = p /\ fr.is = "array" /\ fr.addr = r.addr
      /\ fr.d = r.d /\ fr.i = r.i
  BY <1>2, <1>3 DEF Frames
<1>5. LeadsTo(p, fr)  BY <1>4 DEF LeadsTo, r
<1>6. FrameOK(fr)  BY <1>1, <1>4, <1>5 DEF FrameOK, r
<1> QED  BY <1>6 DEF fr, r

\* What a menu of a structure opens.
LEMMA SelectionOK ==
  ASSUME NEW fr, FrameOK(fr), fr.is = "struct", NEW i \in DOMAIN table[fr.d].fields
  PROVE  /\ FrameOK(Selection(fr, i))
         /\ LeadsTo(append_field_path(fr.path, Field(fr.d, i).name), Selection(fr, i))
<1> DEFINE f == Field(fr.d, i)
           p == append_field_path(fr.path, f.name)
           r == path_resolve(p)
<1>1. fr.d \in Reachable(table, Root) /\ fr.addr \in Nat  BY StructFrame
<1>2. p \in Seq(Segments) /\ p # <<>> /\ r = Place(fr.d, i, fr.addr, NoIndex)
  BY StructFrame, FieldPath
<1>3. r.ok /\ ~r.indexed /\ r.d = fr.d /\ r.i = i /\ r.addr = fr.addr + f.offset
  <2>1. f.offset \in Nat  BY <1>1, FieldFacts
  <2>2. r.addr = fr.addr + f.offset + 0  BY <1>2 DEF Place
  <2>3. fr.addr + f.offset + 0 = fr.addr + f.offset  BY <1>1, <2>1
  <2> HIDE DEF f, r
  <2> QED  BY <1>2, <2>2, <2>3 DEF Place
<1>4. Selection(fr, i) = IF IsArray(f) THEN patch_array_field(r.d, r.i, r.addr, p)
                         ELSE patch_element(r.d, r.i, r.addr, p)
  BY <1>3 DEF Selection
<1>5. Field(r.d, r.i) = f  BY <1>3
<1> HIDE DEF f, p
<1>6. FrameOK(Selection(fr, i))  BY <1>2, <1>3, <1>4, <1>5, OpensElement, OpensArray
<1>7. Selection(fr, i).path = p  BY <1>4 DEF patch_array_field, patch_element, Frame
<1>8. LeadsTo(p, Selection(fr, i))  BY <1>2, <1>6, <1>7 DEF FrameOK
<1> QED  BY <1>6, <1>8 DEF p, f

\* What the menu of an array opens.
LEMMA ElementOK ==
  ASSUME NEW fr, FrameOK(fr), fr.is = "array",
         NEW n \in 0..(Field(fr.d, fr.i).element_count - 1)
  PROVE  FrameOK(Element(fr, n)) /\ LeadsTo(append_index_path(fr.path, n), Element(fr, n))
<1> DEFINE f == Field(fr.d, fr.i)
           w == path_resolve(fr.path)
           p == append_index_path(fr.path, n)
           r == path_resolve(p)
<1>1. /\ fr.path \in Seq(Segments) /\ fr.addr \in Nat
      /\ fr.d \in Reachable(table, Root) /\ fr.i \in DOMAIN table[fr.d].fields
      /\ w.ok /\ w.addr = fr.addr /\ w.d = fr.d /\ w.i = fr.i
      /\ IsArray(f) /\ ~w.indexed
  BY FieldFrame
<1>2. f.kind # "char_array" /\ f.element_count \in Nat  BY <1>1, FieldFacts DEF IsArray
<1>3. n \in Nat /\ n < f.element_count  BY <1>2
<1>4. p \in Seq(Segments) /\ p # <<>>
      /\ r = [ok |-> TRUE, d |-> w.d, i |-> w.i, indexed |-> TRUE,
              addr |-> w.addr + n * Field(w.d, w.i).element_size]
  BY <1>1, <1>2, <1>3, IndexedPath
<1>5. r.ok /\ r.indexed /\ r.d = fr.d /\ r.i = fr.i /\ r.addr = fr.addr + n * f.element_size
  <2> HIDE DEF r
  <2> QED  BY <1>1, <1>4
<1>6. Element(fr, n) = patch_element(r.d, r.i, r.addr, p)  BY <1>5 DEF Element
<1> HIDE DEF f, p
<1>7. FrameOK(Element(fr, n))  BY <1>4, <1>5, <1>6, OpensElement
<1>8. Element(fr, n).path = p  BY <1>6 DEF patch_element, Frame
<1>9. LeadsTo(p, Element(fr, n))  BY <1>4, <1>7, <1>8 DEF FrameOK
<1> QED  BY <1>7, <1>9 DEF p

\* The bytes of the leaf in a prompt for a value.
LEMMA LeafBytes ==
  ASSUME NEW fr, FrameOK(fr), fr.is = "scalar"
  PROVE  LET f == Field(fr.d, fr.i)
         IN  BytesOf(path_resolve(fr.path)) =
               fr.addr..(fr.addr + (IF f.kind = "char_array" THEN f.char_buffer_size
                                    ELSE f.element_size) - 1)
<1> DEFINE f == Field(fr.d, fr.i)
           r == path_resolve(fr.path)
<1>1. /\ fr.path \in Seq(Segments)
      /\ fr.d \in Reachable(table, Root) /\ fr.i \in DOMAIN table[fr.d].fields
      /\ r.ok /\ r.addr = fr.addr /\ r.d = fr.d /\ r.i = fr.i
      /\ ~(IsArray(f) /\ ~r.indexed)
  BY FieldFrame
<1>2. r.indexed => f.kind # "char_array"  BY <1>1, ResolveSound DEF Sound
<1>3. f.element_size \in Nat /\ f.element_count \in Nat \ {0}  BY <1>1, FieldFacts
<1>4. f.kind # "char_array" /\ ~r.indexed => f.element_count = 1  BY <1>1, <1>3 DEF IsArray
<1>5. f.element_count = 1 => f.element_count * f.element_size = f.element_size  BY <1>3
<1>6. (IF r.indexed THEN f.element_size ELSE Extent(f))
        = IF f.kind = "char_array" THEN f.char_buffer_size ELSE f.element_size
  BY <1>2, <1>4, <1>5 DEF Extent
<1>7. BytesOf(r) = r.addr..(r.addr + (IF r.indexed THEN f.element_size ELSE Extent(f)) - 1)
  BY <1>1 DEF BytesOf
<1> HIDE DEF f, r
<1> QED  BY <1>1, <1>6, <1>7 DEF f, r

-----------------------------------------------------------------------------
LEMMA InitInv == Init => IInv
<1> SUFFICES ASSUME Init PROVE IInv  OBVIOUS
<1>1. frames = <<>> /\ DOMAIN mem = Memory  BY DEF Init
<1>2. frames \in Seq(Frames) /\ \A k \in DOMAIN frames : FrameOK(frames[k])  BY <1>1
<1>3. TypedIsStored  BY DEF Init, TypedIsStored
<1> QED  BY <1>1, <1>2, <1>3 DEF IInv

\* The running call is one of the calls under way.
LEMMA TopOK ==
  ASSUME IInv, frames # <<>>
  PROVE  FrameOK(Top)
<1>1. frames \in Seq(Frames)  BY DEF IInv
<1>2. Len(frames) \in DOMAIN frames  BY <1>1
<1> QED  BY <1>2 DEF IInv, Top

\* A step that opens no call keeps the invariant if it keeps the last edit true.
LEMMA SameFrames ==
  ASSUME IInv, UNCHANGED frames, DOMAIN mem' = DOMAIN mem, TypedIsStored'
  PROVE  IInv'
BY DEF IInv

LEMMA Opened ==
  ASSUME IInv, NEW fr, FrameOK(fr), frames' = Append(frames, fr), UNCHANGED <<mem, last>>
  PROVE  IInv'
<1>1. fr \in Frames /\ frames \in Seq(Frames)  BY DEF IInv, FrameOK
<1>2. frames' \in Seq(Frames)  BY <1>1
<1>3. \A k \in DOMAIN frames' : frames'[k] = fr \/ (k \in DOMAIN frames /\ frames'[k] = frames[k])
  BY <1>1
<1>4. \A k \in DOMAIN frames' : FrameOK(frames'[k])  BY <1>3 DEF IInv
<1>5. DOMAIN mem' = Memory /\ TypedIsStored'  BY DEF IInv, TypedIsStored
<1> QED  BY <1>2, <1>4, <1>5 DEF IInv

\* The first call is for the whole structure or for what the path given leads to.
LEMMA EnterStep ==
  ASSUME IInv, Enter
  PROVE  IInv'
<1>1. PICK path \in StartPaths :
        \/ UNCHANGED frames
        \/ /\ path = <<>> \/ path_resolve(path).ok
           /\ frames' = <<CASE path = <<>> -> Frame("struct", Root, 0, 0, <<>>)
                            [] path # <<>> ->
                                 IF /\ IsArray(Field(path_resolve(path).d, path_resolve(path).i))
                                    /\ ~path_has_terminal_index(path)
                                 THEN patch_array_field(path_resolve(path).d, path_resolve(path).i,
                                                        path_resolve(path).addr, path)
                                 ELSE patch_element(path_resolve(path).d, path_resolve(path).i,
                                                    path_resolve(path).addr, path)>>
  BY DEF Enter
<1>2. UNCHANGED <<mem, last>> /\ path \in Seq(Segments)  BY InputAssumption DEF Enter
<1>3. DOMAIN mem' = Memory /\ TypedIsStored'  BY <1>2 DEF IInv, TypedIsStored
<1>4. CASE UNCHANGED frames  BY <1>2, <1>3, <1>4, SameFrames
<1>5. ASSUME NEW fr, FrameOK(fr), frames' = <<fr>> PROVE IInv'
  <2>1. fr \in Frames  BY <1>5 DEF FrameOK
  <2>2. frames' \in Seq(Frames) /\ \A k \in DOMAIN frames' : frames'[k] = fr  BY <1>5, <2>1
  <2> QED  BY <1>3, <1>5, <2>2 DEF IInv
<1>6. CASE path = <<>> /\ frames' = <<Frame("struct", Root, 0, 0, <<>>)>>
  <2>1. Frame("struct", Root, 0, 0, <<>>)
          = [is |-> "struct", d |-> Root, i |-> 0, addr |-> 0, path |-> <<>>]
    BY DEF Frame
  <2>2. <<>> \in Seq(Segments)  OBVIOUS
  <2>3. FrameOK(Frame("struct", Root, 0, 0, <<>>))
    <3> DEFINE fr == Frame("struct", Root, 0, 0, <<>>)
    <3> HIDE DEF fr
    <3>1. fr = [is |-> "struct", d |-> Root, i |-> 0, addr |-> 0, path |-> <<>>]
      BY <2>1 DEF fr
    <3>2. fr \in Frames /\ fr.path = <<>>  BY <2>2, <3>1, StructAssumption DEF Frames
    <3>3. FrameOK(fr)  BY <3>2 DEF FrameOK, fr
    <3> QED  BY <3>3 DEF fr
  <2> QED  BY <1>5, <1>6, <2>3
<1>7. CASE path # <<>> /\ path_resolve(path).ok /\ ~UNCHANGED frames
  <2> DEFINE r == path_resolve(path)
             array == IsArray(Field(r.d, r.i)) /\ ~path_has_terminal_index(path)
  <2>1. r.indexed <=> path_has_terminal_index(path)  BY <1>2, <1>7, TerminalIndex
  <2>2. r.indexed \in BOOLEAN  BY <1>2, <1>7, ResolveSound DEF Sound
  <2>3. frames' = <<IF array THEN patch_array_field(r.d, r.i, r.addr, path)
                    ELSE patch_element(r.d, r.i, r.addr, path)>>
    BY <1>1, <1>7
  <2>4. CASE array
    <3>1. FrameOK(patch_array_field(r.d, r.i, r.addr, path))
      BY <1>2, <1>7, <2>1, <2>4, OpensArray
    <3> HIDE DEF r, array
    <3> QED  BY <1>5, <2>3, <2>4, <3>1
  <2>5. CASE ~array
    <3>1. FrameOK(patch_element(r.d, r.i, r.addr, path))
      BY <1>2, <1>7, <2>1, <2>5, OpensElement
    <3> HIDE DEF r, array
    <3> QED  BY <1>5, <2>3, <2>5, <3>1
  <2> QED  BY <2>4, <2>5
<1> QED  BY <1>1, <1>4, <1>6, <1>7

LEMMA SelectFieldStep ==
  ASSUME IInv, SelectField
  PROVE  IInv'
<1>1. frames # <<>> /\ Top.is = "struct" /\ UNCHANGED <<mem, last>>
  BY DEF SelectField, Reading
<1>2. PICK x \in Inputs :
        IF parse_int(x) /\ x.v >= 1 /\ x.v <= Len(table[Top.d].fields)
        THEN frames' = Append(frames, Selection(Top, x.v)) ELSE UNCHANGED frames
  BY DEF SelectField
<1>3. CASE UNCHANGED frames  BY <1>1, <1>3, SameFrames DEF IInv, TypedIsStored
<1>4. CASE /\ x.v >= 1 /\ x.v <= Len(table[Top.d].fields)
           /\ frames' = Append(frames, Selection(Top, x.v))
  <2>1. FrameOK(Top)  BY <1>1, TopOK
  <2>2. x.v \in Int  BY InputAssumption
  <2>3. table[Top.d].fields \in Seq(Fields)
    <3>1. Top.d \in Descriptors  BY <2>1 DEF FrameOK, Frames
    <3> QED  BY <3>1, TableAssumption DEF DescriptorRecords
  <2>4. x.v \in DOMAIN table[Top.d].fields  BY <1>4, <2>2, <2>3
  <2>5. FrameOK(Selection(Top, x.v))  BY <1>1, <2>1, <2>4, SelectionOK
  <2> QED  BY <1>1, <1>4, <2>5, Opened
<1> QED  BY <1>2, <1>3, <1>4

LEMMA SelectElementStep ==
  ASSUME IInv, SelectElement
  PROVE  IInv'
<1>1. frames # <<>> /\ Top.is = "array" /\ UNCHANGED <<mem, last>>
  BY DEF SelectElement, Reading
<1>2. PICK x \in Inputs :
        IF parse_int(x) /\ x.v >= 0 /\ x.v < Field(Top.d, Top.i).element_count
        THEN frames' = Append(frames, Element(Top, x.v)) ELSE UNCHANGED frames
  BY DEF SelectElement
<1>3. CASE UNCHANGED frames  BY <1>1, <1>3, SameFrames DEF IInv, TypedIsStored
<1>4. CASE /\ x.v >= 0 /\ x.v < Field(Top.d, Top.i).element_count
           /\ frames' = Append(frames, Element(Top, x.v))
  <2>1. FrameOK(Top)  BY <1>1, TopOK
  <2>2. x.v \in Int  BY InputAssumption
  <2>3. Field(Top.d, Top.i).element_count \in Nat  BY <1>1, <2>1, FieldFrame, FieldFacts
  <2>4. x.v \in 0..(Field(Top.d, Top.i).element_count - 1)  BY <1>4, <2>2, <2>3
  <2>5. FrameOK(Element(Top, x.v))  BY <1>1, <2>1, <2>4, ElementOK
  <2> QED  BY <1>1, <1>4, <2>5, Opened
<1> QED  BY <1>2, <1>3, <1>4

\* The conversion to float gives the nearest one.
LEMMA ToFloatIsNearest ==
  ASSUME NEW v \in Int
  PROVE  Nearest(ToFloat(v), v)
<1> DEFINE even == IF v % 2 = 0 THEN v ELSE 4 * ((v + 2) \div 4)
<1>1. /\ FloatMax \in Nat /\ FloatMax % 4 = 2
      /\ Infinity \in Nat /\ Infinity > FloatMax + 1
      /\ NaN \in Int /\ (NaN > Infinity \/ NaN < -Infinity)
  BY FloatAssumption
<1>2. CASE ~Finite(v)
  <2>1. ToFloat(v) = v  BY <1>2 DEF ToFloat
  <2>2. ~(v \in -FloatMax..FloatMax)  BY <1>1, <1>2 DEF Finite
  <2> QED  BY <1>2, <2>1, <2>2 DEF Nearest, FloatNumber
<1>3. CASE Finite(v)
  <2>1. /\ even \in Int /\ even % 2 = 0
        /\ even = v \/ (v % 2 # 0 /\ (even = v + 1 \/ even = v - 1) /\ even % 4 = 0)
    <3>1. CASE v % 2 = 0  BY <3>1
    <3>2. CASE v % 2 # 0
      <4> DEFINE q == (v + 2) \div 4
                 m == (v + 2) % 4
      <4>1. q \in Int /\ m \in 0..3 /\ v + 2 = 4 * q + m  OBVIOUS
      <4>2. even = 4 * q  BY <3>2
      <4> HIDE DEF q, m, even
      <4>3. v = 4 * q + m - 2  BY <4>1
      <4>4. m = 1 \/ m = 3  BY <3>2, <4>1, <4>3
      <4>5. v = even + 1 \/ v = even - 1  BY <4>1, <4>2, <4>3, <4>4
      <4>6. even \in Int /\ even % 2 = 0 /\ even % 4 = 0  BY <4>1, <4>2
      <4> QED  BY <3>2, <4>5, <4>6
    <3> QED  BY <3>1, <3>2
  <2> HIDE DEF even
  <2>2. CASE even > FloatMax
    <3>1. ToFloat(v) = Infinity  BY <1>1, <1>3, <2>1, <2>2 DEF ToFloat, even
    <3>2. v > FloatMax
      <4>1. v # FloatMax  BY <1>1, <2>1, <2>2
      <4> QED  BY <1>1, <2>1, <2>2, <4>1
    <3> QED  BY <1>1, <1>3, <3>1, <3>2 DEF Nearest, FloatNumber, Finite
  <2>3. CASE even < -FloatMax
    <3>1. ToFloat(v) = -Infinity  BY <1>1, <1>3, <2>1, <2>3 DEF ToFloat, even
    <3>2. v < -FloatMax
      <4>1. v # -FloatMax  BY <1>1, <2>1, <2>3
      <4> QED  BY <1>1, <2>1, <2>3, <4>1
    <3> QED  BY <1>1, <1>3, <3>1, <3>2 DEF Nearest, FloatNumber, Finite
  <2>4. CASE ~(even > FloatMax) /\ ~(even < -FloatMax)
    <3>1. ToFloat(v) = even  BY <1>3, <2>4 DEF ToFloat, even
    <3>2. FloatNumber(even) /\ Finite(even)  BY <1>1, <2>1, <2>4 DEF FloatNumber, Finite
    <3>3. ASSUME NEW t \in -FloatMax..FloatMax, FloatNumber(t)
          PROVE  Distance(even, v) <= Distance(t, v)
      <4>1. t \in Int /\ t % 2 = 0  BY <1>1, <3>3 DEF FloatNumber, Finite
      <4>2. even = v \/ t # v  BY <2>1, <4>1
      <4> QED  BY <2>1, <4>1, <4>2 DEF Distance
    <3>4. /\ v > FloatMax => even = FloatMax
          /\ v < -FloatMax => even = -FloatMax
      BY <1>1, <2>1, <2>4
    <3> QED  BY <1>3, <3>1, <3>2, <3>3, <3>4 DEF Nearest
  <2> QED  BY <2>2, <2>3, <2>4
<1> QED  BY <1>2, <1>3

\* What a line is stored as, in how many bytes.
LEMMA EditStores ==
  ASSUME EditNumber \/ EditText
  PROVE  \E n, value : \E x \in Inputs :
           /\ Store(n, x, value) /\ Top.is = "scalar" /\ frames # <<>>
           /\ LET f == Field(Top.d, Top.i)
              IN  /\ f.kind = "float" => value = ToFloat(x.v)
                  /\ f.kind = "unsigned" => parse_unsigned(x).ok /\ value = parse_unsigned(x).value
                  /\ f.kind \notin {"float", "unsigned"} => value = x.v
                  /\ \/ f.kind \in {"int", "unsigned", "float", "double"} /\ n = SizeOf[f.kind]
                     \/ f.kind = "char_array" /\ TextFits(f, x.v) /\ n = x.v + 1
<1>1. CASE EditNumber
  <2> DEFINE kind == Field(Top.d, Top.i).kind
  <2>1. PICK x \in Inputs :
          \/ kind = "int" /\ Store(SizeOf["int"], x, x.v)
          \/ /\ kind = "unsigned" /\ parse_unsigned(x).ok
             /\ Store(SizeOf["unsigned"], x, parse_unsigned(x).value)
          \/ kind = "float" /\ Store(SizeOf["float"], x, ToFloat(x.v))
          \/ kind = "double" /\ Store(SizeOf["double"], x, x.v)
    BY <1>1 DEF EditNumber
  <2>2. Top.is = "scalar" /\ frames # <<>>  BY <1>1 DEF EditNumber, Reading
  <2> QED  BY <2>1, <2>2
<1>2. CASE EditText  BY <1>2 DEF EditText, Reading
<1> QED  BY <1>1, <1>2

\* A number is stored as it was typed, if no sign hides behind a blank.
LEMMA EditStep ==
  ASSUME IInv, EditNumber \/ EditText
  PROVE  IInv'
<1> DEFINE kind == Field(Top.d, Top.i).kind
<1>1. PICK n, value : \E x \in Inputs :
        /\ Store(n, x, value)
        /\ kind = "float" => value = ToFloat(x.v)
        /\ kind = "unsigned" => parse_unsigned(x).ok /\ value = parse_unsigned(x).value
        /\ kind \notin {"float", "unsigned"} => value = x.v
  BY EditStores
<1>2. PICK x \in Inputs :
        /\ Store(n, x, value)
        /\ kind = "float" => value = ToFloat(x.v)
        /\ kind = "unsigned" => parse_unsigned(x).ok /\ value = parse_unsigned(x).value
        /\ kind \notin {"float", "unsigned"} => value = x.v
  BY <1>1
<1>3. UNCHANGED frames /\ DOMAIN mem' = DOMAIN mem  BY <1>2 DEF Store
<1>4. last' = [typed |-> x, kind |-> kind, stored |-> value]  BY <1>2 DEF Store
<1>5. x.v \in Int /\ x.blank \in BOOLEAN  BY InputAssumption
<1>6. kind = "float" => Nearest(value, x.v)  BY <1>2, <1>5, ToFloatIsNearest
<1>7. kind = "unsigned" /\ ~(x.blank /\ x.v < 0) => value = x.v
  BY <1>2, <1>5 DEF parse_unsigned
<1> HIDE DEF kind
<1>8. TypedIsStored'
  <2>1. last'.typed = x /\ last'.kind = kind /\ last'.stored = value  BY <1>4
  <2> QED  BY <1>2, <1>6, <1>7, <2>1 DEF TypedIsStored
<1> QED  BY <1>3, <1>8, SameFrames

LEMMA ReturnStep ==
  ASSUME IInv, Return
  PROVE  IInv'
<1>1. frames # <<>> /\ UNCHANGED <<mem, last>>  BY DEF Return
<1>2. frames \in Seq(Frames)  BY DEF IInv
<1>3. frames' \in Seq(Frames)
      /\ \A k \in DOMAIN frames' : k \in DOMAIN frames /\ frames'[k] = frames[k]
  <2>1. CASE Len(frames) = 1
    <3>1. frames' = <<>>  BY <2>1 DEF Return
    <3> QED  BY <3>1
  <2>2. CASE Len(frames) # 1
    <3> DEFINE n == Len(frames) - 1
    <3>1. n \in Nat /\ n >= 1 /\ n <= Len(frames)
      <4>1. Len(frames) \in Nat /\ Len(frames) # 0  BY <1>1, <1>2
      <4> QED  BY <2>2, <4>1
    <3>2. frames' = SubSeq(frames, 1, n)  BY <2>2 DEF Return, Below
    <3>3. \A k \in 1..n : frames[k] \in Frames  BY <1>2, <3>1
    <3> HIDE DEF n
    <3>4. SubSeq(frames, 1, n) \in Seq(Frames) /\ Len(SubSeq(frames, 1, n)) = n
          /\ \A k \in 1..n : SubSeq(frames, 1, n)[k] = frames[k]
      <4>1. n - 1 + 1 = n /\ \A k \in 1..n : 1 + k - 1 = k  BY <3>1
      <4> QED  BY <3>1, <3>3, <4>1, SubSeqProperties
    <3> QED  BY <1>2, <3>1, <3>2, <3>4
  <2> QED  BY <2>1, <2>2
<1>4. DOMAIN mem' = Memory /\ TypedIsStored'  BY <1>1 DEF IInv, TypedIsStored
<1>5. \A k \in DOMAIN frames' : FrameOK(frames'[k])  BY <1>3 DEF IInv
<1> QED  BY <1>3, <1>4, <1>5 DEF IInv

LEMMA NextStep == IInv /\ [Next]_vars => IInv'
<1> SUFFICES ASSUME IInv, [Next]_vars PROVE IInv'  OBVIOUS
<1>1. CASE Enter  BY <1>1, EnterStep
<1>2. CASE ReadBlank \/ ReadEnd \/ ReadFails
  <2>1. UNCHANGED <<frames, mem, last>>  BY <1>2 DEF ReadBlank, ReadEnd, ReadFails, Leave
  <2> QED  BY <2>1, SameFrames DEF IInv, TypedIsStored
<1>3. CASE SelectField  BY <1>3, SelectFieldStep
<1>4. CASE SelectElement  BY <1>4, SelectElementStep
<1>5. CASE EditNumber \/ EditText  BY <1>5, EditStep
<1>6. CASE Return  BY <1>6, ReturnStep
<1>7. CASE UNCHANGED vars  BY <1>7, SameFrames DEF vars, IInv, TypedIsStored
<1> QED  BY <1>1, <1>2, <1>3, <1>4, <1>5, <1>6, <1>7 DEF Next, Done

LEMMA Invariance == Spec => []IInv
<1> QED  BY InitInv, NextStep, PTL DEF Spec

-----------------------------------------------------------------------------
\* Every path a menu or prompt shows resolves, with path_resolve, to the place it is
\* shown for: pasted into `patch <path>' it edits the same field, whatever the descriptor.
THEOREM PathsShownLeadBack == Spec => []ShownPathsResolve
<1>1. IInv => ShownPathsResolve
  <2> SUFFICES ASSUME IInv, NEW k \in DOMAIN frames
               PROVE  LET fr == frames[k]
                      IN  /\ fr.path # <<>> => LeadsTo(fr.path, fr)
                          /\ fr.is = "struct" => \A i \in DOMAIN table[fr.d].fields :
                               LeadsTo(append_field_path(fr.path, Field(fr.d, i).name),
                                       Selection(fr, i))
                          /\ fr.is = "array" => \A n \in 0..(Field(fr.d, fr.i).element_count - 1) :
                               LeadsTo(append_index_path(fr.path, n), Element(fr, n))
    BY DEF ShownPathsResolve
  <2>1. FrameOK(frames[k])  BY DEF IInv
  <2> QED  BY <2>1, SelectionOK, ElementOK DEF FrameOK
<1> QED  BY <1>1, Invariance, PTL

\* A number is stored as the user typed it, unless a sign hides behind a blank; a float
\* gets the nearest number of its type, or an infinity.
THEOREM StoredAsTyped == Spec => []TypedIsStored
<1>1. IInv => TypedIsStored  BY DEF IInv
<1> QED  BY <1>1, Invariance, PTL

\* Where a step writes: only in the leaf of a prompt, if it is described large enough.
LEMMA WritesToTheLeaf ==
  ASSUME IInv, Next, NEW b \in DOMAIN mem, mem'[b] # mem[b]
  PROVE  /\ Top.is = "scalar" /\ FrameOK(Top)
         /\ SizeFits(Field(Top.d, Top.i)) => b \in BytesOf(path_resolve(Top.path))
<1> DEFINE f == Field(Top.d, Top.i)
           room == IF f.kind = "char_array" THEN f.char_buffer_size ELSE f.element_size
<1>1. EditNumber \/ EditText
  BY DEF Next, Enter, ReadBlank, ReadEnd, ReadFails, Leave, SelectField, SelectElement,
         Return, Done, vars
<1>2. PICK n, value : \E x \in Inputs :
        /\ Store(n, x, value) /\ Top.is = "scalar" /\ frames # <<>>
        /\ \/ f.kind \in {"int", "unsigned", "float", "double"} /\ n = SizeOf[f.kind]
           \/ f.kind = "char_array" /\ TextFits(f, x.v) /\ n = x.v + 1
  BY <1>1, EditStores
<1>3. PICK x \in Inputs :
        /\ Store(n, x, value) /\ Top.is = "scalar" /\ frames # <<>>
        /\ \/ f.kind \in {"int", "unsigned", "float", "double"} /\ n = SizeOf[f.kind]
           \/ f.kind = "char_array" /\ TextFits(f, x.v) /\ n = x.v + 1
  BY <1>2
<1>4. FrameOK(Top) /\ Top.addr \in Nat /\ b \in Int
  BY <1>3, TopOK DEF FrameOK, Frames, IInv, Memory
<1>5. f.element_size \in Nat /\ f.char_buffer_size \in Nat  BY <1>3, <1>4, FieldFrame, FieldFacts
<1>6. ASSUME SizeFits(f) PROVE b \in BytesOf(path_resolve(Top.path))
  <2>1. n \in Int /\ n <= room
    <3>1. CASE f.kind \in {"int", "unsigned", "float", "double"} /\ n = SizeOf[f.kind]
      <4>1. SizeOf[f.kind] \in Nat /\ SizeOf[f.kind] <= f.element_size
        BY <1>6, <3>1, SizeOfAssumption, SizeAssumption DEF SizeFits, Sizes
      <4> QED  BY <3>1, <4>1
    <3>2. CASE f.kind = "char_array" /\ TextFits(f, x.v) /\ n = x.v + 1
      BY <1>5, <3>2, InputAssumption DEF TextFits
    <3> QED  BY <1>3, <3>1, <3>2
  <2>2. Top.addr <= b /\ b < Top.addr + n  BY <1>3 DEF Store
  <2>3. BytesOf(path_resolve(Top.path)) = Top.addr..(Top.addr + room - 1)
    BY <1>3, <1>4, LeafBytes
  <2>4. room \in Nat  BY <1>5
  <2> HIDE DEF room
  <2>5. b \in Top.addr..(Top.addr + room - 1)  BY <1>4, <2>1, <2>2, <2>4
  <2> QED  BY <2>3, <2>5
<1> QED  BY <1>3, <1>4, <1>6

\* A step changes no byte but those of the leaf whose prompt takes the line, when the
\* leaf is described with room for its kind: a text with its terminator stays in its
\* buffer, an element in its array.
THEOREM EditsStayInTheLeaf == Spec => EditsWhatItShows
<1>1. IInv /\ [Next]_vars =>
        [\A b \in DOMAIN mem : mem'[b] # mem[b] =>
           /\ Top.is = "scalar"
           /\ SizeFits(Field(Top.d, Top.i)) => b \in BytesOf(path_resolve(Top.path))]_vars
  <2> SUFFICES ASSUME IInv, Next, NEW b \in DOMAIN mem, mem'[b] # mem[b]
               PROVE  /\ Top.is = "scalar"
                      /\ SizeFits(Field(Top.d, Top.i)) => b \in BytesOf(path_resolve(Top.path))
    BY DEF vars
  <2> QED  BY WritesToTheLeaf
<1> QED  BY <1>1, Invariance, PTL DEF Spec, EditsWhatItShows

\* The bytes a path leads to are bytes of the instance.
LEMMA LeafInside ==
  ASSUME NEW fr, FrameOK(fr), fr.is = "scalar"
  PROVE  BytesOf(path_resolve(fr.path)) \subseteq 0..(Size - 1)
<1> DEFINE r == path_resolve(fr.path)
<1>1. r.ok /\ Sound(r)  BY FieldFrame, ResolveSound
<1>2. r.addr \in Nat /\ r.addr + Room(r) <= Size /\ Size \in Nat  BY <1>1, RootIsReached DEF Sound
<1>3. BytesOf(r) = r.addr..(r.addr + Room(r) - 1)  BY DEF BytesOf, Room
<1>4. Room(r) \in Nat
  <2>1. LET f == Field(r.d, r.i)
        IN  /\ f.element_size \in Nat /\ f.element_count \in Nat
            /\ f.char_buffer_size \in Nat
    BY <1>1, FieldFacts DEF Sound
  <2> QED  BY <2>1 DEF Room, Extent
<1> HIDE DEF r
<1> QED  BY <1>2, <1>3, <1>4 DEF r

\* The bytes behind the instance change only when the leaf being edited is described
\* smaller than its kind.
StaysInside ==
  [][\A b \in DOMAIN mem \ 0..(Size - 1) :
       mem'[b] # mem[b] => ~SizeFits(Field(Top.d, Top.i))]_vars

\* From whatever path or menu a prompt was reached, no edit of a leaf that is described
\* with room for its kind writes outside of the instance.
THEOREM EditsStayInside == Spec => StaysInside
<1>1. IInv /\ [Next]_vars =>
        [\A b \in DOMAIN mem \ 0..(Size - 1) :
           mem'[b] # mem[b] => ~SizeFits(Field(Top.d, Top.i))]_vars
  <2> SUFFICES ASSUME IInv, Next, NEW b \in DOMAIN mem, mem'[b] # mem[b],
                      SizeFits(Field(Top.d, Top.i))
               PROVE  b \in 0..(Size - 1)
    BY DEF vars
  <2>1. FrameOK(Top) /\ Top.is = "scalar" /\ b \in BytesOf(path_resolve(Top.path))
    BY WritesToTheLeaf
  <2> QED  BY <2>1, LeafInside
<1> QED  BY <1>1, Invariance, PTL DEF Spec, StaysInside
=============================================================================
