------------------------- MODULE StructMetaGen_proofs -------------------------
(***************************************************************************)
(* Proofs that what make has built is current, where only the order in     *)
(* which the parser, the two files and make's comparison of dates change   *)
(* matters; that the descriptors come out behind those they point at; that *)
(* no structure is lost without a word and the descriptors are those of    *)
(* the members, where what the parser has read is compared with the tokens *)
(* behind it; and that they carry what the comments say, where a joined    *)
(* text is compared with the comments as they are written.                 *)
(* For any headers, edits and number of failures.                          *)
(***************************************************************************)
EXTENDS StructMetaGen, FiniteSetTheorems, SequenceTheorems, WellFoundedInduction, TLAPS

IsFile(f) == DOMAIN f = {"of", "whole", "items", "catalog"}
ParserFields == {"text", "of", "input", "at", "sdoc", "fdoc", "decl", "fields", "name", "structs"}

Shapes ==
  /\ IsFile(cfile) /\ IsFile(hfile)
  /\ DOMAIN p = ParserFields
  /\ phase \in Ended \cup Generating \cup {"compile"}

\* The two files agree with each other and with the header.
Agree == cfile.of = version /\ hfile.of = version /\ cfile.catalog = hfile.catalog

\* A run of the generator: the header it reads, and the files on their way.
RunInv ==
  /\ phase \in Generating /\ ~excused => p.of = version
  /\ phase \in {"parse", "open"} => ~current
  /\ phase = "emit" => cfile.of = p.of /\ ~cfile.whole
  /\ phase = "header" => cfile.of = p.of /\ (cfile.whole => cfile.catalog = CatalogNames)

\* What make relies on between the runs: files it takes for current are so, or not whole,
\* or a run has ended between them, or beside an edit.
Trusted ==
  phase \notin Generating /\ (current \/ phase \in {"compile", "built"}) /\ ~excused
    /\ cfile.whole /\ hfile.whole => Agree

IInv == Shapes /\ RunInv /\ Trusted /\ BuildIsCurrent

-----------------------------------------------------------------------------
LEMMA Empty == /\ IsFile(NoFile) /\ NoFile.whole = FALSE
               /\ \A v : IsFile([NoFile EXCEPT !.of = v]) /\ ~[NoFile EXCEPT !.of = v].whole
                           /\ [NoFile EXCEPT !.of = v].of = v
  BY DEF IsFile, NoFile

\* The parser works on the header it was given.
LEMMA SameHeader ==
  ASSUME NEW q, DOMAIN q = ParserFields, NEW k
  PROVE  /\ DOMAIN Reduced(q, k) = ParserFields /\ Reduced(q, k).of = q.of
         /\ DOMAIN Taken(q, k) = ParserFields /\ Taken(q, k).of = q.of
<1>1. DOMAIN Reduced(q, k) = ParserFields /\ Reduced(q, k).of = q.of
  <2> DEFINE f == Append(q.fields, field_create(q, Postfix(k)))
             s == struct_list_append(q.structs, struct_create(q, Postfix(k)))
  <2>1. Reduced(q, k) = CASE q.at = "fend" -> [q EXCEPT !.fields = f, !.fdoc = <<>>]
                          [] q.at = "send" -> [q EXCEPT !.structs = s, !.sdoc = <<>>]
                          [] OTHER -> q
    BY DEF Reduced
  <2> HIDE DEF f, s
  <2> QED  BY <2>1 DEF ParserFields
<1>2. DOMAIN Taken(q, k) = ParserFields /\ Taken(q, k).of = q.of
  BY DEF Taken, ParserFields
<1> QED  BY <1>1, <1>2

-----------------------------------------------------------------------------
(* One lemma per kind of step *)

LEMMA MakeStep == ASSUME IInv, Make PROVE IInv'
<1>1. CASE current /\ phase' = "compile" /\ UNCHANGED <<p, emission, complained, excused>>
  BY <1>1 DEF Make, IInv, Shapes, RunInv, Trusted, BuildIsCurrent, Agree, Ended, Generating,
              source, files
<1>2. CASE ~current /\ phase' = "parse" /\ p' = NewParser(header, version)
  <2>1. p'.of = version /\ DOMAIN p' = ParserFields  BY <1>2 DEF NewParser, ParserFields
  <2> QED
    BY <1>2, <2>1 DEF Make, IInv, Shapes, RunInv, Trusted, BuildIsCurrent, Generating, source, files
<1> QED  BY <1>1, <1>2 DEF Make

\* A step of the parser changes neither of the files.
LEMMA ParserStep == ASSUME IInv, yyparse PROVE IInv'
<1> USE DEF Generating, Parsing, source, files, maker
<1>1. /\ phase = "parse" /\ ~current /\ DOMAIN p = ParserFields /\ IsFile(cfile) /\ IsFile(hfile)
      /\ UNCHANGED <<version, hfile, excused>> /\ (~excused => p.of = version)
  BY DEF yyparse, Shift, SyntaxError, Recover, PointerMember, ParseFails, Accept, IInv, Shapes, RunInv
<1>2. CASE phase' \in {"parse", "open"} /\ UNCHANGED <<cfile, current>>
           /\ DOMAIN p' = ParserFields /\ p'.of = p.of
  BY <1>1, <1>2 DEF IInv, Shapes, RunInv, Trusted, BuildIsCurrent
<1>3. CASE Fails(FALSE) /\ DOMAIN p' = ParserFields
  BY <1>1, <1>3 DEF Fails, IInv, Shapes, RunInv, Trusted, BuildIsCurrent, Ended
<1>4. CASE Shift
  <2> DEFINE k == Lookahead
             at == Grammar[p.at][k.t]
             rest == Rest
             q == Taken(Reduced(p, k), k)
  <2>1. p' = [q EXCEPT !.at = at, !.input = rest] /\ phase' = phase /\ UNCHANGED <<cfile, current>>
    BY <1>4 DEF Shift
  <2>2. DOMAIN q = ParserFields /\ q.of = p.of  BY <1>1, SameHeader
  <2> HIDE DEF q, at, rest
  <2>3. DOMAIN p' = ParserFields /\ p'.of = p.of  BY <2>1, <2>2 DEF ParserFields
  <2> QED  BY <1>1, <1>2, <2>1, <2>3
<1>5. CASE SyntaxError
  <2> DEFINE q == Reduced(p, Lookahead)
  <2>1. /\ p' = [q EXCEPT !.at = "recover", !.sdoc = <<>>, !.fdoc = <<>>, !.fields = <<>>]
        /\ phase' = phase /\ UNCHANGED <<cfile, current>>
    BY <1>5 DEF SyntaxError
  <2>2. DOMAIN q = ParserFields /\ q.of = p.of  BY <1>1, SameHeader
  <2> HIDE DEF q
  <2>3. DOMAIN p' = ParserFields /\ p'.of = p.of  BY <2>1, <2>2 DEF ParserFields
  <2> QED  BY <1>1, <1>2, <2>1, <2>3
<1>6. CASE Recover
  <2> DEFINE at == IF Lookahead.t = "SEMI" THEN "top" ELSE "recover"
             rest == Rest
  <2>1. /\ p' = [p EXCEPT !.input = rest, !.at = at]
        /\ phase' = phase /\ UNCHANGED <<cfile, current>>
    BY <1>6 DEF Recover
  <2> HIDE DEF at, rest
  <2>2. DOMAIN p' = ParserFields /\ p'.of = p.of  BY <1>1, <2>1 DEF ParserFields
  <2> QED  BY <1>1, <1>2, <2>1, <2>2
<1>7. CASE PointerMember \/ ParseFails
  BY <1>1, <1>3, <1>7 DEF PointerMember, ParseFails
<1>8. CASE Accept
  <2>1. DOMAIN p' = ParserFields /\ p'.of = p.of  BY <1>1, <1>8, SameHeader DEF Accept
  <2> QED  BY <1>1, <1>2, <1>3, <1>8, <2>1 DEF Accept
<1> QED  BY <1>4, <1>5, <1>6, <1>7, <1>8 DEF yyparse

\* The .c is written while make already takes it for newer than the header: a run that
\* fails before its end leaves no whole .c.
LEMMA SourceStep ==
  ASSUME IInv, OpenSource \/ EmitNext \/ VisitField \/ EmitDescriptor \/ emit_catalog_source
  PROVE  IInv'
<1> USE DEF Generating, source, files, maker, emission
<1>1. /\ UNCHANGED <<version, p, hfile, excused>> /\ Shapes
      /\ phase \in {"open", "emit"} /\ (~excused => p.of = version)
  BY DEF OpenSource, EmitNext, VisitField, EmitDescriptor, emit_catalog_source, IInv, RunInv
<1>2. CASE OpenSource
  <2>1. CASE phase' = "emit" /\ cfile' = [NoFile EXCEPT !.of = p.of]
    BY <1>1, <2>1, Empty DEF IInv, Shapes, RunInv, Trusted, BuildIsCurrent
  <2>2. CASE Fails(FALSE)
    BY <1>1, <1>2, <2>2 DEF OpenSource, Fails, IInv, Shapes, RunInv, Trusted, BuildIsCurrent, Ended
  <2> QED  BY <1>2, <2>1, <2>2 DEF OpenSource
<1>3. ASSUME phase = "emit", phase' = "emit", IsFile(cfile'), cfile'.of = cfile.of,
             cfile'.whole = cfile.whole
      PROVE  IInv'
  BY <1>1, <1>3 DEF IInv, Shapes, RunInv, Trusted, BuildIsCurrent
<1>4. CASE EmitNext
  BY <1>1, <1>3, <1>4 DEF EmitNext, Shapes
<1>5. CASE EmitDescriptor
  <2> DEFINE items == Append(cfile.items, Descriptor(RunningStruct))
  <2>1. cfile' = [cfile EXCEPT !.items = items] /\ phase = "emit" /\ phase' = "emit"
    BY <1>5 DEF EmitDescriptor
  <2> HIDE DEF items
  <2>2. IsFile(cfile') /\ cfile'.of = cfile.of /\ cfile'.whole = cfile.whole
    BY <1>1, <2>1 DEF Shapes, IsFile
  <2> QED  BY <1>3, <2>1, <2>2
<1>6. CASE VisitField
  <2>1. phase = "emit"  BY <1>6 DEF VisitField
  <2>2. CASE UNCHANGED <<phase, cfile>>
    BY <1>1, <1>3, <2>1, <2>2 DEF Shapes
  <2>3. CASE Fails(TRUE)
    BY <1>1, <2>1, <2>3, Empty
       DEF Fails, IInv, Shapes, RunInv, Trusted, BuildIsCurrent, Ended
  <2> QED  BY <1>6, <2>2, <2>3 DEF VisitField
<1>7. CASE emit_catalog_source
  <2> DEFINE names == CatalogNames
  <2>1. /\ phase = "emit" /\ phase' = "header"
        /\ cfile' = [cfile EXCEPT !.whole = TRUE, !.catalog = names] \/ cfile' = cfile
    BY <1>7 DEF emit_catalog_source
  <2>2. names' = names  BY <1>1 DEF CatalogNames, Structs
  <2> HIDE DEF names
  <2>3. /\ IsFile(cfile') /\ cfile'.of = cfile.of
        /\ cfile'.whole => cfile'.catalog = names \/ cfile.whole
    BY <1>1, <2>1 DEF Shapes, IsFile
  <2> QED
    BY <1>1, <2>1, <2>2, <2>3 DEF IInv, Shapes, RunInv, Trusted, BuildIsCurrent, names, Ended
<1> QED  BY <1>2, <1>4, <1>5, <1>6, <1>7

LEMMA HeaderStep == ASSUME IInv, emit_catalog_header PROVE IInv'
<1> USE DEF Generating, source, files, maker, emission
<1>1. /\ UNCHANGED <<version, p>> /\ Shapes /\ phase = "header"
      /\ (~excused => p.of = version) /\ cfile.of = p.of /\ (cfile.whole => cfile.catalog = CatalogNames)
  BY DEF emit_catalog_header, IInv, RunInv
<1> DEFINE names == CatalogNames
<1>2. CASE /\ phase' = "compile" /\ UNCHANGED <<cfile, excused>>
           /\ hfile' = [NoFile EXCEPT !.of = p.of, !.whole = TRUE, !.catalog = names]
  <2> HIDE DEF names
  <2>1. IsFile(hfile') /\ hfile'.of = p.of /\ hfile'.catalog = names
    BY <1>2 DEF NoFile, IsFile
  <2> QED
    BY <1>1, <1>2, <2>1 DEF IInv, Shapes, RunInv, Trusted, Agree, BuildIsCurrent, Ended, names
<1>3. CASE /\ phase' = "compile" /\ UNCHANGED <<cfile, excused>>
           /\ hfile' = [NoFile EXCEPT !.of = p.of]
  BY <1>1, <1>3, Empty DEF IInv, Shapes, RunInv, Trusted, BuildIsCurrent, Ended
<1>4. CASE Fails(TRUE) /\ excused' = TRUE /\ UNCHANGED hfile
  BY <1>1, <1>4, Empty DEF Fails, IInv, Shapes, RunInv, Trusted, BuildIsCurrent, Ended
<1> QED  BY <1>2, <1>3, <1>4 DEF emit_catalog_header

LEMMA KillStep == ASSUME IInv, Kill PROVE IInv'
<1> USE DEF Generating, source, files, maker, emission
<1>1. /\ UNCHANGED <<version, p>> /\ phase' = "failed" /\ Shapes /\ phase \in Generating
      /\ IF phase \in {"emit", "header"} /\ delete_on_error
         THEN cfile' = NoFile /\ current' = FALSE
         ELSE UNCHANGED <<cfile, current>>
      /\ excused' = (excused \/ phase = "header")
      /\ phase # "header" => hfile' = hfile
      /\ hfile' = hfile \/ hfile' = [NoFile EXCEPT !.of = p.of]
  BY DEF Kill, Fails, IInv
<1>2. IsFile(cfile') /\ IsFile(hfile')  BY <1>1, Empty DEF Shapes
<1>3. excused' \/ (~excused /\ phase # "header")
  BY <1>1
<1>4. CASE excused'
  BY <1>1, <1>2, <1>4 DEF IInv, Shapes, RunInv, Trusted, BuildIsCurrent, Ended
<1>5. CASE ~excused /\ phase # "header"
  <2>1. ~cfile'.whole \/ ~current'
    BY <1>1, <1>5, Empty DEF IInv, RunInv
  <2> QED  BY <1>1, <1>2, <2>1 DEF IInv, Shapes, RunInv, Trusted, BuildIsCurrent, Ended
<1> QED  BY <1>3, <1>4, <1>5

LEMMA EditStep == ASSUME IInv, EditHeader PROVE IInv'
<1> USE DEF Generating, source, files, maker, emission
<1>1. /\ current' = FALSE /\ UNCHANGED <<p, cfile, hfile>> /\ Shapes
  BY DEF EditHeader, IInv
<1>2. CASE phase \in Generating \cup {"compile"}
  <2>1. CatalogNames' = CatalogNames  BY <1>1 DEF CatalogNames, Structs
  <2> QED
    BY <1>1, <1>2, <2>1 DEF EditHeader, IInv, Shapes, RunInv, Trusted, BuildIsCurrent
<1>3. CASE phase \notin Generating \cup {"compile"}
  BY <1>1, <1>3 DEF EditHeader, IInv, Shapes, RunInv, Trusted, BuildIsCurrent, Ended
<1> QED  BY <1>2, <1>3

-----------------------------------------------------------------------------
LEMMA InitInv == Init => IInv
<1> SUFFICES ASSUME Init PROVE IInv
  OBVIOUS
<1>1. DOMAIN p = ParserFields  BY DEF Init, NewParser, ParserFields
<1> QED
  BY <1>1, Empty DEF Init, IInv, Shapes, RunInv, Trusted, BuildIsCurrent, Ended, Generating

LEMMA Invariance == Spec => []IInv
<1>1. IInv /\ [Next]_vars => IInv'
  <2> SUFFICES ASSUME IInv, [Next]_vars PROVE IInv'
    OBVIOUS
  <2>1. CASE struct_meta_gen_emit
    BY <2>1, SourceStep, HeaderStep DEF struct_meta_gen_emit
  <2>2. CASE Compile
    BY <2>2 DEF Compile, IInv, Shapes, RunInv, Trusted, Agree, BuildIsCurrent, Ended, Generating,
                source, files, maker, emission
  <2>3. CASE UNCHANGED vars
    BY <2>3 DEF vars, IInv, Shapes, RunInv, Trusted, Agree, BuildIsCurrent, CatalogNames, Structs
  <2> QED
    BY <2>1, <2>2, <2>3, MakeStep, ParserStep, KillStep, EditStep DEF Next
<1> QED  BY InitInv, <1>1, PTL DEF Spec

\* What is built comes from the header as it is and its two files belong together,
\* whatever runs of the generator failed or were killed and whenever the header was
\* edited, except after a run that ended between its two files or beside an edit.
THEOREM BuiltIsCurrent == Spec => []BuildIsCurrent
<1>1. IInv => BuildIsCurrent  BY DEF IInv
<1> QED  BY <1>1, Invariance, PTL

-----------------------------------------------------------------------------
(* The order of the descriptors: emit_struct as a walk over the list *)

\* What the parser hands over is a list of structures, each with a list of fields.
IsList(structs) == IsSequence(structs) /\ \A i \in DOMAIN structs : IsSequence(structs[i].fields)
ParserInv == IsSequence(p.fields) /\ IsList(p.structs)

Named(structs) == {structs[i].name : i \in DOMAIN structs}

\* The structure struct_list_find returns for its own name.
FirstNamed(structs, i) ==
  i \in DOMAIN structs /\ \A j \in DOMAIN structs : structs[j].name = structs[i].name => i <= j

\* The calls of emit_struct under way are for different structures, none of them emitted,
\* and each is the one its name finds.
CallsDiffer(structs, done, calls) ==
  /\ \A k \in 1..Len(calls) : /\ FirstNamed(structs, calls[k].s)
                              /\ structs[calls[k].s].name \notin done
  /\ \A k, l \in 1..Len(calls) : k # l => calls[k].s # calls[l].s

\* A field a call has passed nests what is emitted, or what the next call is about to emit.
FieldsOut(structs, done, calls) ==
  \A k \in 1..Len(calls) : \A j \in 1..(calls[k].f - 1) :
    LET f == structs[calls[k].s].fields[j]
    IN  f.is_struct => \/ f.type \in done
                       \/ k < Len(calls) /\ f.type = structs[calls[k + 1].s].name

\* The structures before the next one are emitted, but for the one being emitted.
PassedOut(structs, done, calls, n) ==
  \A i \in DOMAIN structs : i < n =>
    structs[i].name \in done \/ (calls # <<>> /\ calls[1].s = i)

Emission(structs, items, done, calls, n) ==
  /\ calls \in Seq([s : DOMAIN structs, f : Nat \ {0}]) /\ n \in Nat \ {0}
  /\ done = Named(items) /\ done \subseteq Named(structs)
  /\ CallsDiffer(structs, done, calls)
  /\ FieldsOut(structs, done, calls)
  /\ PassedOut(structs, done, calls, n)

OrderInv ==
  /\ ParserInv /\ IsSequence(cfile.items)
  /\ phase \in {"parse", "open"} => stack = <<>> /\ emitted = {} /\ next = 1
  /\ phase = "emit" => Emission(Structs, cfile.items, emitted, stack, next)
  /\ NestedFirst

-----------------------------------------------------------------------------
\* Sequences, whatever is in them.
LEMMA Sequence ==
  ASSUME NEW s, IsSequence(s), NEW e
  PROVE  /\ Len(s) \in Nat /\ DOMAIN s = 1..Len(s)
         /\ IsSequence(Append(s, e))
         /\ Len(Append(s, e)) = Len(s) + 1 /\ DOMAIN Append(s, e) = 1..(Len(s) + 1)
         /\ \A i \in 1..Len(s) : Append(s, e)[i] = s[i]
         /\ Append(s, e)[Len(s) + 1] = e
<1> DEFINE S == {s[i] : i \in DOMAIN s}
           T == S \cup {e}
           a == Append(s, e)
<1>1. s \in Seq(S)  BY DEF IsSequence
<1>2. Len(s) \in Nat /\ DOMAIN s = 1..Len(s)  BY <1>1
<1>3. s \in Seq(T) /\ e \in T  BY <1>1, <1>2
<1> HIDE DEF S, T
<1>4. /\ a \in Seq(T) /\ Len(a) = Len(s) + 1 /\ DOMAIN a = 1..(Len(s) + 1)
      /\ \A i \in 1..Len(s) : a[i] = s[i]
      /\ a[Len(s) + 1] = e
  BY <1>2, <1>3
<1> HIDE DEF a
<1>5. IsSequence(a)
  <2> DEFINE R == {a[i] : i \in DOMAIN a}
             n == Len(a)
  <2>1. n \in Nat /\ DOMAIN a = 1..n /\ a = [i \in 1..n |-> a[i]]  BY <1>2, <1>4
  <2>2. \A i \in 1..n : a[i] \in R  BY <2>1
  <2> HIDE DEF R, n
  <2>3. a \in Seq(R)  BY <2>1, <2>2, SeqDef
  <2> QED  BY <2>3 DEF R, IsSequence
<1> QED  BY <1>2, <1>4, <1>5 DEF a

LEMMA EmptyIsSequence == IsSequence(<<>>) /\ IsList(<<>>)
  BY DEF IsSequence, IsList

\* Every set of natural numbers that is not empty has a least one: Min.
LEMMA MinIsLeast ==
  ASSUME NEW S \in SUBSET Nat, S # {}
  PROVE  Min(S) \in S /\ \A m \in S : Min(S) <= m
<1>1. PICK n \in S : \A m \in S : ~(<<m, n>> \in OpToRel(<, Nat))
  BY NatLessThanWellFounded, WFMin
<1>2. \A m \in S : ~(m < n)  BY <1>1 DEF OpToRel
<1>3. \A m \in S : n <= m  BY <1>2
<1> QED  BY <1>3 DEF Min

\* struct_list_find: the first structure of that name, 0 if there is none.
LEMMA FoundIsFirst ==
  ASSUME IsSequence(Structs), NEW name, struct_list_find(name) # 0
  PROVE  /\ FirstNamed(Structs, struct_list_find(name))
         /\ Structs[struct_list_find(name)].name = name
<1> DEFINE found == {i \in DOMAIN Structs : Structs[i].name = name}
<1>1. found # {} /\ struct_list_find(name) = Min(found)  BY DEF struct_list_find
<1>2. found \in SUBSET Nat
  <2>1. Len(Structs) \in Nat /\ DOMAIN Structs = 1..Len(Structs)  BY Sequence
  <2> QED  BY <2>1
<1>3. Min(found) \in found /\ \A m \in found : Min(found) <= m  BY <1>1, <1>2, MinIsLeast
<1> QED  BY <1>1, <1>3 DEF FirstNamed

-----------------------------------------------------------------------------
\* What is reduced and taken leaves the lists of the parser lists.
LEMMA SameLists ==
  ASSUME NEW q, DOMAIN q = ParserFields, IsSequence(q.fields), IsList(q.structs), NEW k
  PROVE  /\ IsSequence(Reduced(q, k).fields) /\ IsList(Reduced(q, k).structs)
         /\ IsSequence(Taken(q, k).fields) /\ IsList(Taken(q, k).structs)
<1>1. IsSequence(Reduced(q, k).fields) /\ IsList(Reduced(q, k).structs)
  <2> DEFINE f == field_create(q, Postfix(k))
             s == struct_create(q, Postfix(k))
             fs == Append(q.fields, f)
             ss == Append(q.structs, s)
  <2>1. Reduced(q, k) = CASE q.at = "fend" -> [q EXCEPT !.fields = fs, !.fdoc = <<>>]
                          [] q.at = "send" -> [q EXCEPT !.structs = ss, !.sdoc = <<>>]
                          [] OTHER -> q
    BY DEF Reduced, struct_list_append
  <2>2. IsSequence(fs)  BY Sequence
  <2>3. IsList(ss)
    <3>1. s.fields = q.fields  BY DEF struct_create
    <3> HIDE DEF s
    <3>2. IsSequence(q.structs)  BY DEF IsList
    <3>3. /\ IsSequence(ss) /\ Len(q.structs) \in Nat
          /\ DOMAIN q.structs = 1..Len(q.structs) /\ DOMAIN ss = 1..(Len(q.structs) + 1)
          /\ \A i \in 1..Len(q.structs) : ss[i] = q.structs[i]
          /\ ss[Len(q.structs) + 1] = s
      BY <3>2, Sequence
    <3> HIDE DEF ss
    <3>4. ASSUME NEW i \in DOMAIN ss PROVE IsSequence(ss[i].fields)
      <4>1. CASE i \in 1..Len(q.structs)  BY <3>3, <4>1 DEF IsList
      <4>2. CASE i = Len(q.structs) + 1  BY <3>1, <3>3, <4>2
      <4> QED  BY <3>3, <4>1, <4>2
    <3> QED  BY <3>3, <3>4 DEF IsList
  <2> HIDE DEF fs, ss
  <2> QED  BY <2>1, <2>2, <2>3 DEF ParserFields
<1>2. Taken(q, k).fields \in {q.fields, <<>>} /\ Taken(q, k).structs = q.structs
  BY DEF Taken, ParserFields
<1> QED  BY <1>1, <1>2, EmptyIsSequence

\* A step of the parser touches neither the calls of emit_struct nor the files, but for a
\* target that make deletes.
LEMMA OrderParse ==
  ASSUME IInv, OrderInv, yyparse
  PROVE  OrderInv'
<1> USE DEF source, files, maker, emission, Parsing
<1>1. /\ phase = "parse" /\ DOMAIN p = ParserFields /\ UNCHANGED emission
      /\ phase' \in {"parse", "open", "failed"}
      /\ cfile' = cfile
      /\ IsSequence(p.fields) /\ IsList(p.structs)
  BY DEF yyparse, Shift, SyntaxError, Recover, PointerMember, ParseFails, Accept, Fails,
         IInv, Shapes, OrderInv, ParserInv
<1>2. ParserInv'
  <2>1. CASE Shift
    <3> DEFINE k == Lookahead
               at == Grammar[p.at][k.t]
               rest == Rest
               r == Reduced(p, k)
               q == Taken(r, k)
    <3>1. p' = [q EXCEPT !.at = at, !.input = rest]  BY <2>1 DEF Shift
    <3>2. DOMAIN r = ParserFields /\ IsSequence(r.fields) /\ IsList(r.structs)
      BY <1>1, SameHeader, SameLists
    <3> HIDE DEF r
    <3>3. DOMAIN q = ParserFields /\ IsSequence(q.fields) /\ IsList(q.structs)
      BY <3>2, SameHeader, SameLists
    <3> HIDE DEF q, at, rest
    <3>4. p'.fields = q.fields /\ p'.structs = q.structs  BY <3>1, <3>3 DEF ParserFields
    <3> QED  BY <3>3, <3>4 DEF ParserInv
  <2>2. CASE SyntaxError
    <3> DEFINE q == Reduced(p, Lookahead)
    <3>1. p' = [q EXCEPT !.at = "recover", !.sdoc = <<>>, !.fdoc = <<>>, !.fields = <<>>]
      BY <2>2 DEF SyntaxError
    <3>2. DOMAIN q = ParserFields /\ IsList(q.structs)  BY <1>1, SameHeader, SameLists
    <3> HIDE DEF q
    <3>3. p'.fields = <<>> /\ p'.structs = q.structs  BY <3>1, <3>2 DEF ParserFields
    <3> QED  BY <3>2, <3>3, EmptyIsSequence DEF ParserInv
  <2>3. CASE Recover
    <3> DEFINE at == IF Lookahead.t = "SEMI" THEN "top" ELSE "recover"
               rest == Rest
    <3>1. p' = [p EXCEPT !.input = rest, !.at = at]  BY <2>3 DEF Recover
    <3> HIDE DEF at, rest
    <3>2. p'.fields = p.fields /\ p'.structs = p.structs  BY <1>1, <3>1 DEF ParserFields
    <3> QED  BY <1>1, <3>2 DEF ParserInv
  <2>4. CASE PointerMember \/ ParseFails
    <3>1. p' = p  BY <2>4 DEF PointerMember, ParseFails
    <3> QED  BY <1>1, <3>1 DEF ParserInv
  <2>5. CASE Accept
    <3>1. p' = Reduced(p, EOF)  BY <2>5 DEF Accept
    <3>2. IsSequence(p'.fields) /\ IsList(p'.structs)  BY <1>1, <3>1, SameLists
    <3> QED  BY <3>2 DEF ParserInv
  <2> QED  BY <2>1, <2>2, <2>3, <2>4, <2>5 DEF yyparse
<1> QED  BY <1>1, <1>2 DEF OrderInv, NestedFirst

-----------------------------------------------------------------------------
\* What the walk needs of a list of structures.
LEMMA ListFacts ==
  ASSUME ParserInv
  PROVE  /\ Len(Structs) \in Nat /\ DOMAIN Structs = 1..Len(Structs) /\ IsSequence(Structs)
         /\ \A i \in DOMAIN Structs :
              Len(Structs[i].fields) \in Nat
                /\ DOMAIN Structs[i].fields = 1..Len(Structs[i].fields)
<1>1. IsSequence(Structs)  BY DEF ParserInv, IsList, Structs
<1>2. \A i \in DOMAIN Structs : IsSequence(Structs[i].fields)  BY DEF ParserInv, IsList, Structs
<1> QED  BY <1>1, <1>2, Sequence

Calls == [s : DOMAIN Structs, f : Nat \ {0}]

\* The running call and what AdvanceField makes of the calls.
LEMMA Advanced ==
  ASSUME stack \in Seq(Calls), stack # <<>>
  PROVE  /\ Len(stack) \in Nat \ {0} /\ Running = stack[Len(stack)] /\ Running \in Calls
         /\ Running.f \in Nat \ {0}
         /\ AdvanceField \in Seq(Calls) /\ Len(AdvanceField) = Len(stack)
         /\ \A k \in 1..Len(stack) : AdvanceField[k].s = stack[k].s
         /\ \A k \in 1..(Len(stack) - 1) : AdvanceField[k] = stack[k]
         /\ AdvanceField[Len(stack)].f = Running.f + 1
<1> DEFINE n == Len(stack)
           e == [stack[n] EXCEPT !.f = @ + 1]
<1>1. n \in Nat \ {0} /\ DOMAIN stack = 1..n /\ \A k \in 1..n : stack[k] \in Calls
  BY EmptySeq
<1>2. Running = stack[n] /\ Running \in Calls /\ Running.f \in Nat \ {0}
  BY <1>1 DEF Running, Last, Calls
<1>3. e \in Calls /\ e.s = stack[n].s /\ e.f = Running.f + 1  BY <1>1, <1>2 DEF Calls
<1>4. AdvanceField = [stack EXCEPT ![n] = e]  BY DEF AdvanceField
<1>n. n \in 1..n /\ \A k \in 1..(n - 1) : k \in 1..n /\ k # n
  <2>1. n \in Nat \ {0}  BY <1>1
  <2> HIDE DEF n
  <2> QED  BY <2>1
<1> HIDE DEF e, n
<1>5. /\ AdvanceField \in Seq(Calls) /\ Len(AdvanceField) = n
      /\ AdvanceField[n] = e /\ \A k \in 1..n : k # n => AdvanceField[k] = stack[k]
  <2>1. n \in 1..Len(stack) /\ e \in Calls /\ n = Len(stack)  BY <1>n, <1>3 DEF n
  <2>2. /\ AdvanceField \in Seq(Calls) /\ Len(AdvanceField) = n
        /\ \A k \in 1..n : AdvanceField[k] = IF k = n THEN e ELSE stack[k]
    BY <1>4, <2>1, ExceptSeq
  <2> QED  BY <1>n, <2>2
<1>6. \A k \in 1..n : AdvanceField[k].s = stack[k].s  BY <1>1, <1>3, <1>5
<1>7. \A k \in 1..(n - 1) : AdvanceField[k] = stack[k]  BY <1>n, <1>5
<1> QED  BY <1>1, <1>2, <1>3, <1>5, <1>6, <1>7 DEF n

\* A field that nests nothing new is passed.
LEMMA OrderAdvance ==
  ASSUME ParserInv, stack # <<>>, Emission(Structs, cfile.items, emitted, stack, next),
         LET f == RunningStruct.fields[Running.f] IN f.is_struct => f.type \in emitted
  PROVE  Emission(Structs, cfile.items, emitted, AdvanceField, next)
<1>1. stack \in Seq(Calls)  BY DEF Emission, Calls
<1>2. /\ Len(stack) \in Nat \ {0} /\ Running = stack[Len(stack)] /\ Running.f \in Nat \ {0}
      /\ AdvanceField \in Seq(Calls) /\ Len(AdvanceField) = Len(stack)
      /\ \A k \in 1..Len(stack) : AdvanceField[k].s = stack[k].s
      /\ \A k \in 1..(Len(stack) - 1) : AdvanceField[k] = stack[k]
      /\ AdvanceField[Len(stack)].f = Running.f + 1
  BY <1>1, Advanced
<1>3. CallsDiffer(Structs, emitted, AdvanceField)  BY <1>2 DEF Emission, CallsDiffer
<1>4. FieldsOut(Structs, emitted, AdvanceField)
  <2> SUFFICES ASSUME NEW k \in 1..Len(stack), NEW j \in 1..(AdvanceField[k].f - 1),
                      Structs[stack[k].s].fields[j].is_struct
               PROVE  \/ Structs[stack[k].s].fields[j].type \in emitted
                      \/ /\ k < Len(stack)
                         /\ Structs[stack[k].s].fields[j].type = Structs[stack[k + 1].s].name
    <3>1. \A k \in 1..Len(stack) : k < Len(stack) => k + 1 \in 1..Len(stack)  BY <1>2
    <3> QED  BY <1>2, <3>1 DEF FieldsOut
  <2>1. CASE k # Len(stack)
    <3>1. k \in 1..(Len(stack) - 1)  BY <1>2, <2>1
    <3>2. j \in 1..(stack[k].f - 1)  BY <1>2, <3>1
    <3> QED  BY <3>2 DEF Emission, FieldsOut
  <2>2. CASE k = Len(stack) /\ j # Running.f
    <3>1. j \in 1..(stack[k].f - 1)
      <4>1. AdvanceField[k].f = Running.f + 1  BY <1>2, <2>2
      <4> QED  BY <1>2, <2>2, <4>1
    <3> QED  BY <3>1 DEF Emission, FieldsOut
  <2>3. CASE k = Len(stack) /\ j = Running.f
    <3>1. Structs[stack[k].s] = RunningStruct  BY <1>2, <2>3 DEF RunningStruct
    <3> QED  BY <2>3, <3>1
  <2> QED  BY <2>1, <2>2, <2>3
<1>5. PassedOut(Structs, emitted, AdvanceField, next)
  <2>1. AdvanceField # <<>> /\ AdvanceField[1].s = stack[1].s
    <3>1. 1 \in 1..Len(stack)  BY <1>2
    <3> QED  BY <1>2, <3>1, EmptySeq
  <2> QED  BY <2>1 DEF Emission, PassedOut
<1> QED  BY <1>2, <1>3, <1>4, <1>5 DEF Emission, Calls

\* emit_struct calls itself for a structure that is not emitted and not under way.
LEMMA OrderDescend ==
  ASSUME ParserInv, stack # <<>>, Emission(Structs, cfile.items, emitted, stack, next),
         NEW i, FirstNamed(Structs, i), Structs[i].name \notin emitted,
         \A k \in DOMAIN stack : stack[k].s # i,
         RunningStruct.fields[Running.f].type = Structs[i].name
  PROVE  Emission(Structs, cfile.items, emitted, Append(AdvanceField, Frame(i)), next)
<1> DEFINE t == Append(AdvanceField, Frame(i))
           n == Len(stack)
<1>1. stack \in Seq(Calls)  BY DEF Emission, Calls
<1>2. /\ n \in Nat \ {0} /\ Running = stack[n] /\ Running.f \in Nat \ {0}
      /\ AdvanceField \in Seq(Calls) /\ Len(AdvanceField) = n
      /\ \A k \in 1..n : AdvanceField[k].s = stack[k].s
      /\ \A k \in 1..(n - 1) : AdvanceField[k] = stack[k]
      /\ AdvanceField[n].f = Running.f + 1
  BY <1>1, Advanced
<1>3. Frame(i) \in Calls /\ Frame(i).s = i /\ Frame(i).f = 1
  BY DEF Frame, Calls, FirstNamed
<1>4. /\ t \in Seq(Calls) /\ Len(t) = n + 1 /\ t # <<>>
      /\ \A k \in 1..n : t[k].s = stack[k].s /\ t[k].f = AdvanceField[k].f
      /\ t[n + 1].s = i /\ t[n + 1].f = 1
  <2>1. /\ t \in Seq(Calls) /\ Len(t) = n + 1
        /\ \A k \in 1..n : t[k] = AdvanceField[k]
        /\ t[n + 1] = Frame(i)
    BY <1>2, <1>3
  <2> HIDE DEF t
  <2> QED  BY <1>2, <1>3, <2>1, EmptySeq
<1> HIDE DEF t
<1>5. CallsDiffer(Structs, emitted, t)
  <2>1. \A k \in 1..n : FirstNamed(Structs, stack[k].s) /\ Structs[stack[k].s].name \notin emitted
    BY DEF Emission, CallsDiffer
  <2>2. \A k, l \in 1..n : k # l => stack[k].s # stack[l].s  BY DEF Emission, CallsDiffer
  <2>3. \A k \in 1..n : stack[k].s # i  BY <1>1
  <2>4. \A k \in 1..Len(t) : k \in 1..n \/ k = n + 1  BY <1>2, <1>4
  <2>5. \A k, l \in 1..Len(t) : k # l => t[k].s # t[l].s
    <3> SUFFICES ASSUME NEW k \in 1..Len(t), NEW l \in 1..Len(t), k # l PROVE t[k].s # t[l].s
      OBVIOUS
    <3> QED  BY <1>4, <2>2, <2>3, <2>4
  <2> QED  BY <1>4, <2>1, <2>4, <2>5 DEF CallsDiffer
<1>6. FieldsOut(Structs, emitted, t)
  <2> SUFFICES ASSUME NEW k \in 1..(n + 1), NEW j \in 1..(t[k].f - 1),
                      Structs[t[k].s].fields[j].is_struct
               PROVE  \/ Structs[t[k].s].fields[j].type \in emitted
                      \/ /\ k < n + 1
                         /\ Structs[t[k].s].fields[j].type = Structs[t[k + 1].s].name
    BY <1>4 DEF FieldsOut
  <2>1. k # n + 1  BY <1>2, <1>4
  <2>2. k \in 1..n /\ k + 1 \in 1..(n + 1)  BY <1>2, <2>1
  <2>3. CASE k # n
    <3>1. k \in 1..(n - 1) /\ k + 1 \in 1..n  BY <1>2, <2>2, <2>3
    <3>2. j \in 1..(stack[k].f - 1) /\ t[k].s = stack[k].s /\ t[k + 1].s = stack[k + 1].s
      BY <1>2, <1>4, <2>2, <3>1
    <3>3. k < n + 1  BY <1>2, <2>2
    <3> QED  BY <2>2, <3>2, <3>3 DEF Emission, FieldsOut
  <2>4. CASE k = n
    <3>0. n \in 1..n  BY <1>2
    <3>1. t[n].s = Running.s /\ t[n].f = Running.f + 1  BY <1>2, <1>4, <3>0
    <3>2. CASE j = Running.f
      <4>1. Structs[t[k].s].fields[j].type = Structs[i].name
        BY <2>4, <3>1, <3>2 DEF RunningStruct
      <4> QED  BY <1>2, <1>4, <2>4, <4>1
    <3>3. CASE j # Running.f
      <4>1. j \in 1..(stack[n].f - 1)  BY <1>2, <2>4, <3>1, <3>3
      <4>2. Structs[stack[n].s].fields[j].type \in emitted
        BY <1>2, <1>4, <2>2, <2>4, <4>1 DEF Emission, FieldsOut
      <4> QED  BY <1>2, <2>4, <3>1, <4>2
    <3> QED  BY <3>2, <3>3
  <2> QED  BY <2>3, <2>4
<1>7. PassedOut(Structs, emitted, t, next)
  <2>1. 1 \in 1..n /\ t[1].s = stack[1].s  BY <1>2, <1>4
  <2> QED  BY <1>4, <2>1 DEF Emission, PassedOut
<1>8. t \in Seq([s : DOMAIN Structs, f : Nat \ {0}])  BY <1>4 DEF Calls
<1> QED  BY <1>5, <1>6, <1>7, <1>8 DEF Emission, t

\* The calls without the running one.
LEMMA CallReturns ==
  ASSUME stack \in Seq(Calls), stack # <<>>
  PROVE  /\ Front(stack) \in Seq(Calls) /\ Len(Front(stack)) = Len(stack) - 1
         /\ \A k \in 1..(Len(stack) - 1) : Front(stack)[k] = stack[k] /\ k \in 1..Len(stack)
         /\ Front(stack) # <<>> => Len(stack) # 1 /\ Front(stack)[1] = stack[1]
<1> DEFINE n == Len(stack) - 1
<1>1. Len(stack) \in Nat \ {0} /\ \A k \in 1..Len(stack) : stack[k] \in Calls  BY EmptySeq
<1>2. n \in Nat /\ n + 1 = Len(stack) /\ \A k \in 1..n : k \in 1..Len(stack)  BY <1>1
<1>3. \A k \in 1..n : stack[k] \in Calls  BY <1>1, <1>2
<1>4. Front(stack) = SubSeq(stack, 1, n)  BY DEF Front
<1> HIDE DEF n
<1>5. /\ Front(stack) \in Seq(Calls) /\ Len(Front(stack)) = n
      /\ \A k \in 1..n : Front(stack)[k] = stack[k]
  <2>1. /\ SubSeq(stack, 1, n) \in Seq(Calls)
        /\ Len(SubSeq(stack, 1, n)) = IF 1 <= n THEN n - 1 + 1 ELSE 0
        /\ \A k \in 1..(n - 1 + 1) : SubSeq(stack, 1, n)[k] = stack[1 + k - 1]
    BY <1>2, <1>3, SubSeqProperties
  <2>2. (IF 1 <= n THEN n - 1 + 1 ELSE 0) = n /\ n - 1 + 1 = n  BY <1>2
  <2>3. \A k \in 1..n : 1 + k - 1 = k  BY <1>2
  <2> QED  BY <1>4, <2>1, <2>2, <2>3
<1>6. Front(stack) # <<>> => 1 \in 1..n  BY <1>2, <1>5, EmptySeq
<1> QED  BY <1>1, <1>2, <1>5, <1>6 DEF n

\* The structures of all members are emitted: so is, now, the structure itself.
LEMMA OrderReturn ==
  ASSUME ParserInv, stack # <<>>, NestedFirst, IsSequence(cfile.items),
         Emission(Structs, cfile.items, emitted, stack, next),
         Running.f > Len(RunningStruct.fields),
         NEW items, items = Append(cfile.items, Descriptor(RunningStruct)),
         NEW done, done = emitted \cup {RunningStruct.name}
  PROVE  /\ Emission(Structs, items, done, Front(stack), next)
         /\ IsSequence(items)
         /\ \A i \in DOMAIN items : \A k \in DOMAIN items[i].fields :
              LET nested == items[i].fields[k].nested
              IN  nested # "" => \E j \in 1..(i - 1) : items[j].name = nested
         /\ \A i, j \in DOMAIN items : i # j => items[i].name # items[j].name
<1> DEFINE n == Len(stack)
           m == Len(cfile.items)
           d == Descriptor(RunningStruct)
           calls == Front(stack)
<1>1. stack \in Seq(Calls)  BY DEF Emission, Calls
<1>2. /\ n \in Nat \ {0} /\ Running = stack[n] /\ Running \in Calls
      /\ Running.f \in Nat \ {0}
  BY <1>1, Advanced
<1>3. /\ calls \in Seq(Calls) /\ Len(calls) = n - 1
      /\ \A k \in 1..(n - 1) : calls[k] = stack[k] /\ k \in 1..n
      /\ calls # <<>> => n # 1 /\ calls[1] = stack[1]
  BY <1>1, CallReturns
<1>4. /\ m \in Nat /\ DOMAIN cfile.items = 1..m
      /\ IsSequence(items) /\ Len(items) = m + 1 /\ DOMAIN items = 1..(m + 1)
      /\ \A i \in 1..m : items[i] = cfile.items[i]
      /\ items[m + 1] = d
  BY Sequence
<1>5. /\ d.name = RunningStruct.name
      /\ DOMAIN d.fields = DOMAIN RunningStruct.fields
      /\ \A k \in DOMAIN d.fields :
           LET f == RunningStruct.fields[k]
           IN  d.fields[k].nested = IF f.is_struct THEN f.type ELSE ""
  BY DEF Descriptor, Described
<1>6. /\ Running.s \in DOMAIN Structs /\ RunningStruct = Structs[Running.s]
      /\ FirstNamed(Structs, Running.s) /\ RunningStruct.name \notin emitted
      /\ Len(RunningStruct.fields) \in Nat
      /\ DOMAIN RunningStruct.fields = 1..Len(RunningStruct.fields)
  <2>1. n \in 1..n  BY <1>2
  <2>2. FirstNamed(Structs, Running.s) /\ Structs[Running.s].name \notin emitted
    BY <1>2, <2>1 DEF Emission, CallsDiffer
  <2> QED  BY <2>2, ListFacts DEF FirstNamed, RunningStruct
<1> HIDE DEF n, m, d, calls
<1>n. n = Len(stack)  BY DEF n
<1>7. ASSUME NEW k \in DOMAIN RunningStruct.fields, RunningStruct.fields[k].is_struct
      PROVE  RunningStruct.fields[k].type \in emitted
  <2>1. k \in 1..(stack[n].f - 1)  BY <1>2, <1>6
  <2>2. n \in 1..Len(stack) /\ ~(n < Len(stack))  BY <1>2, <1>n
  <2>3. Structs[stack[n].s] = RunningStruct  BY <1>2 DEF RunningStruct
  <2> QED  BY <1>7, <2>1, <2>2, <2>3 DEF Emission, FieldsOut
<1>8. emitted = Named(cfile.items) /\ emitted \subseteq Named(Structs)  BY DEF Emission
<1>9. done = Named(items) /\ done \subseteq Named(Structs)
  <2>1. Named(items) = Named(cfile.items) \cup {d.name}
    <3>1. m + 1 \in 1..(m + 1) /\ \A i \in 1..(m + 1) : i \in 1..m \/ i = m + 1  BY <1>4
    <3>2. \A i \in 1..m : i \in 1..(m + 1)  BY <1>4
    <3> QED  BY <1>4, <3>1, <3>2 DEF Named
  <2> QED  BY <1>5, <1>6, <1>8, <2>1 DEF Named
<1>10. \A i, j \in DOMAIN items : i # j => items[i].name # items[j].name
  <2>1. \A i, j \in 1..m : i # j => items[i].name # items[j].name
    BY <1>4 DEF NestedFirst
  <2>2. \A i \in 1..m : items[i].name # items[m + 1].name
    BY <1>4, <1>5, <1>6, <1>8 DEF Named
  <2>3. \A i \in 1..(m + 1) : i \in 1..m \/ i = m + 1  BY <1>4
  <2> QED  BY <1>4, <2>1, <2>2, <2>3
<1>11. ASSUME NEW i \in DOMAIN items, NEW k \in DOMAIN items[i].fields,
              items[i].fields[k].nested # ""
       PROVE  \E j \in 1..(i - 1) : items[j].name = items[i].fields[k].nested
  <2>1. CASE i \in 1..m
    <3>0. /\ items[i] = cfile.items[i] /\ i \in DOMAIN cfile.items
          /\ k \in DOMAIN cfile.items[i].fields /\ cfile.items[i].fields[k].nested # ""
      BY <1>4, <1>11, <2>1
    <3>1. PICK j \in 1..(i - 1) : cfile.items[j].name = cfile.items[i].fields[k].nested
      BY <3>0 DEF NestedFirst
    <3>2. j \in 1..m  BY <1>4, <2>1
    <3> QED  BY <1>4, <3>0, <3>1, <3>2
  <2>2. CASE i = m + 1
    <3>1. k \in DOMAIN RunningStruct.fields /\ RunningStruct.fields[k].is_struct
          /\ items[i].fields[k].nested = RunningStruct.fields[k].type
      BY <1>4, <1>5, <1>11, <2>2
    <3>2. PICK j \in 1..m : cfile.items[j].name = items[i].fields[k].nested
      BY <1>4, <1>7, <1>8, <3>1 DEF Named
    <3>3. j \in 1..(i - 1) /\ items[j] = cfile.items[j]  BY <1>4, <2>2, <3>2
    <3> QED  BY <3>2, <3>3
  <2>3. i \in 1..m \/ i = m + 1  BY <1>4
  <2> QED  BY <2>1, <2>2, <2>3
<1>12. CallsDiffer(Structs, done, calls)
  <2>1. ASSUME NEW k \in 1..Len(calls)
        PROVE  FirstNamed(Structs, calls[k].s) /\ Structs[calls[k].s].name \notin done
    <3>1. k \in 1..(n - 1) /\ calls[k] = stack[k] /\ k \in 1..n /\ n \in 1..n /\ k # n
      BY <1>2, <1>3, <2>1
    <3>2. /\ FirstNamed(Structs, stack[k].s) /\ Structs[stack[k].s].name \notin emitted
          /\ stack[k].s # stack[n].s
      BY <1>n, <3>1 DEF Emission, CallsDiffer
    <3>3. Structs[stack[k].s].name # RunningStruct.name
      <4>1. /\ stack[k].s \in DOMAIN Structs /\ Running.s \in DOMAIN Structs
            /\ stack[k].s # Running.s
        BY <1>2, <1>6, <3>2 DEF FirstNamed
      <4>2. stack[k].s \in Nat /\ Running.s \in Nat  BY <4>1, ListFacts
      <4>3. Structs[stack[k].s].name = RunningStruct.name =>
               stack[k].s <= Running.s /\ Running.s <= stack[k].s
        BY <1>6, <3>2, <4>1 DEF FirstNamed
      <4> QED  BY <4>1, <4>2, <4>3
    <3> QED  BY <3>1, <3>2, <3>3
  <2>2. ASSUME NEW k \in 1..Len(calls), NEW l \in 1..Len(calls), k # l
        PROVE  calls[k].s # calls[l].s
    <3>1. k \in 1..n /\ l \in 1..n /\ calls[k] = stack[k] /\ calls[l] = stack[l]
      BY <1>3, <2>2
    <3> QED  BY <1>n, <2>2, <3>1 DEF Emission, CallsDiffer
  <2> QED  BY <2>1, <2>2 DEF CallsDiffer
<1>13. FieldsOut(Structs, done, calls)
  <2> SUFFICES ASSUME NEW k \in 1..Len(calls), NEW j \in 1..(calls[k].f - 1),
                      Structs[calls[k].s].fields[j].is_struct
               PROVE  \/ Structs[calls[k].s].fields[j].type \in done
                      \/ /\ k < Len(calls)
                         /\ Structs[calls[k].s].fields[j].type = Structs[calls[k + 1].s].name
    BY DEF FieldsOut
  <2>1. k \in 1..n /\ calls[k] = stack[k] /\ k \in 1..(n - 1)  BY <1>3
  <2>2. \/ Structs[stack[k].s].fields[j].type \in emitted
        \/ Structs[stack[k].s].fields[j].type = Structs[stack[k + 1].s].name
    BY <1>n, <2>1 DEF Emission, FieldsOut
  <2>3. CASE k + 1 = n
    <3>1. Structs[stack[k + 1].s].name = RunningStruct.name
      BY <1>2, <2>3 DEF RunningStruct
    <3> QED  BY <2>1, <2>2, <3>1
  <2>4. CASE k + 1 # n
    <3>1. k + 1 \in 1..(n - 1) /\ k < Len(calls)  BY <1>2, <1>3, <2>1, <2>4
    <3>2. calls[k + 1] = stack[k + 1]  BY <1>3, <3>1
    <3> QED  BY <2>1, <2>2, <3>1, <3>2
  <2> QED  BY <2>3, <2>4
<1>14. PassedOut(Structs, done, calls, next)
  <2> SUFFICES ASSUME NEW i \in DOMAIN Structs, i < next
               PROVE  Structs[i].name \in done \/ (calls # <<>> /\ calls[1].s = i)
    BY DEF PassedOut
  <2>1. Structs[i].name \in emitted \/ stack[1].s = i  BY DEF Emission, PassedOut
  <2>2. CASE calls # <<>>  BY <1>3, <2>1, <2>2
  <2>3. CASE calls = <<>>
    <3>1. n = 1
      <4>1. Len(calls) = 0  BY <1>3, <2>3, EmptySeq
      <4> QED  BY <1>2, <1>3, <4>1
    <3>2. Structs[stack[1].s] = RunningStruct  BY <1>2, <3>1 DEF RunningStruct
    <3> QED  BY <2>1, <3>2
  <2> QED  BY <2>2, <2>3
<1>15. Emission(Structs, items, done, calls, next)
  BY <1>3, <1>9, <1>12, <1>13, <1>14 DEF Emission, Calls
<1> QED  BY <1>4, <1>10, <1>11, <1>15 DEF calls

\* The next structure of the list, if it is not emitted yet, is the first of its name.
LEMMA OrderNext ==
  ASSUME ParserInv, stack = <<>>, next <= Len(Structs),
         Emission(Structs, cfile.items, emitted, stack, next)
  PROVE  Emission(Structs, cfile.items, emitted,
                  IF Structs[next].name \in emitted THEN <<>> ELSE <<Frame(next)>>, next + 1)
<1>1. /\ Len(Structs) \in Nat /\ DOMAIN Structs = 1..Len(Structs) /\ next \in Nat \ {0}
      /\ next \in DOMAIN Structs
  BY ListFacts DEF Emission
<1>2. \A i \in DOMAIN Structs : i < next => Structs[i].name \in emitted
  BY DEF Emission, PassedOut
<1>3. \A i \in DOMAIN Structs : i < next + 1 => i < next \/ i = next  BY <1>1
<1>4. CASE Structs[next].name \in emitted
  <2>1. PassedOut(Structs, emitted, <<>>, next + 1)  BY <1>2, <1>3, <1>4 DEF PassedOut
  <2> QED  BY <1>1, <1>4, <2>1 DEF Emission, CallsDiffer, FieldsOut
<1>5. CASE Structs[next].name \notin emitted
  <2> DEFINE t == <<Frame(next)>>
  <2>1. Frame(next) \in Calls /\ Frame(next).s = next /\ Frame(next).f = 1
    BY <1>1 DEF Frame, Calls
  <2>2. t \in Seq(Calls) /\ Len(t) = 1 /\ t[1].s = next /\ t[1].f = 1 /\ t # <<>>  BY <2>1
  <2> HIDE DEF t
  <2>3. FirstNamed(Structs, next)
    <3>1. \A j \in DOMAIN Structs : j < next \/ next <= j  BY <1>1
    <3> QED  BY <1>1, <1>2, <1>5, <3>1 DEF FirstNamed
  <2>4. \A k \in 1..Len(t) : k = 1  BY <2>2
  <2>5. CallsDiffer(Structs, emitted, t)  BY <1>5, <2>2, <2>3, <2>4 DEF CallsDiffer
  <2>6. FieldsOut(Structs, emitted, t)  BY <2>2, <2>4 DEF FieldsOut
  <2>7. PassedOut(Structs, emitted, t, next + 1)  BY <1>2, <1>3, <2>2 DEF PassedOut
  <2> QED  BY <1>1, <1>5, <2>2, <2>5, <2>6, <2>7 DEF Emission, Calls, t
<1> QED  BY <1>4, <1>5

-----------------------------------------------------------------------------
\* What the file holds of the order of the descriptors; an emptied file holds nothing.
LEMMA NothingInOrder ==
  ASSUME NEW v, cfile' = NoFile \/ cfile' = [NoFile EXCEPT !.of = v]
  PROVE  NestedFirst' /\ IsSequence(cfile'.items) /\ cfile'.items = <<>>
<1>1. cfile'.items = <<>> /\ ~cfile'.whole  BY DEF NoFile
<1> QED  BY <1>1, EmptyIsSequence DEF NestedFirst

LEMMA SameOrder ==
  ASSUME OrderInv, cfile' = cfile
  PROVE  NestedFirst' /\ IsSequence(cfile'.items)
  BY DEF OrderInv, NestedFirst

\* A run that fails keeps the order of what is in the file, or make deletes the file.
LEMMA OrderFails ==
  ASSUME OrderInv, NEW touched, Fails(touched), UNCHANGED p
  PROVE  OrderInv'
<1>1. phase' = "failed" /\ (cfile' = cfile \/ cfile' = NoFile)  BY DEF Fails
<1>2. NestedFirst' /\ IsSequence(cfile'.items)  BY <1>1, SameOrder, NothingInOrder
<1> QED  BY <1>1, <1>2 DEF OrderInv, ParserInv

\* Each step of struct_meta_gen_emit keeps the order.
LEMMA OrderEmit ==
  ASSUME IInv, OrderInv, struct_meta_gen_emit
  PROVE  OrderInv'
<1> USE DEF source, files, maker, emission
<1>0. p' = p /\ ParserInv' /\ ParserInv /\ Structs' = Structs /\ CatalogNames' = CatalogNames
  <2>1. p' = p
    BY DEF struct_meta_gen_emit, OpenSource, EmitNext, VisitField, EmitDescriptor,
           emit_catalog_source, emit_catalog_header
  <2> QED  BY <2>1 DEF OrderInv, ParserInv, Structs, CatalogNames
<1>1. CASE OpenSource
  <2>1. CASE phase' = "emit" /\ cfile' = [NoFile EXCEPT !.of = p.of]
    <3>1. stack' = <<>> /\ emitted' = {} /\ next' = 1
      BY <1>1 DEF OpenSource, OrderInv
    <3>2. NestedFirst' /\ IsSequence(cfile'.items) /\ cfile'.items = <<>>
      BY <2>1, NothingInOrder
    <3>3. PassedOut(Structs, {}, <<>>, 1)
      <4>1. \A i \in DOMAIN Structs : ~(i < 1)  BY <1>0, ListFacts
      <4> QED  BY <4>1 DEF PassedOut
    <3>4. Emission(Structs, <<>>, {}, <<>>, 1)
      BY <3>3 DEF Emission, CallsDiffer, FieldsOut, Named
    <3> QED  BY <1>0, <2>1, <3>1, <3>2, <3>4 DEF OrderInv
  <2>2. CASE Fails(FALSE)  BY <1>0, <2>2, OrderFails
  <2> QED  BY <1>1, <2>1, <2>2 DEF OpenSource
<1>2. CASE EmitNext
  <2>1. /\ phase = "emit" /\ phase' = "emit" /\ cfile' = cfile /\ emitted' = emitted
        /\ stack = <<>> /\ next <= Len(Structs) /\ next' = next + 1
        /\ stack' = IF Structs[next].name \in emitted THEN <<>> ELSE <<Frame(next)>>
    BY <1>2 DEF EmitNext
  <2>2. Emission(Structs, cfile.items, emitted, stack', next')
    BY <1>0, <2>1, OrderNext DEF OrderInv
  <2> QED  BY <1>0, <2>1, <2>2, SameOrder DEF OrderInv
<1>3. CASE VisitField
  <2> DEFINE f == RunningStruct.fields[Running.f]
             nested == struct_list_find(f.type)
  <2>1. /\ phase = "emit" /\ stack # <<>> /\ emitted' = emitted /\ next' = next
        /\ Emission(Structs, cfile.items, emitted, stack, next)
    BY <1>3 DEF VisitField, OrderInv
  <2>2. CASE Fails(TRUE)  BY <1>0, <2>2, OrderFails
  <2>3. ASSUME UNCHANGED <<phase, cfile>>,
               Emission(Structs, cfile.items, emitted, stack', next)
        PROVE  OrderInv'
    BY <1>0, <2>1, <2>3, SameOrder DEF OrderInv
  <2>4. CASE /\ ~f.is_struct \/ (nested # 0 /\ f.type \in emitted)
             /\ stack' = AdvanceField /\ UNCHANGED <<phase, cfile>>
    BY <1>0, <2>1, <2>3, <2>4, OrderAdvance
  <2>5. CASE /\ nested # 0 /\ f.type \notin emitted
             /\ ~(\E i \in DOMAIN stack : stack[i].s = nested)
             /\ stack' = Append(AdvanceField, Frame(nested)) /\ UNCHANGED <<phase, cfile>>
    <3>1. IsSequence(Structs)  BY <1>0, ListFacts
    <3>2. FirstNamed(Structs, nested) /\ Structs[nested].name = f.type
      BY <2>5, <3>1, FoundIsFirst
    <3>3. Emission(Structs, cfile.items, emitted, stack', next)
      BY <1>0, <2>1, <2>5, <3>2, OrderDescend
    <3> QED  BY <2>3, <2>5, <3>3
  <2>6. \/ /\ ~f.is_struct \/ (nested # 0 /\ f.type \in emitted)
           /\ stack' = AdvanceField /\ UNCHANGED <<phase, cfile>>
        \/ Fails(TRUE)
        \/ /\ nested # 0 /\ f.type \notin emitted
           /\ ~(\E i \in DOMAIN stack : stack[i].s = nested)
           /\ stack' = Append(AdvanceField, Frame(nested)) /\ UNCHANGED <<phase, cfile>>
    BY <1>3 DEF VisitField
  <2> QED  BY <2>2, <2>4, <2>5, <2>6
<1>4. CASE EmitDescriptor
  <2> DEFINE items == Append(cfile.items, Descriptor(RunningStruct))
  <2>1. /\ phase = "emit" /\ phase' = "emit" /\ stack # <<>> /\ next' = next
        /\ Running.f > Len(RunningStruct.fields)
        /\ cfile' = [cfile EXCEPT !.items = items]
        /\ emitted' = emitted \cup {RunningStruct.name}
        /\ stack' = Front(stack)
    BY <1>4 DEF EmitDescriptor
  <2>2. /\ NestedFirst /\ IsSequence(cfile.items)
        /\ Emission(Structs, cfile.items, emitted, stack, next)
    BY <2>1 DEF OrderInv
  <2>3. /\ Emission(Structs, items, emitted', stack', next)
        /\ IsSequence(items)
        /\ \A i \in DOMAIN items : \A k \in DOMAIN items[i].fields :
              LET nested == items[i].fields[k].nested
              IN  nested # "" => \E j \in 1..(i - 1) : items[j].name = nested
        /\ \A i, j \in DOMAIN items : i # j => items[i].name # items[j].name
    BY <1>0, <2>1, <2>2, OrderReturn
  <2> HIDE DEF items
  <2>4. cfile'.items = items /\ ~cfile'.whole
    <3>1. DOMAIN cfile = {"of", "whole", "items", "catalog"} /\ ~cfile.whole
      BY <2>1 DEF IInv, Shapes, RunInv, IsFile
    <3> QED  BY <2>1, <3>1
  <2>5. NestedFirst'  BY <2>3, <2>4 DEF NestedFirst
  <2> QED  BY <1>0, <2>1, <2>3, <2>4, <2>5 DEF OrderInv
<1>5. CASE emit_catalog_source
  <2>1. phase = "emit" /\ phase' = "header" /\ stack = <<>> /\ next > Len(Structs)
    BY <1>5 DEF emit_catalog_source
  <2>2. CASE cfile' = cfile  BY <1>0, <2>1, <2>2, SameOrder DEF OrderInv
  <2>3. CASE cfile' = [cfile EXCEPT !.whole = TRUE, !.catalog = CatalogNames]
    <3> DEFINE names == CatalogNames
    <3>1. ToSet(names) = Named(cfile.items)
      <4>1. ToSet(names) = Named(Structs)  BY DEF ToSet, Named, CatalogNames
      <4>2. Emission(Structs, cfile.items, emitted, <<>>, next)  BY <2>1 DEF OrderInv
      <4>3. \A i \in DOMAIN Structs : i < next  BY <1>0, <2>1, <4>2, ListFacts DEF Emission
      <4>4. Named(Structs) \subseteq emitted  BY <4>2, <4>3 DEF Emission, PassedOut, Named
      <4> QED  BY <4>1, <4>2, <4>4 DEF Emission
    <3> HIDE DEF names
    <3>2. cfile'.items = cfile.items /\ cfile'.catalog = names
      <4>1. DOMAIN cfile = {"of", "whole", "items", "catalog"}
        BY DEF IInv, Shapes, IsFile
      <4> QED  BY <2>3, <4>1 DEF names
    <3>3. ToSet(cfile'.catalog) = {cfile'.items[i].name : i \in DOMAIN cfile'.items}
      BY <3>1, <3>2 DEF Named
    <3>4. NestedFirst  BY DEF OrderInv
    <3>5. NestedFirst'  BY <3>2, <3>3, <3>4 DEF NestedFirst
    <3> QED  BY <1>0, <2>1, <3>2, <3>5 DEF OrderInv
  <2> QED  BY <1>5, <2>2, <2>3 DEF emit_catalog_source
<1>6. CASE emit_catalog_header
  <2>1. CASE Fails(TRUE)  BY <1>0, <2>1, OrderFails
  <2>2. CASE phase' = "compile" /\ cfile' = cfile  BY <1>0, <2>2, SameOrder DEF OrderInv
  <2> QED  BY <1>6, <2>1, <2>2 DEF emit_catalog_header
<1> QED  BY <1>1, <1>2, <1>3, <1>4, <1>5, <1>6 DEF struct_meta_gen_emit

\* make, a kill, the compiler and an edit leave the walk and the file as they are, start
\* them anew, or end them.
LEMMA OrderAround ==
  ASSUME IInv, OrderInv, Make \/ Kill \/ Compile \/ EditHeader \/ UNCHANGED vars
  PROVE  OrderInv'
<1> USE DEF source, files, maker, emission
<1>1. CASE Make
  <2>1. cfile' = cfile  BY <1>1 DEF Make
  <2>2. CASE current /\ phase' = "compile" /\ p' = p
    BY <2>1, <2>2, SameOrder DEF OrderInv, ParserInv
  <2>3. CASE /\ phase' = "parse" /\ p' = NewParser(header, version)
             /\ stack' = <<>> /\ emitted' = {} /\ next' = 1
    <3>1. ParserInv'  BY <2>3, EmptyIsSequence DEF NewParser, ParserInv
    <3> QED  BY <2>1, <2>3, <3>1, SameOrder DEF OrderInv
  <2> QED  BY <1>1, <2>2, <2>3 DEF Make
<1>2. CASE Kill
  <2> DEFINE touched == phase \in {"emit", "header"}
  <2>1. p' = p /\ Fails(touched)  BY <1>2 DEF Kill
  <2> HIDE DEF touched
  <2> QED  BY <2>1, OrderFails
<1>3. CASE Compile
  <2>1. cfile' = cfile /\ p' = p /\ phase' \in {"built", "failed"}  BY <1>3 DEF Compile
  <2> QED  BY <2>1, SameOrder DEF OrderInv, ParserInv
<1>4. CASE EditHeader \/ UNCHANGED vars
  <2>1. UNCHANGED <<cfile, p, stack, emitted, next>> /\ phase' \in {phase, "idle"}
    BY <1>4 DEF EditHeader, vars
  <2>2. NestedFirst' /\ IsSequence(cfile'.items) /\ ParserInv' /\ Structs' = Structs
    BY <2>1, SameOrder DEF OrderInv, ParserInv, Structs
  <2> QED  BY <2>1, <2>2 DEF OrderInv
<1> QED  BY <1>1, <1>2, <1>3, <1>4

\* The lists of the parser, the walk over them and the file of the descriptors.
LEMMA WalkInvariance == Spec => []OrderInv
<1>1. Init => OrderInv
  <2> SUFFICES ASSUME Init PROVE OrderInv
    OBVIOUS
  <2>1. ParserInv  BY EmptyIsSequence DEF Init, NewParser, ParserInv
  <2>2. phase = "idle" /\ cfile.items = <<>> /\ ~cfile.whole  BY DEF Init, NoFile
  <2>3. NestedFirst  BY <2>2 DEF NestedFirst
  <2> QED  BY <2>1, <2>2, <2>3, EmptyIsSequence DEF OrderInv
<1>2. IInv /\ OrderInv /\ [Next]_vars => OrderInv'
  BY OrderParse, OrderEmit, OrderAround DEF Next
<1> QED  BY <1>1, <1>2, Invariance, PTL DEF Spec

\* The .c has the descriptors in an order the compiler takes, each once, and a table of
\* all of them, whatever the header declares and in which order: also when structures
\* nest each other several levels deep or share a member's structure.
THEOREM DependenciesComeFirst == Spec => []NestedFirst
<1>1. OrderInv => NestedFirst  BY DEF OrderInv
<1> QED  BY <1>1, WalkInvariance, PTL

-----------------------------------------------------------------------------
(* What the parser has read: its lists against the tokens behind it *)

InDecl == {"unsigned", "typed", "named", "bracket", "count", "bracketed", "fend"}
InBody == InDecl \cup {"first", "fdoc", "field"}
BehindBody == {"close", "sname", "send"}
Openers == {"LBRACE", "SEMI", "DOC_PREFIX", "DOC_POSTFIX"}

\* The parser has read the first c tokens of s.
Position(s, c, q) == c \in 0..Len(s) /\ q.input = SubSeq(s, c + 1, Len(s))

\* What some states say about the last tokens, and the last tokens about the state.
LastRead(s, c, at) ==
  /\ at = "first" => At(s, c) = "LBRACE"
  /\ at = "fdoc" => At(s, c) = "DOC_PREFIX"
  /\ at = "field" => At(s, c) = "DOC_POSTFIX"
  /\ at = "close" => At(s, c) = "RBRACE"
  /\ at = "sname" => At(s, c) = "IDENT" /\ At(s, c - 1) = "RBRACE"
  /\ at = "send" => At(s, c) = "SEMI" /\ At(s, c - 1) = "IDENT" /\ At(s, c - 2) = "RBRACE"
  /\ at # "recover" /\ At(s, c) = "RBRACE" => at = "close"
  /\ at # "recover" /\ At(s, c) = "IDENT" /\ At(s, c - 1) = "RBRACE" => at = "sname"

\* The member being read: its type is the token a.
Decl(d, s, a, name, count) ==
  /\ DOMAIN d = {"name", "type", "is_struct", "count"}
  /\ d.name = name /\ d.type = TypeOf(s, a) /\ d.is_struct = (s[a].t = "IDENT") /\ d.count = count

TypeRead(s, a, fdoc) ==
  /\ a \in 2..Len(s) /\ s[a].t \in Types \cup {"T_UNSIGNED"}
  /\ At(s, StartAt(s, a) - 1) \in Openers
  /\ fdoc = CommentsBefore(s, StartAt(s, a))

NameRead(s, a, fdoc) == TypeRead(s, a, fdoc) /\ At(s, a + 1) = "IDENT"
CountRead(s, a, fdoc) ==
  NameRead(s, a, fdoc) /\ At(s, a + 2) = "LBRACKET" /\ At(s, a + 3) = "INTEGER"

\* The number of elements as the parser records it, 0 for no array.
Count(m) == IF m.size = <<>> THEN 0 ELSE strtol(m.size)

MemberRead(s, c, q) ==
  /\ q.at = "unsigned" => s[c].t = "T_UNSIGNED"
  /\ q.at = "typed" => s[c].t \in Types
  /\ q.at \in {"unsigned", "typed"} => TypeRead(s, c, q.fdoc) /\ Decl(q.decl, s, c, "", 0)
  /\ q.at = "named" => NameRead(s, c - 1, q.fdoc) /\ Decl(q.decl, s, c - 1, s[c].id, 0)
  /\ q.at = "bracket" => /\ NameRead(s, c - 2, q.fdoc) /\ At(s, c) = "LBRACKET"
                         /\ Decl(q.decl, s, c - 2, s[c - 1].id, 0)
  /\ q.at = "count" => /\ CountRead(s, c - 3, q.fdoc)
                       /\ Decl(q.decl, s, c - 3, s[c - 2].id, strtol(s[c].digits))
  /\ q.at = "bracketed" => /\ CountRead(s, c - 4, q.fdoc) /\ At(s, c) = "RBRACKET"
                           /\ Decl(q.decl, s, c - 4, s[c - 3].id, strtol(s[c - 1].digits))
  /\ q.at = "fend" => LET m == MemberAt(s, c)
                      IN  /\ At(s, c) = "SEMI" /\ Supported(s, c)
                          /\ Decl(q.decl, s, TypeAt(s, c), m.name, Count(m))
                          /\ q.fdoc = m.pre
  /\ q.at \in {"first", "fdoc", "field"} => q.fdoc = CommentsBefore(s, c + 1)
  /\ q.at \notin InBody \cup {"star", "starname", "pointer"} => q.fdoc = <<>>

\* The member in front of a semicolon as the parser records it.
FieldRead(s, i) ==
  LET m == MemberAt(s, i)
  IN  [name |-> m.name, type |-> m.type, is_struct |-> m.is_struct, count |-> Count(m),
       attrs |-> Chosen(m.pre, IF At(s, i + 1) = "DOC_POSTFIX" THEN <<s[i + 1].doc>> ELSE <<>>)]

\* The fields are those of the members in front of the semicolons X, in their order.
FieldsAre(s, X, fields) ==
  /\ IsSequence(fields) /\ Len(fields) = Cardinality(X)
  /\ \A x \in DOMAIN fields :
       \E i \in X : Rank(X, i) = x /\ Supported(s, i) /\ fields[x] = FieldRead(s, i)

\* No member has two comments behind it.
OneBehind(s, X, c) ==
  \A i \in X : i + 2 <= c /\ At(s, i + 1) = "DOC_POSTFIX" => At(s, i + 2) # "DOC_POSTFIX"

\* The semicolons of the members that are complete.
Done(s, c) == Semicolons(s, c) \ {c}

BodyRead(s, c, q) ==
  /\ q.at \in InBody \cup BehindBody =>
       FieldsAre(s, Done(s, c), q.fields) /\ OneBehind(s, Done(s, c), c)
  /\ q.at \in {"typedef", "struct", "tag"} => q.fields = <<>>
  /\ q.at = "sname" => q.name = s[c].id
  /\ q.at = "send" => q.name = s[c - 1].id

\* A structure is what stands in front of one of the closing braces.
StructAt(s, e, struct) ==
  /\ struct.name = s[e + 1].id
  /\ FieldsAre(s, Semicolons(s, e), struct.fields) /\ OneBehind(s, Semicolons(s, e), e)
StructsRead(s, structs) ==
  IsSequence(structs) /\ \A x \in DOMAIN structs : \E e \in Closings(s) : StructAt(s, e, structs[x])

\* And none of the braces X is missing.
NoneMissing(s, X, structs) ==
  /\ Len(structs) = Cardinality(X)
  /\ \A x \in DOMAIN structs : \E e \in X : Rank(X, e) = x /\ structs[x].name = s[e + 1].id
Passed(s, c) == {e \in Closings(s) : e + 2 < c}

\* Without an error so far.
Unbroken(s, c, q) ==
  /\ q.at # "recover" /\ NoneMissing(s, Passed(s, c), q.structs)
  /\ At(s, c) = "SEMI" /\ At(s, c - 1) = "IDENT" /\ At(s, c - 2) = "RBRACE" => q.at = "send"

ReadInv(s, c, q) ==
  /\ Position(s, c, q) /\ LastRead(s, c, q.at) /\ MemberRead(s, c, q) /\ BodyRead(s, c, q)
  /\ StructsRead(s, q.structs)

Text == Scanned(p.text)

ParsingInv ==
  /\ phase = "parse" =>
       /\ p.of # 0 /\ p.at \in DOMAIN Grammar \cup {"pointer", "recover"}
       /\ \E c \in 0..Len(Text) : ReadInv(Text, c, p) /\ (~complained => Unbroken(Text, c, p))
  /\ current \/ phase \in {"open", "emit", "header", "compile", "built"} =>
       /\ p.of # 0 /\ StructsRead(Text, p.structs)
       /\ ~complained => NoneMissing(Text, Closings(Text), p.structs)

\* A version has one text; files of it that are whole, or begun, keep make from running the
\* generator on it again.
VersionInv ==
  /\ version \in Nat \ {0} /\ p.of \in 0..version /\ cfile.of \in 0..version /\ hfile.of \in 0..version
  /\ header \in Headers /\ (p.of # 0 => p.text \in Headers)
  /\ phase \in {"parse", "open"} => cfile.of < p.of
  /\ ~current => cfile.of < version
  /\ hfile.whole => /\ hfile.of # 0 /\ (~current => hfile.of < version)
                    /\ phase \in Generating => hfile.of < p.of

\* What the files hold of this run.
FilesInv ==
  /\ (current \/ phase \in {"emit", "header", "compile", "built"}) /\ cfile.of = p.of =>
       \A i \in DOMAIN cfile.items : \E x \in DOMAIN p.structs :
         cfile.items[i] = Descriptor(p.structs[x])
  /\ (current \/ phase \in {"compile", "built"}) /\ hfile.whole /\ hfile.of = p.of =>
       hfile.catalog = CatalogNames

-----------------------------------------------------------------------------
\* The transitions of the grammar.
Entry(at, t, to) ==
  \/ t = "DOC_PREFIX" /\ at \in {"top", "doc", "send"} /\ to = "doc"
  \/ t = "SEMI" /\ at \in {"top", "send"} /\ to = "top"
  \/ t = "TYPEDEF" /\ at \in {"top", "doc", "send"} /\ to = "typedef"
  \/ t = "STRUCT" /\ at = "typedef" /\ to = "struct"
  \/ t = "IDENT" /\ at = "struct" /\ to = "tag"
  \/ t = "LBRACE" /\ at \in {"struct", "tag"} /\ to = "first"
  \/ t = "DOC_PREFIX" /\ at \in {"first", "fdoc", "field", "fend"} /\ to = "fdoc"
  \/ t \in Types /\ at \in {"first", "fdoc", "field", "fend"} /\ to = "typed"
  \/ t = "T_UNSIGNED" /\ at \in {"first", "fdoc", "field", "fend"} /\ to = "unsigned"
  \/ t = "T_INT" /\ at = "unsigned" /\ to = "typed"
  \/ t = "IDENT" /\ at \in {"unsigned", "typed"} /\ to = "named"
  \/ t = "STAR" /\ at \in {"unsigned", "typed"} /\ to = "star"
  \/ t = "IDENT" /\ at = "star" /\ to = "starname"
  \/ t = "SEMI" /\ at = "starname" /\ to = "pointer"
  \/ t = "LBRACKET" /\ at = "named" /\ to = "bracket"
  \/ t = "INTEGER" /\ at = "bracket" /\ to = "count"
  \/ t = "RBRACKET" /\ at = "count" /\ to = "bracketed"
  \/ t = "SEMI" /\ at \in {"named", "bracketed"} /\ to = "fend"
  \/ t = "DOC_POSTFIX" /\ at = "fend" /\ to = "field"
  \/ t = "RBRACE" /\ at \in {"field", "fend"} /\ to = "close"
  \/ t = "IDENT" /\ at = "close" /\ to = "sname"
  \/ t = "SEMI" /\ at = "sname" /\ to = "send"
  \/ t = "DOC_POSTFIX" /\ at = "send" /\ to = "top"

LEMMA GrammarEntry ==
  ASSUME NEW at, NEW k, Shifts(at, k)
  PROVE  Entry(at, k.t, Grammar[at][k.t])
<1>1. at \in DOMAIN Grammar /\ k.t \in DOMAIN Grammar[at]  BY DEF Shifts
<1>2. AField = [t \in Types \cup {"T_UNSIGNED", "DOC_PREFIX"} |->
                 IF t \in Types THEN "typed" ELSE IF t = "T_UNSIGNED" THEN "unsigned" ELSE "fdoc"]
  BY DEF AField, AType, Beside, Types
<1>3. MoreFields = [t \in DOMAIN AField \cup {"RBRACE"} |-> IF t = "RBRACE" THEN "close" ELSE AField[t]]
  BY <1>2 DEF MoreFields, Beside, Types
<1> HIDE DEF AField, MoreFields
<1>4. CASE at \in {"top", "send", "doc"}
  BY <1>1, <1>4 DEF Grammar, Top, Beside, Entry
<1>5. CASE at \in {"first", "fdoc", "field", "fend"}
  <2>1. Grammar["first"] = AField /\ Grammar["fdoc"] = AField /\ Grammar["field"] = MoreFields
    BY DEF Grammar
  <2>2. Grammar["fend"] = [t \in DOMAIN MoreFields \cup {"DOC_POSTFIX"} |->
                             IF t \in DOMAIN MoreFields THEN MoreFields[t] ELSE "field"]
    BY DEF Grammar, Beside
  <2>3. \A t \in DOMAIN AField : Entry(at, t, AField[t])  BY <1>2, <1>5 DEF Entry, Types
  <2>4. CASE at \in {"first", "fdoc"}  BY <1>1, <2>1, <2>3, <2>4
  <2>5. ASSUME at \in {"field", "fend"} PROVE \A t \in DOMAIN MoreFields : Entry(at, t, MoreFields[t])
    BY <1>3, <2>3, <2>5 DEF Entry
  <2>6. CASE at = "field"  BY <1>1, <2>1, <2>5, <2>6
  <2>7. CASE at = "fend"
    <3>1. CASE k.t \in DOMAIN MoreFields  BY <2>2, <2>5, <2>7, <3>1
    <3>2. CASE k.t \notin DOMAIN MoreFields
      <4>1. k.t = "DOC_POSTFIX" /\ Grammar[at][k.t] = "field"  BY <1>1, <2>2, <2>7, <3>2
      <4> QED  BY <2>7, <4>1 DEF Entry
    <3> QED  BY <3>1, <3>2
  <2> QED  BY <1>5, <2>4, <2>6, <2>7
<1>6. CASE at \in {"typed", "unsigned"}
  BY <1>1, <1>6 DEF Grammar, Declared, Beside, Entry, Types
<1>7. CASE at \in {"typedef", "struct", "tag", "named", "bracket", "count", "bracketed", "star", "starname", "close", "sname"}
  BY <1>1, <1>7 DEF Grammar, Entry
<1> QED  BY <1>1, <1>4, <1>5, <1>6, <1>7 DEF Grammar

-----------------------------------------------------------------------------
(* What a step of the parser makes of its values *)


LEMMA ReducedValues ==
  ASSUME NEW q, DOMAIN q = ParserFields, NEW k
  PROVE  LET r == Reduced(q, k)
         IN  /\ r.text = q.text /\ r.of = q.of /\ r.input = q.input /\ r.at = q.at
             /\ r.decl = q.decl /\ r.name = q.name
             /\ r.structs = IF q.at = "send"
                            THEN Append(q.structs, struct_create(q, Postfix(k))) ELSE q.structs
             /\ r.fields = IF q.at = "fend"
                           THEN Append(q.fields, field_create(q, Postfix(k))) ELSE q.fields
             /\ r.fdoc = IF q.at = "fend" THEN <<>> ELSE q.fdoc
<1> DEFINE f == Append(q.fields, field_create(q, Postfix(k)))
           s == Append(q.structs, struct_create(q, Postfix(k)))
<1>1. Reduced(q, k) = CASE q.at = "fend" -> [q EXCEPT !.fields = f, !.fdoc = <<>>]
                        [] q.at = "send" -> [q EXCEPT !.structs = s, !.sdoc = <<>>]
                        [] OTHER -> q
  BY DEF Reduced, struct_list_append
<1> HIDE DEF f, s
<1>2. LET r == Reduced(q, k)
      IN  /\ r.text = q.text /\ r.of = q.of /\ r.input = q.input /\ r.at = q.at
          /\ r.decl = q.decl /\ r.name = q.name
          /\ r.structs = IF q.at = "send" THEN s ELSE q.structs
          /\ r.fields = IF q.at = "fend" THEN f ELSE q.fields
          /\ r.fdoc = IF q.at = "fend" THEN <<>> ELSE q.fdoc
  BY <1>1 DEF ParserFields
<1> QED  BY <1>2 DEF f, s

LEMMA TakenValues ==
  ASSUME NEW q, DOMAIN q = ParserFields, NEW k
  PROVE  LET r == Taken(q, k)
         IN  /\ r.text = q.text /\ r.of = q.of /\ r.structs = q.structs
             /\ r.fields = IF k.t = "TYPEDEF" THEN <<>> ELSE q.fields
             /\ r.fdoc = IF k.t = "DOC_PREFIX" /\ q.at \notin {"top", "doc", "send"}
                         THEN Append(q.fdoc, k.doc) ELSE q.fdoc
             /\ r.name = IF k.t = "IDENT" /\ q.at = "close" THEN k.id ELSE q.name
             /\ r.decl = CASE k.t = "INTEGER" -> [q.decl EXCEPT !.count = strtol(k.digits)]
                           [] k.t = "IDENT" /\ q.at \in {"unsigned", "typed"} ->
                                [q.decl EXCEPT !.name = k.id]
                           [] k.t = "IDENT" /\ q.at \in {"first", "field", "fend", "fdoc"} ->
                                [NoField EXCEPT !.type = k.id, !.is_struct = TRUE]
                           [] k.t \in DOMAIN TypeNames /\ q.at # "unsigned" ->
                                [NoField EXCEPT !.type = TypeNames[k.t]]
                           [] OTHER -> q.decl
<1> DEFINE sdoc == Append(q.sdoc, k.doc)
           fdoc == Append(q.fdoc, k.doc)
           counted == [q.decl EXCEPT !.count = strtol(k.digits)]
           named == [q.decl EXCEPT !.name = k.id]
           struct == [NoField EXCEPT !.type = k.id, !.is_struct = TRUE]
           scalar == [NoField EXCEPT !.type = TypeNames[k.t]]
<1>2. Taken(q, k) =
        CASE k.t = "DOC_PREFIX" /\ q.at \in {"top", "doc", "send"} -> [q EXCEPT !.sdoc = sdoc]
          [] k.t = "DOC_PREFIX" /\ q.at \notin {"top", "doc", "send"} -> [q EXCEPT !.fdoc = fdoc]
          [] k.t = "TYPEDEF" -> [q EXCEPT !.fields = <<>>]
          [] k.t = "INTEGER" -> [q EXCEPT !.decl = counted]
          [] k.t = "IDENT" /\ q.at = "close" -> [q EXCEPT !.name = k.id]
          [] k.t = "IDENT" /\ q.at \in {"unsigned", "typed"} -> [q EXCEPT !.decl = named]
          [] k.t = "IDENT" /\ q.at \in {"first", "field", "fend", "fdoc"} ->
               [q EXCEPT !.decl = struct]
          [] k.t \in DOMAIN TypeNames /\ q.at # "unsigned" -> [q EXCEPT !.decl = scalar]
          [] OTHER -> q
  BY DEF Taken
<1>3. DOMAIN TypeNames = {"T_INT", "T_CHAR", "T_FLOAT", "T_DOUBLE", "T_UNSIGNED"}
  BY DEF TypeNames
<1> HIDE DEF sdoc, fdoc, counted, named, struct, scalar
<1>4. LET r == Taken(q, k)
      IN  /\ r.text = q.text /\ r.of = q.of /\ r.structs = q.structs
          /\ r.fields = IF k.t = "TYPEDEF" THEN <<>> ELSE q.fields
          /\ r.fdoc = IF k.t = "DOC_PREFIX" /\ q.at \notin {"top", "doc", "send"}
                      THEN fdoc ELSE q.fdoc
          /\ r.name = IF k.t = "IDENT" /\ q.at = "close" THEN k.id ELSE q.name
          /\ r.decl = CASE k.t = "INTEGER" -> counted
                        [] k.t = "IDENT" /\ q.at \in {"unsigned", "typed"} -> named
                        [] k.t = "IDENT" /\ q.at \in {"first", "field", "fend", "fdoc"} -> struct
                        [] k.t \in DOMAIN TypeNames /\ q.at # "unsigned" -> scalar
                        [] OTHER -> q.decl
  <2> USE DEF ParserFields
  <2>1. CASE k.t \in {"DOC_PREFIX", "TYPEDEF", "INTEGER"}  BY <1>2, <1>3, <2>1
  <2>2. CASE k.t = "IDENT"  BY <1>2, <1>3, <2>2
  <2>3. CASE k.t \notin {"DOC_PREFIX", "TYPEDEF", "INTEGER", "IDENT"}  BY <1>2, <1>3, <2>3
  <2> QED  BY <2>1, <2>2, <2>3
<1> QED  BY <1>4 DEF fdoc, counted, named, struct, scalar

\* What a step of the parser that shifts the token k makes of its values.
LEMMA ShiftValues ==
  ASSUME Shift, DOMAIN p = ParserFields
  PROVE  LET k == Lookahead
         IN  /\ p'.text = p.text /\ p'.of = p.of /\ p'.input = Rest
             /\ p'.at = Grammar[p.at][k.t] /\ Shifts(p.at, k)
             /\ p'.structs = IF p.at = "send"
                             THEN Append(p.structs, struct_create(p, Postfix(k))) ELSE p.structs
             /\ p'.fields = IF k.t = "TYPEDEF" THEN <<>>
                            ELSE IF p.at = "fend"
                            THEN Append(p.fields, field_create(p, Postfix(k))) ELSE p.fields
             /\ p'.fdoc = LET fdoc == IF p.at = "fend" THEN <<>> ELSE p.fdoc
                          IN  IF k.t = "DOC_PREFIX" /\ p.at \notin {"top", "doc", "send"}
                              THEN Append(fdoc, k.doc) ELSE fdoc
             /\ p'.name = IF k.t = "IDENT" /\ p.at = "close" THEN k.id ELSE p.name
             /\ p'.decl = CASE k.t = "INTEGER" -> [p.decl EXCEPT !.count = strtol(k.digits)]
                            [] k.t = "IDENT" /\ p.at \in {"unsigned", "typed"} ->
                                 [p.decl EXCEPT !.name = k.id]
                            [] k.t = "IDENT" /\ p.at \in {"first", "field", "fend", "fdoc"} ->
                                 [NoField EXCEPT !.type = k.id, !.is_struct = TRUE]
                            [] k.t \in DOMAIN TypeNames /\ p.at # "unsigned" ->
                                 [NoField EXCEPT !.type = TypeNames[k.t]]
                            [] OTHER -> p.decl
<1> DEFINE k == Lookahead
           r == Reduced(p, k)
           q == Taken(r, k)
           at == Grammar[p.at][k.t]
           rest == Rest
<1>1. p' = [q EXCEPT !.at = at, !.input = rest] /\ Shifts(p.at, k)  BY DEF Shift
<1>2. DOMAIN r = ParserFields /\ DOMAIN q = ParserFields  BY SameHeader
<1> HIDE DEF at, rest, q
<1>3. /\ p'.text = q.text /\ p'.of = q.of /\ p'.input = rest /\ p'.at = at
      /\ p'.structs = q.structs /\ p'.fields = q.fields /\ p'.fdoc = q.fdoc
      /\ p'.name = q.name /\ p'.decl = q.decl
  BY <1>1, <1>2 DEF ParserFields
<1> USE DEF q
<1> HIDE DEF r, k
<1>4. /\ q.text = r.text /\ q.of = r.of /\ q.structs = r.structs
      /\ q.fields = IF k.t = "TYPEDEF" THEN <<>> ELSE r.fields
      /\ q.fdoc = IF k.t = "DOC_PREFIX" /\ r.at \notin {"top", "doc", "send"}
                  THEN Append(r.fdoc, k.doc) ELSE r.fdoc
      /\ q.name = IF k.t = "IDENT" /\ r.at = "close" THEN k.id ELSE r.name
      /\ q.decl = CASE k.t = "INTEGER" -> [r.decl EXCEPT !.count = strtol(k.digits)]
                    [] k.t = "IDENT" /\ r.at \in {"unsigned", "typed"} ->
                         [r.decl EXCEPT !.name = k.id]
                    [] k.t = "IDENT" /\ r.at \in {"first", "field", "fend", "fdoc"} ->
                         [NoField EXCEPT !.type = k.id, !.is_struct = TRUE]
                    [] k.t \in DOMAIN TypeNames /\ r.at # "unsigned" ->
                         [NoField EXCEPT !.type = TypeNames[k.t]]
                    [] OTHER -> r.decl
  BY <1>2, TakenValues
<1> HIDE DEF q
<1>5. /\ r.text = p.text /\ r.of = p.of /\ r.at = p.at /\ r.decl = p.decl /\ r.name = p.name
      /\ r.structs = IF p.at = "send"
                     THEN Append(p.structs, struct_create(p, Postfix(k))) ELSE p.structs
      /\ r.fields = IF p.at = "fend"
                    THEN Append(p.fields, field_create(p, Postfix(k))) ELSE p.fields
      /\ r.fdoc = IF p.at = "fend" THEN <<>> ELSE p.fdoc
  BY ReducedValues DEF r
<1> QED  BY <1>1, <1>3, <1>4, <1>5 DEF k, at, rest

-----------------------------------------------------------------------------
(* The tokens looked at, and the semicolons in front of them *)


\* The token that is looked at, and what is left behind it.
LEMMA TokenLookedAt ==
  ASSUME NEW s, IsSequence(s), NEW c, Position(s, c, p)
  PROVE  /\ c \in Nat /\ Len(s) \in Nat /\ DOMAIN s = 1..Len(s)
         /\ c < Len(s) => /\ c + 1 \in DOMAIN s /\ Lookahead = s[c + 1]
                          /\ Rest = SubSeq(s, c + 2, Len(s))
         /\ c = Len(s) => Lookahead = EOF
<1> DEFINE S == {s[i] : i \in DOMAIN s}
           input == SubSeq(s, c + 1, Len(s))
<1>1. s \in Seq(S)  BY DEF IsSequence
<1>2. c \in Nat /\ Len(s) \in Nat /\ DOMAIN s = 1..Len(s) /\ c <= Len(s) /\ p.input = input
  BY <1>1 DEF Position
<1> HIDE DEF S
<1>3. CASE c < Len(s)
  <2> DEFINE m == c + 1
             n == Len(s)
  <2>1. m \in 1..Len(s) /\ n \in m..Len(s) /\ m \in Int /\ n \in Int /\ m <= n
    BY <1>2, <1>3
  <2>2. \A i \in m..n : s[i] \in S  BY <1>1, <1>2, <2>1
  <2>3. Len(SubSeq(s, m, n)) = n - m + 1 /\ SubSeq(s, m, n) \in Seq(S)
    <3> HIDE DEF m, n
    <3> QED  BY <2>1, <2>2, SubSeqProperties
  <2>4. Head(SubSeq(s, m, n)) = s[m] /\ Tail(SubSeq(s, m, n)) = SubSeq(s, m + 1, n)
    <3> HIDE DEF m, n
    <3> QED  BY <1>1, <2>1, HeadTailOfSubSeq
  <2>5. input # <<>>
    <3>1. Len(input) = n - m + 1  BY <2>3
    <3>2. n - m + 1 = Len(s) - c  BY <1>2
    <3> HIDE DEF input
    <3> HIDE DEF m, n
    <3> QED  BY <1>2, <1>3, <3>1, <3>2, EmptySeq
  <2>6. m + 1 = c + 2  BY <1>2
  <2>7. Lookahead = Head(p.input) /\ Rest = Tail(p.input)  BY <1>2, <2>5 DEF Lookahead, Rest
  <2>8. Lookahead = s[m] /\ Rest = SubSeq(s, m + 1, n)  BY <1>2, <2>4, <2>7
  <2>9. c + 1 \in DOMAIN s  BY <1>2, <1>3
  <2>10. Rest = SubSeq(s, c + 2, Len(s))
    <3> HIDE DEF m
    <3> QED  BY <2>6, <2>8
  <2>11. Lookahead = s[c + 1]  BY <2>8
  <2>12. ~(c = Len(s))
    <3>1. c \in Nat /\ Len(s) \in Nat  BY <1>2
    <3> QED  BY <1>3, <3>1
  <2> QED  BY <1>2, <2>9, <2>10, <2>11, <2>12
<1>4. CASE c = Len(s)
  <2>1. input = <<>>  BY <1>1, <1>2, <1>4
  <2> QED  BY <1>2, <1>4, <2>1 DEF Lookahead
<1> QED  BY <1>2, <1>3, <1>4

LEMMA AtToken ==
  ASSUME NEW s, IsSequence(s)
  PROVE  /\ \A i \in DOMAIN s : At(s, i) = s[i].t /\ i \in 1..Len(s)
         /\ \A i \in Int : At(s, i) # "EOF" => i \in DOMAIN s /\ i \in 1..Len(s)
  BY Sequence DEF At

\* The semicolons of members that are complete change with a brace that opens a body and
\* with the token behind a semicolon.
LEMMA SemicolonsRead ==
  ASSUME NEW s, IsSequence(s), NEW c \in 0..Len(s)
  PROVE  /\ IsFiniteSet(Semicolons(s, c)) /\ IsFiniteSet(Done(s, c))
         /\ Semicolons(s, c) \in SUBSET Nat /\ \A i \in Done(s, c) : i \in Nat /\ i < c /\ i \in DOMAIN s
         /\ At(s, c) = "SEMI" => Semicolons(s, c) = Done(s, c) \cup {c}
         /\ At(s, c) # "SEMI" => Semicolons(s, c) = Done(s, c)
         /\ c < Len(s) /\ At(s, c + 1) = "LBRACE" => Done(s, c + 1) = {}
         /\ c < Len(s) /\ At(s, c + 1) # "LBRACE" => Done(s, c + 1) = Semicolons(s, c)
<1>1. Len(s) \in Nat /\ DOMAIN s = 1..Len(s)  BY Sequence
<1>2. IsFiniteSet(1..c) /\ Semicolons(s, c) \subseteq 1..c  BY <1>1, FS_Interval DEF Semicolons
<1>3. IsFiniteSet(Semicolons(s, c)) /\ IsFiniteSet(Done(s, c))
  BY <1>2, FS_Subset DEF Done
<1>4. \A i \in Done(s, c) : i \in Nat /\ i < c /\ i \in DOMAIN s  BY <1>1, <1>2 DEF Done
<1>5. At(s, c) = "SEMI" => c \in Semicolons(s, c)
  BY <1>1 DEF At, Semicolons
<1>6. c \in Semicolons(s, c) => At(s, c) = "SEMI"
  BY <1>1, <1>2 DEF At, Semicolons
<1>7. ASSUME c < Len(s), At(s, c + 1) = "LBRACE" PROVE Done(s, c + 1) = {}
  <2>1. s[c + 1].t = "LBRACE"  BY <1>1, <1>7 DEF At
  <2>2. ASSUME NEW i \in Semicolons(s, c + 1) PROVE FALSE
    <3>1. i \in 1..(c + 1) /\ \A j \in i..(c + 1) : s[j].t # "LBRACE"  BY DEF Semicolons
    <3>2. c + 1 \in i..(c + 1)  BY <3>1
    <3> QED  BY <2>1, <3>1, <3>2
  <2> QED  BY <2>2 DEF Done
<1>8. ASSUME c < Len(s), At(s, c + 1) # "LBRACE" PROVE Done(s, c + 1) = Semicolons(s, c)
  <2>1. s[c + 1].t # "LBRACE"  BY <1>1, <1>8 DEF At
  <2>2. ASSUME NEW i \in Done(s, c + 1) PROVE i \in Semicolons(s, c)
    <3>1. i \in 1..(c + 1) /\ i # c + 1 /\ s[i].t = "SEMI" /\ \A j \in i..(c + 1) : s[j].t # "LBRACE"
      BY DEF Done, Semicolons
    <3>2. i \in 1..c /\ \A j \in i..c : j \in i..(c + 1)  BY <3>1
    <3> QED  BY <3>1, <3>2 DEF Semicolons
  <2>3. ASSUME NEW i \in Semicolons(s, c) PROVE i \in Done(s, c + 1)
    <3>1. i \in 1..c /\ s[i].t = "SEMI" /\ \A j \in i..c : s[j].t # "LBRACE"  BY DEF Semicolons
    <3>2. i \in 1..(c + 1) /\ i # c + 1 /\ \A j \in i..(c + 1) : j \in i..c \/ j = c + 1  BY <3>1
    <3> QED  BY <2>1, <3>1, <3>2 DEF Done, Semicolons
  <2> QED  BY <2>2, <2>3
<1> QED  BY <1>1, <1>2, <1>3, <1>4, <1>5, <1>6, <1>7, <1>8 DEF Done

\* A position behind all the others is the last in rank.
LEMMA RankGrows ==
  ASSUME NEW X, IsFiniteSet(X), NEW c \in Nat, \A i \in X : i \in Nat /\ i < c
  PROVE  /\ Cardinality(X) \in Nat /\ Cardinality(X \cup {c}) = Cardinality(X) + 1
         /\ Rank(X \cup {c}, c) = Cardinality(X) + 1
         /\ \A i \in X : Rank(X \cup {c}, i) = Rank(X, i)
<1>1. c \notin X  OBVIOUS
<1>2. Cardinality(X) \in Nat /\ Cardinality(X \cup {c}) = Cardinality(X) + 1
  BY <1>1, FS_CardinalityType, FS_AddElement
<1>3. {j \in X \cup {c} : j <= c} = X \cup {c}  OBVIOUS
<1>4. ASSUME NEW i \in X PROVE {j \in X \cup {c} : j <= i} = {j \in X : j <= i}
  OBVIOUS
<1> QED  BY <1>2, <1>3, <1>4 DEF Rank

LEMMA FieldsGrow ==
  ASSUME NEW s, NEW X, IsFiniteSet(X), NEW c \in Nat, \A i \in X : i \in Nat /\ i < c,
         NEW fields, FieldsAre(s, X, fields), Supported(s, c)
  PROVE  FieldsAre(s, X \cup {c}, Append(fields, FieldRead(s, c)))
<1> DEFINE f == FieldRead(s, c)
           longer == Append(fields, f)
           n == Len(fields)
<1>1. IsSequence(fields) /\ n = Cardinality(X)  BY DEF FieldsAre
<1>2. /\ n \in Nat /\ DOMAIN fields = 1..n /\ IsSequence(longer) /\ Len(longer) = n + 1
      /\ DOMAIN longer = 1..(n + 1) /\ \A i \in 1..n : longer[i] = fields[i]
      /\ longer[n + 1] = f
  BY <1>1, Sequence
<1> HIDE DEF longer, f
<1>3. ASSUME NEW x \in DOMAIN longer
      PROVE  \E i \in X \cup {c} : Rank(X \cup {c}, i) = x /\ Supported(s, i)
                                     /\ longer[x] = FieldRead(s, i)
  <2>1. CASE x \in 1..n
    <3>1. PICK i \in X : Rank(X, i) = x /\ Supported(s, i) /\ fields[x] = FieldRead(s, i)
      BY <1>2, <2>1 DEF FieldsAre
    <3> QED  BY <1>2, <2>1, <3>1, RankGrows
  <2>2. CASE x = n + 1  BY <1>1, <1>2, <2>2, RankGrows DEF f
  <2>3. x \in 1..n \/ x = n + 1  BY <1>2
  <2> QED  BY <2>1, <2>2, <2>3
<1> QED  BY <1>1, <1>2, <1>3, RankGrows DEF FieldsAre, longer, f

-----------------------------------------------------------------------------
(* The comments around a token *)


\* The comments in front of a token grow with each comment and end with any other token.
LEMMA CommentsRead ==
  ASSUME NEW s, IsSequence(s), NEW i \in 1..Len(s)
  PROVE  /\ s[i].t = "DOC_PREFIX" =>
              CommentsBefore(s, i + 1) = Append(CommentsBefore(s, i), s[i].doc)
         /\ s[i].t # "DOC_PREFIX" => CommentsBefore(s, i + 1) = <<>>
<1>1. i \in Nat /\ i >= 1 /\ (i + 1) - 1 = i  BY Sequence
<1>2. ASSUME s[i].t # "DOC_PREFIX" PROVE CommentsBefore(s, i + 1) = <<>>
  <2>1. RunBefore(s, i + 1) = {}
    <3>1. ASSUME NEW j \in RunBefore(s, i + 1) PROVE FALSE
      <4>1. j \in 1..i /\ \A k \in j..i : s[k].t = "DOC_PREFIX"  BY <1>1, <3>1 DEF RunBefore
      <4>2. i \in j..i  BY <1>1, <4>1
      <4> QED  BY <1>2, <4>1, <4>2
    <3> QED  BY <3>1
  <2>2. Cardinality(RunBefore(s, i + 1)) = 0  BY <2>1, FS_EmptySet
  <2> QED  BY <2>2 DEF CommentsBefore, Comments
<1>3. ASSUME s[i].t = "DOC_PREFIX"
      PROVE  CommentsBefore(s, i + 1) = Append(CommentsBefore(s, i), s[i].doc)
  <2> DEFINE R == RunBefore(s, i)
             n == Cardinality(R)
             b == i - 1 - n
             a == CommentsBefore(s, i)
  <2>1. RunBefore(s, i + 1) = R \cup {i}
    <3>1. ASSUME NEW j \in RunBefore(s, i + 1) PROVE j \in R \cup {i}
      <4>1. j \in 1..i /\ \A k \in j..i : s[k].t = "DOC_PREFIX"  BY <1>1, <3>1 DEF RunBefore
      <4>2. CASE j # i
        <5>1. j \in 1..(i - 1) /\ \A k \in j..(i - 1) : k \in j..i  BY <1>1, <4>1, <4>2
        <5> QED  BY <4>1, <5>1 DEF RunBefore
      <4> QED  BY <4>2
    <3>2. ASSUME NEW j \in R PROVE j \in RunBefore(s, i + 1)
      <4>1. j \in 1..(i - 1) /\ \A k \in j..(i - 1) : s[k].t = "DOC_PREFIX"  BY <3>2 DEF RunBefore
      <4>2. j \in 1..i /\ \A k \in j..i : k = i \/ k \in j..(i - 1)  BY <1>1, <4>1
      <4>3. \A k \in j..i : s[k].t = "DOC_PREFIX"  BY <1>3, <4>1, <4>2
      <4> QED  BY <1>1, <4>2, <4>3 DEF RunBefore
    <3>3. i \in RunBefore(s, i + 1)
      <4>1. i \in 1..i /\ \A k \in i..i : k = i  BY <1>1
      <4> QED  BY <1>1, <1>3, <4>1 DEF RunBefore
    <3> QED  BY <3>1, <3>2, <3>3
  <2>2. IsFiniteSet(R) /\ i \notin R
    <3>1. R \subseteq 1..(i - 1)  BY DEF RunBefore
    <3>2. IsFiniteSet(1..(i - 1)) /\ i \notin 1..(i - 1)  BY <1>1, FS_Interval
    <3> QED  BY <3>1, <3>2, FS_Subset
  <2>3. n \in Nat /\ Cardinality(RunBefore(s, i + 1)) = n + 1
    BY <2>1, <2>2, FS_CardinalityType, FS_AddElement
  <2>4. a = [k \in 1..n |-> s[b + k].doc]  BY DEF CommentsBefore, Comments
  <2>5. CommentsBefore(s, i + 1) = [k \in 1..(n + 1) |-> s[b + k].doc]
    <3>1. (i + 1) - 1 - (n + 1) = b  BY <1>1, <2>3
    <3> QED  BY <2>3, <3>1 DEF CommentsBefore, Comments
  <2>6. b + (n + 1) = i  BY <1>1, <2>3
  <2> HIDE DEF a, n, b
  <2> DEFINE S == {s[b + k].doc : k \in 1..(n + 1)}
             e == s[i].doc
             r == Append(a, e)
             l == [k \in 1..(n + 1) |-> s[b + k].doc]
  <2>7. a \in Seq(S) /\ Len(a) = n /\ l \in Seq(S) /\ Len(l) = n + 1 /\ e \in S
    <3>1. n + 1 \in 1..(n + 1) /\ \A k \in 1..n : k \in 1..(n + 1)  BY <2>3
    <3>2. e \in S  BY <2>6, <3>1
    <3>3. \A k \in 1..(n + 1) : s[b + k].doc \in S  OBVIOUS
    <3> HIDE DEF S
    <3> QED  BY <2>3, <2>4, <3>1, <3>2, <3>3
  <2>8. r \in Seq(S) /\ Len(r) = n + 1 /\ (\A k \in 1..n : r[k] = a[k]) /\ r[n + 1] = e
    <3> HIDE DEF S, e
    <3> QED  BY <2>7, AppendProperties
  <2>9. \A k \in 1..(n + 1) : r[k] = l[k]
    <3>1. ASSUME NEW k \in 1..(n + 1) PROVE r[k] = l[k]
      <4>1. CASE k \in 1..n  BY <2>3, <2>4, <2>8, <4>1
      <4>2. CASE k = n + 1  BY <2>3, <2>6, <2>8, <4>2
      <4>3. k \in 1..n \/ k = n + 1  BY <2>3
      <4> QED  BY <4>1, <4>2, <4>3
    <3> QED  BY <3>1
  <2>10. r = l
    <3> HIDE DEF S, r, l
    <3> QED  BY <2>7, <2>8, <2>9, SeqEqual
  <2> QED  BY <2>5, <2>10 DEF a
<1> QED  BY <1>2, <1>3

\* A member has the one comment behind it, or none.
LEMMA CommentBehind ==
  ASSUME NEW s, IsSequence(s), NEW i \in 1..Len(s)
  PROVE  /\ At(s, i + 1) # "DOC_POSTFIX" => CommentsBehind(s, i) = <<>>
         /\ At(s, i + 1) = "DOC_POSTFIX" /\ At(s, i + 2) # "DOC_POSTFIX" =>
              CommentsBehind(s, i) = <<s[i + 1].doc>>
<1>1. i \in Nat /\ Len(s) \in Nat /\ DOMAIN s = 1..Len(s)  BY Sequence
<1>2. \A j \in RunBehind(s, i) : i < j /\ j \in 1..Len(s) /\ \A k \in (i + 1)..j : s[k].t = "DOC_POSTFIX"
  BY <1>1 DEF RunBehind
<1>3. ASSUME At(s, i + 1) # "DOC_POSTFIX" PROVE CommentsBehind(s, i) = <<>>
  <2>1. ASSUME NEW j \in RunBehind(s, i) PROVE FALSE
    <3>1. i + 1 \in (i + 1)..j /\ i + 1 \in 1..Len(s)  BY <1>1, <1>2
    <3> QED  BY <1>1, <1>2, <1>3, <3>1 DEF At
  <2>2. RunBehind(s, i) = {}  BY <2>1
  <2>3. Cardinality(RunBehind(s, i)) = 0  BY <2>2, FS_EmptySet
  <2> QED  BY <2>3 DEF CommentsBehind, Comments
<1>4. ASSUME At(s, i + 1) = "DOC_POSTFIX", At(s, i + 2) # "DOC_POSTFIX"
      PROVE  CommentsBehind(s, i) = <<s[i + 1].doc>>
  <2>1. i + 1 \in 1..Len(s) /\ s[i + 1].t = "DOC_POSTFIX"
    BY <1>1, <1>4 DEF At
  <2>2. i + 1 \in RunBehind(s, i)
    <3>1. \A k \in (i + 1)..(i + 1) : k = i + 1  BY <1>1
    <3>2. i + 1 > i  BY <1>1
    <3> QED  BY <1>1, <2>1, <3>1, <3>2 DEF RunBehind
  <2>3. ASSUME NEW j \in RunBehind(s, i) PROVE j = i + 1
    <3>1. SUFFICES ASSUME j # i + 1 PROVE FALSE  OBVIOUS
    <3>2. i + 2 \in (i + 1)..j /\ i + 2 \in 1..Len(s)  BY <1>1, <1>2, <3>1
    <3> QED  BY <1>1, <1>2, <1>4, <3>2 DEF At
  <2>4. RunBehind(s, i) = {i + 1}  BY <2>2, <2>3
  <2>5. Cardinality(RunBehind(s, i)) = 1  BY <2>4, FS_Singleton
  <2>6. CommentsBehind(s, i) = [k \in 1..1 |-> s[i + k].doc]  BY <2>5 DEF CommentsBehind, Comments
  <2> QED  BY <2>6
<1> QED  BY <1>3, <1>4

-----------------------------------------------------------------------------
(* One lemma per piece of what the parser has read *)


LEMMA ShiftReads ==
  ASSUME NEW s, AreTokens(s), NEW c, Position(s, c, p), DOMAIN p = ParserFields, Shift
  PROVE  /\ c \in Nat /\ Len(s) \in Nat /\ DOMAIN s = 1..Len(s) /\ c < Len(s)
         /\ c + 1 \in 1..Len(s) /\ Lookahead = s[c + 1]
         /\ At(s, c + 1) = s[c + 1].t
         /\ Position(s, c + 1, p') /\ Entry(p.at, s[c + 1].t, p'.at)
<1>1. IsSequence(s)  BY DEF AreTokens
<1>2. /\ c \in Nat /\ Len(s) \in Nat /\ DOMAIN s = 1..Len(s) /\ c \in 0..Len(s)
      /\ c < Len(s) => /\ c + 1 \in DOMAIN s /\ Lookahead = s[c + 1]
                       /\ Rest = SubSeq(s, c + 2, Len(s))
      /\ c = Len(s) => Lookahead = EOF
  BY <1>1, TokenLookedAt DEF Position
<1>3. /\ Shifts(p.at, Lookahead) /\ p'.at = Grammar[p.at][Lookahead.t] /\ p'.input = Rest
  BY ShiftValues
<1>4. Entry(p.at, Lookahead.t, p'.at)  BY <1>3, GrammarEntry
<1>5. c # Len(s)
  <2>1. ~Entry(p.at, "EOF", p'.at)  BY DEF Entry, Types
  <2>2. EOF.t = "EOF"  BY DEF EOF
  <2> QED  BY <1>2, <1>4, <2>1, <2>2
<1>20. c \in Nat /\ Len(s) \in Nat /\ c \in 0..Len(s)  BY <1>2
<1>6. c < Len(s)  BY <1>20, <1>5
<1>7. Position(s, c + 1, p')
  <2>1. c + 1 \in 0..Len(s) /\ (c + 1) + 1 = c + 2  BY <1>20, <1>6
  <2> QED  BY <1>2, <1>3, <1>6, <2>1 DEF Position
<1> QED  BY <1>2, <1>4, <1>6, <1>7 DEF At

LEMMA LastReadShift ==
  ASSUME NEW s, AreTokens(s), NEW c, Position(s, c, p), DOMAIN p = ParserFields, Shift,
         LastRead(s, c, p.at)
  PROVE  LastRead(s, c + 1, p'.at)
<1> DEFINE t == s[c + 1].t
           at == p.at
           to == p'.at
<1>1. c \in Nat /\ At(s, c + 1) = t /\ Entry(at, t, to)  BY ShiftReads
<1>2. At(s, (c + 1) - 1) = At(s, c) /\ At(s, (c + 1) - 2) = At(s, c - 1)
  <2>1. (c + 1) - 1 = c /\ (c + 1) - 2 = c - 1  BY <1>1
  <2> QED  BY <2>1
<1> HIDE DEF t, at, to
<1>3. /\ at = "close" => At(s, c) = "RBRACE"
      /\ at = "sname" => At(s, c) = "IDENT" /\ At(s, c - 1) = "RBRACE"
      /\ at # "recover" /\ At(s, c) = "RBRACE" => at = "close"
      /\ at # "recover" /\ At(s, c) = "IDENT" /\ At(s, c - 1) = "RBRACE" => at = "sname"
  BY DEF LastRead, at
<1>4. /\ to = "first" => t = "LBRACE"
      /\ to = "fdoc" => t = "DOC_PREFIX"
      /\ to = "field" => t = "DOC_POSTFIX"
      /\ to = "close" => t = "RBRACE"
      /\ to = "sname" => t = "IDENT" /\ at = "close"
      /\ to = "send" => t = "SEMI" /\ at = "sname"
      /\ t = "RBRACE" => to = "close"
      /\ t = "IDENT" /\ at = "close" => to = "sname"
      /\ at # "recover"
  BY <1>1 DEF Entry, Types
<1>5. LastRead(s, c + 1, to)  BY <1>1, <1>2, <1>3, <1>4 DEF LastRead
<1> QED  BY <1>5 DEF to

\* The type of a member begins behind a token that ends what was before it.
LEMMA TypeBegins ==
  ASSUME NEW s, IsSequence(s), NEW c \in Nat, c + 1 \in 1..Len(s), At(s, c) \in Openers,
         s[c + 1].t \in Types \cup {"T_UNSIGNED"}
  PROVE  /\ TypeRead(s, c + 1, CommentsBefore(s, c + 1))
         /\ TypeOf(s, c + 1) = IF s[c + 1].t = "IDENT" THEN s[c + 1].id ELSE TypeNames[s[c + 1].t]
<1>1. c \in 1..Len(s)
  <2>1. At(s, c) # "EOF"  BY DEF Openers
  <2> QED  BY <2>1, AtToken
<1>2. (c + 1) - 1 = c  OBVIOUS
<1>3. At(s, c) # "T_UNSIGNED"  BY DEF Openers
<1>4. StartAt(s, c + 1) = c + 1  BY <1>2, <1>3 DEF StartAt
<1>5. Len(s) \in Nat /\ c + 1 \in 2..Len(s)  BY <1>1, Sequence
<1> QED  BY <1>2, <1>4, <1>5 DEF TypeRead, TypeOf

\* unsigned int is one type.
LEMMA TypeContinues ==
  ASSUME NEW s, IsSequence(s), NEW c \in Nat, c + 1 \in 1..Len(s), NEW fdoc, TypeRead(s, c, fdoc),
         s[c].t = "T_UNSIGNED", s[c + 1].t = "T_INT"
  PROVE  TypeRead(s, c + 1, fdoc) /\ TypeOf(s, c + 1) = TypeOf(s, c)
<1>1. (c + 1) - 1 = c /\ c \in 2..Len(s)  BY DEF TypeRead
<1>2. Len(s) \in Nat /\ c + 1 \in 2..Len(s)  BY <1>1, Sequence
<1>3. At(s, c) = "T_UNSIGNED"
  <2>1. c \in DOMAIN s  BY <1>1, <1>2, Sequence
  <2> QED  BY <2>1 DEF At
<1>4. StartAt(s, c) = c /\ StartAt(s, c + 1) = c  BY <1>1, <1>3 DEF StartAt
<1> QED  BY <1>2, <1>4 DEF TypeRead, TypeOf, Types

\* The semicolon behind a member.
LEMMA MemberEnds ==
  ASSUME NEW s, AreTokens(s), NEW c \in Nat, NEW fdoc
  PROVE  /\ NameRead(s, c - 1, fdoc) =>
              /\ Supported(s, c + 1) /\ TypeAt(s, c + 1) = c - 1
              /\ MemberAt(s, c + 1).name = s[c].id /\ Count(MemberAt(s, c + 1)) = 0
              /\ MemberAt(s, c + 1).pre = fdoc
         /\ CountRead(s, c - 4, fdoc) /\ At(s, c) = "RBRACKET" =>
              /\ Supported(s, c + 1) /\ TypeAt(s, c + 1) = c - 4
              /\ MemberAt(s, c + 1).name = s[c - 3].id /\ Count(MemberAt(s, c + 1)) = strtol(s[c - 1].digits)
              /\ MemberAt(s, c + 1).pre = fdoc
<1>1. /\ (c + 1) - 1 = c /\ (c + 1) - 2 = c - 1 /\ (c + 1) - 3 = c - 2 /\ (c + 1) - 4 = c - 3
      /\ (c - 1) + 1 = c /\ (c - 4) + 1 = c - 3 /\ (c - 4) + 2 = c - 2 /\ (c - 4) + 3 = c - 1
      /\ (c - 3) - 1 = c - 4
  OBVIOUS
<1>2. ASSUME NEW a, TypeRead(s, a, fdoc)
      PROVE  At(s, a) \in Types \cup {"T_UNSIGNED"}
  <2>1. a \in DOMAIN s  BY <1>2, Sequence DEF TypeRead, AreTokens
  <2> QED  BY <1>2, <2>1 DEF TypeRead, At
<1>3. ASSUME NameRead(s, c - 1, fdoc)
      PROVE  /\ Supported(s, c + 1) /\ TypeAt(s, c + 1) = c - 1
             /\ MemberAt(s, c + 1).name = s[c].id /\ Count(MemberAt(s, c + 1)) = 0
             /\ MemberAt(s, c + 1).pre = fdoc
  <2>1. At(s, c) = "IDENT" /\ TypeRead(s, c - 1, fdoc)  BY <1>1, <1>3 DEF NameRead
  <2>2. NameAt(s, c + 1) = c /\ TypeAt(s, c + 1) = c - 1  BY <1>1, <2>1 DEF NameAt, TypeAt
  <2>3. At(s, c - 1) \in Types \cup {"T_UNSIGNED"}  BY <1>2, <2>1
  <2>4. Supported(s, c + 1)
    BY <1>1, <2>1, <2>2, <2>3 DEF Supported, TypeRead, Openers
  <2> QED  BY <1>1, <2>1, <2>2, <2>4 DEF MemberAt, TypeRead, Count
<1>4. ASSUME CountRead(s, c - 4, fdoc), At(s, c) = "RBRACKET"
      PROVE  /\ Supported(s, c + 1) /\ TypeAt(s, c + 1) = c - 4
             /\ MemberAt(s, c + 1).name = s[c - 3].id /\ Count(MemberAt(s, c + 1)) = strtol(s[c - 1].digits)
             /\ MemberAt(s, c + 1).pre = fdoc
  <2>1. /\ At(s, c - 3) = "IDENT" /\ At(s, c - 2) = "LBRACKET" /\ At(s, c - 1) = "INTEGER"
        /\ TypeRead(s, c - 4, fdoc)
    BY <1>1, <1>4 DEF CountRead, NameRead
  <2>2. NameAt(s, c + 1) = c - 3 /\ TypeAt(s, c + 1) = c - 4  BY <1>1, <1>4 DEF NameAt, TypeAt
  <2>3. At(s, c - 4) \in Types \cup {"T_UNSIGNED"}  BY <1>2, <2>1
  <2>4. Supported(s, c + 1)
    BY <1>1, <2>1, <2>2, <2>3 DEF Supported, TypeRead, Openers
  <2>5. s[c - 1].digits # <<>>
    <3>1. c - 1 \in DOMAIN s /\ s[c - 1].t = "INTEGER"  BY <2>1 DEF At
    <3> QED  BY <3>1 DEF AreTokens
  <2> QED  BY <1>1, <1>4, <2>1, <2>2, <2>4, <2>5 DEF MemberAt, TypeRead, Count
<1> QED  BY <1>3, <1>4

\* What the rules make of the member being read.
Renamed(d, n) == [d EXCEPT !.name = n]
Counted(d, k) == [d EXCEPT !.count = k]
OfStruct(id) == [NoField EXCEPT !.type = id, !.is_struct = TRUE]
OfType(type) == [NoField EXCEPT !.type = type]

LEMMA DeclStep ==
  ASSUME NEW s, NEW a, NEW name, NEW count, NEW d, Decl(d, s, a, name, count)
  PROVE  /\ \A n : Decl(Renamed(d, n), s, a, n, count)
         /\ \A k : Decl(Counted(d, k), s, a, name, k)
BY DEF Decl, Renamed, Counted

LEMMA DeclBegins ==
  ASSUME NEW s, NEW a,
         TypeOf(s, a) = IF s[a].t = "IDENT" THEN s[a].id ELSE TypeNames[s[a].t]
  PROVE  /\ s[a].t = "IDENT" => Decl(OfStruct(s[a].id), s, a, "", 0)
         /\ s[a].t # "IDENT" => Decl(OfType(TypeNames[s[a].t]), s, a, "", 0)
<1>1. ASSUME NEW id
      PROVE  /\ DOMAIN OfStruct(id) = {"name", "type", "is_struct", "count"}
             /\ OfStruct(id).name = "" /\ OfStruct(id).type = id
             /\ OfStruct(id).is_struct = TRUE /\ OfStruct(id).count = 0
             /\ DOMAIN OfType(id) = {"name", "type", "is_struct", "count"}
             /\ OfType(id).name = "" /\ OfType(id).type = id
             /\ OfType(id).is_struct = FALSE /\ OfType(id).count = 0
  BY DEF NoField, OfStruct, OfType
<1> QED  BY <1>1 DEF Decl

LEMMA DeclShift ==
  ASSUME NEW s, AreTokens(s), NEW c, Position(s, c, p), DOMAIN p = ParserFields, Shift
  PROVE  /\ s[c + 1].t = "INTEGER" => p'.decl = Counted(p.decl, strtol(s[c + 1].digits))
         /\ s[c + 1].t = "IDENT" /\ p.at \in {"unsigned", "typed"} =>
              p'.decl = Renamed(p.decl, s[c + 1].id)
         /\ s[c + 1].t = "IDENT" /\ p.at \in {"first", "field", "fend", "fdoc"} =>
              p'.decl = OfStruct(s[c + 1].id)
         /\ s[c + 1].t \in DOMAIN TypeNames /\ p.at # "unsigned" =>
              p'.decl = OfType(TypeNames[s[c + 1].t])
         /\ s[c + 1].t \in {"LBRACKET", "RBRACKET", "SEMI"} => p'.decl = p.decl
         /\ s[c + 1].t = "T_INT" /\ p.at = "unsigned" => p'.decl = p.decl
<1> DEFINE k == s[c + 1]
           a == k.t = "INTEGER"
           b == k.t = "IDENT" /\ p.at \in {"unsigned", "typed"}
           e == k.t = "IDENT" /\ p.at \in {"first", "field", "fend", "fdoc"}
           f == k.t \in DOMAIN TypeNames /\ p.at # "unsigned"
           d == p'.decl
<1>1. k = Lookahead  BY ShiftReads
<1>2. d = CASE a -> Counted(p.decl, strtol(k.digits))
            [] b -> Renamed(p.decl, k.id)
            [] e -> OfStruct(k.id)
            [] f -> OfType(TypeNames[k.t])
            [] OTHER -> p.decl
  BY <1>1, ShiftValues DEF Counted, Renamed, OfStruct, OfType
<1>3. DOMAIN TypeNames = {"T_INT", "T_CHAR", "T_FLOAT", "T_DOUBLE", "T_UNSIGNED"}  BY DEF TypeNames
<1> HIDE DEF d, k
<1>4. /\ a => ~b /\ ~e /\ ~f
      /\ b => ~a /\ ~e /\ ~f
      /\ e => ~a /\ ~b /\ ~f
      /\ f => ~a /\ ~b /\ ~e
  BY <1>3
<1>5. (k.t \in {"LBRACKET", "RBRACKET", "SEMI"} \/ (k.t = "T_INT" /\ p.at = "unsigned")) =>
        ~a /\ ~b /\ ~e /\ ~f
  BY <1>3
<1> HIDE DEF a, b, e, f
<1>6. a => d = Counted(p.decl, strtol(k.digits))  BY <1>2, <1>4
<1>7. b => d = Renamed(p.decl, k.id)  BY <1>2, <1>4
<1>8. e => d = OfStruct(k.id)  BY <1>2, <1>4
<1>9. f => d = OfType(TypeNames[k.t])  BY <1>2, <1>4
<1>10. ~a /\ ~b /\ ~e /\ ~f => d = p.decl  BY <1>2
<1> QED  BY <1>5, <1>6, <1>7, <1>8, <1>9, <1>10 DEF a, b, e, f, d, k

LEMMA CommentsShift ==
  ASSUME NEW s, AreTokens(s), NEW c, Position(s, c, p), DOMAIN p = ParserFields, Shift
  PROVE  /\ s[c + 1].t = "DOC_PREFIX" /\ p.at \notin {"top", "doc", "send"} =>
              p'.fdoc = Append(IF p.at = "fend" THEN <<>> ELSE p.fdoc, s[c + 1].doc)
         /\ s[c + 1].t # "DOC_PREFIX" \/ p.at \in {"top", "doc", "send"} =>
              p'.fdoc = IF p.at = "fend" THEN <<>> ELSE p.fdoc
<1>1. s[c + 1] = Lookahead  BY ShiftReads
<1> QED  BY <1>1, ShiftValues

LEMMA MemberShift ==
  ASSUME NEW s, AreTokens(s), NEW c, Position(s, c, p), DOMAIN p = ParserFields, Shift,
         LastRead(s, c, p.at), MemberRead(s, c, p)
  PROVE  MemberRead(s, c + 1, p')
<1> DEFINE t == s[c + 1].t
           at == p.at
           to == p'.at
           fdoc == IF at = "fend" THEN <<>> ELSE p.fdoc
<1>1. /\ c \in Nat /\ c + 1 \in 1..Len(s) /\ At(s, c + 1) = t /\ Entry(at, t, to)
      /\ c \in 0..Len(s) /\ c + 1 \in DOMAIN s
  BY ShiftReads DEF Position
<1>2. IsSequence(s)  BY DEF AreTokens
<1>3. /\ (c + 1) - 1 = c /\ (c + 1) - 2 = c - 1 /\ (c + 1) - 3 = c - 2 /\ (c + 1) - 4 = c - 3
      /\ (c + 1) + 1 = c + 2 /\ (c - 1) + 1 = c /\ (c - 1) + 2 = c + 1
      /\ (c - 2) + 1 = c - 1 /\ (c - 2) + 2 = c /\ (c - 2) + 3 = c + 1
      /\ (c - 3) + 1 = c - 2 /\ (c - 3) + 2 = c - 1 /\ (c - 3) + 3 = c
  BY <1>1
<1>4. p'.fdoc = IF t = "DOC_PREFIX" /\ at \notin {"top", "doc", "send"}
                THEN Append(fdoc, s[c + 1].doc) ELSE fdoc
  BY CommentsShift
<1>5. ASSUME c \in 1..Len(s) PROVE c \in DOMAIN s /\ At(s, c) = s[c].t
  BY <1>2, <1>5, Sequence DEF At
<1>6. ASSUME at = "fend" PROVE At(s, c) = "SEMI" /\ CommentsBefore(s, c + 1) = <<>>
  <2>1. At(s, c) = "SEMI"  BY <1>6 DEF MemberRead
  <2>2. c \in 1..Len(s)  BY <1>1, <1>2, <2>1, AtToken
  <2>3. s[c].t # "DOC_PREFIX"  BY <2>1, <2>2, <1>5
  <2> QED  BY <1>2, <2>1, <2>2, <2>3, CommentsRead
<1>7. ASSUME at \in {"first", "fdoc", "field", "fend"}
      PROVE  fdoc = CommentsBefore(s, c + 1) /\ At(s, c) \in Openers
  BY <1>6, <1>7 DEF MemberRead, LastRead, Openers
<1> HIDE DEF t, at, to, fdoc
<1>10. CASE to \in {"typed", "unsigned"} /\ at \in {"first", "fdoc", "field", "fend"}
  <2>1. t \in Types \cup {"T_UNSIGNED"} /\ (to = "unsigned" => t = "T_UNSIGNED")
        /\ (to = "typed" => t \in Types)
    BY <1>1, <1>10 DEF Entry
  <2>2. /\ TypeRead(s, c + 1, CommentsBefore(s, c + 1))
        /\ TypeOf(s, c + 1) = IF s[c + 1].t = "IDENT" THEN s[c + 1].id ELSE TypeNames[s[c + 1].t]
    BY <1>1, <1>2, <1>7, <1>10, <2>1, TypeBegins DEF t
  <2>3. p'.fdoc = CommentsBefore(s, c + 1)
    BY <1>4, <1>7, <1>10, <2>1 DEF Types
  <2>4. Decl(p'.decl, s, c + 1, "", 0)
    <3>1. CASE t = "IDENT"  BY <1>10, <2>2, <3>1, DeclShift, DeclBegins DEF t, at
    <3>2. CASE t # "IDENT"
      <4>1. t \in DOMAIN TypeNames /\ at # "unsigned"
        BY <1>10, <2>1, <3>2 DEF Types, TypeNames
      <4> QED  BY <2>2, <3>2, <4>1, DeclShift, DeclBegins DEF t, at
    <3> QED  BY <3>1, <3>2
  <2> QED  BY <1>10, <2>1, <2>2, <2>3, <2>4 DEF MemberRead, InBody, InDecl, to, t
<1>11. CASE at = "unsigned" /\ t = "T_INT"
  <2>1. to = "typed"  BY <1>1, <1>11 DEF Entry, Types
  <2>2. s[c].t = "T_UNSIGNED" /\ TypeRead(s, c, p.fdoc) /\ Decl(p.decl, s, c, "", 0)
    BY <1>11 DEF MemberRead, at
  <2>3. TypeRead(s, c + 1, p.fdoc) /\ TypeOf(s, c + 1) = TypeOf(s, c)
    BY <1>1, <1>2, <1>11, <2>2, TypeContinues DEF t
  <2>4. p'.decl = p.decl /\ p'.fdoc = p.fdoc
    BY <1>4, <1>11, DeclShift DEF t, at, fdoc
  <2>5. Decl(p'.decl, s, c + 1, "", 0)  BY <1>11, <2>2, <2>3, <2>4 DEF Decl, t
  <2> QED  BY <1>11, <2>1, <2>3, <2>4, <2>5 DEF MemberRead, InBody, InDecl, to, t, Types
<1>12. CASE to = "named"
  <2>1. t = "IDENT" /\ at \in {"unsigned", "typed"}  BY <1>1, <1>12 DEF Entry
  <2>2. TypeRead(s, c, p.fdoc) /\ Decl(p.decl, s, c, "", 0)  BY <2>1 DEF MemberRead, at
  <2>3. p'.decl = Renamed(p.decl, s[c + 1].id) /\ p'.fdoc = p.fdoc
    BY <1>4, <2>1, DeclShift DEF t, at, fdoc
  <2>4. Decl(p'.decl, s, c, s[c + 1].id, 0)  BY <2>2, <2>3, DeclStep
  <2>5. NameRead(s, c, p'.fdoc)  BY <1>1, <2>1, <2>2, <2>3 DEF NameRead
  <2> QED  BY <1>3, <1>12, <2>4, <2>5 DEF MemberRead, InBody, InDecl, to
<1>13. CASE to = "bracket"
  <2>1. t = "LBRACKET" /\ at = "named"  BY <1>1, <1>13 DEF Entry
  <2>2. NameRead(s, c - 1, p.fdoc) /\ Decl(p.decl, s, c - 1, s[c].id, 0)  BY <2>1 DEF MemberRead, at
  <2>3. p'.decl = p.decl /\ p'.fdoc = p.fdoc
    <3>1. s[c + 1].t \in {"LBRACKET", "RBRACKET", "SEMI"}  BY <2>1 DEF t
    <3>2. p'.decl = p.decl  BY <3>1, DeclShift
    <3> QED  BY <1>4, <2>1, <3>2 DEF fdoc
  <2> QED  BY <1>1, <1>3, <1>13, <2>1, <2>2, <2>3 DEF MemberRead, InBody, InDecl, to
<1>14. CASE to = "count"
  <2>1. t = "INTEGER" /\ at = "bracket"  BY <1>1, <1>14 DEF Entry
  <2>2. NameRead(s, c - 2, p.fdoc) /\ At(s, c) = "LBRACKET" /\ Decl(p.decl, s, c - 2, s[c - 1].id, 0)
    BY <2>1 DEF MemberRead, at
  <2>3. p'.decl = Counted(p.decl, strtol(s[c + 1].digits)) /\ p'.fdoc = p.fdoc
    BY <1>4, <2>1, DeclShift DEF t, at, fdoc
  <2>4. Decl(p'.decl, s, c - 2, s[c - 1].id, strtol(s[c + 1].digits))  BY <2>2, <2>3, DeclStep
  <2>5. CountRead(s, c - 2, p'.fdoc)  BY <1>1, <1>3, <2>1, <2>2, <2>3 DEF CountRead
  <2> QED  BY <1>3, <1>14, <2>4, <2>5 DEF MemberRead, InBody, InDecl, to
<1>15. CASE to = "bracketed"
  <2>1. t = "RBRACKET" /\ at = "count"  BY <1>1, <1>15 DEF Entry
  <2>2. CountRead(s, c - 3, p.fdoc) /\ Decl(p.decl, s, c - 3, s[c - 2].id, strtol(s[c].digits))
    BY <2>1 DEF MemberRead, at
  <2>3. p'.decl = p.decl /\ p'.fdoc = p.fdoc
    <3>1. s[c + 1].t \in {"LBRACKET", "RBRACKET", "SEMI"}  BY <2>1 DEF t
    <3>2. p'.decl = p.decl  BY <3>1, DeclShift
    <3> QED  BY <1>4, <2>1, <3>2 DEF fdoc
  <2> QED  BY <1>1, <1>3, <1>15, <2>1, <2>2, <2>3 DEF MemberRead, InBody, InDecl, to
<1>16. CASE to = "fend"
  <2>1. t = "SEMI" /\ at \in {"named", "bracketed"}  BY <1>1, <1>16 DEF Entry
  <2>2. p'.decl = p.decl /\ p'.fdoc = p.fdoc
    <3>1. s[c + 1].t \in {"LBRACKET", "RBRACKET", "SEMI"}  BY <2>1 DEF t
    <3>2. p'.decl = p.decl  BY <3>1, DeclShift
    <3> QED  BY <1>4, <2>1, <3>2 DEF fdoc
  <2>3. /\ Supported(s, c + 1) /\ MemberAt(s, c + 1).pre = p.fdoc
        /\ Decl(p.decl, s, TypeAt(s, c + 1), MemberAt(s, c + 1).name, Count(MemberAt(s, c + 1)))
    <3>1. CASE at = "named"
      <4>1. NameRead(s, c - 1, p.fdoc) /\ Decl(p.decl, s, c - 1, s[c].id, 0)
        BY <3>1 DEF MemberRead, at
      <4> QED  BY <1>1, <1>2, <4>1, MemberEnds
    <3>2. CASE at = "bracketed"
      <4>1. /\ CountRead(s, c - 4, p.fdoc) /\ At(s, c) = "RBRACKET"
            /\ Decl(p.decl, s, c - 4, s[c - 3].id, strtol(s[c - 1].digits))
        BY <3>2 DEF MemberRead, at
      <4> QED  BY <1>1, <1>2, <4>1, MemberEnds
    <3> QED  BY <2>1, <3>1, <3>2
  <2> QED  BY <1>1, <1>16, <2>1, <2>2, <2>3 DEF MemberRead, InBody, InDecl, to
<1>17. CASE to \in {"first", "fdoc", "field"}
  <2>1. s[c + 1].t # "DOC_PREFIX" => CommentsBefore(s, (c + 1) + 1) = <<>>
    BY <1>1, <1>2, CommentsRead
  <2>2. CASE to = "fdoc"
    <3>1. t = "DOC_PREFIX" /\ at \in {"first", "fdoc", "field", "fend"}  BY <1>1, <2>2 DEF Entry
    <3>2. CommentsBefore(s, (c + 1) + 1) = Append(CommentsBefore(s, c + 1), s[c + 1].doc)
      BY <1>1, <1>2, <3>1, CommentsRead DEF t
    <3>3. p'.fdoc = Append(fdoc, s[c + 1].doc)  BY <1>4, <3>1
    <3> QED  BY <1>7, <2>2, <3>1, <3>2, <3>3 DEF MemberRead, InBody, InDecl, to
  <2>3. CASE to = "first"
    <3>1. t = "LBRACE" /\ at \in {"struct", "tag"}  BY <1>1, <2>3 DEF Entry
    <3>2. p'.fdoc = p.fdoc /\ p.fdoc = <<>>
      BY <1>4, <3>1 DEF MemberRead, InBody, InDecl, at, fdoc
    <3> QED  BY <2>1, <2>3, <3>1, <3>2 DEF MemberRead, InBody, InDecl, to, t
  <2>4. CASE to = "field"
    <3>1. t = "DOC_POSTFIX" /\ at = "fend"  BY <1>1, <2>4 DEF Entry
    <3>2. p'.fdoc = <<>>  BY <1>4, <3>1 DEF fdoc
    <3> QED  BY <2>1, <2>4, <3>1, <3>2 DEF MemberRead, InBody, InDecl, to, t
  <2> QED  BY <1>17, <2>2, <2>3, <2>4
<1>18. CASE to \notin InBody \cup {"star", "starname", "pointer"}
  <2>1. \/ at \in {"top", "doc", "send", "typedef", "struct", "tag", "close", "sname"} /\ at # "fend"
        \/ at \in {"field", "fend"} /\ t = "RBRACE"
    BY <1>1, <1>18 DEF Entry, InBody, InDecl, Types
  <2>2. CASE at \in {"top", "doc", "send", "typedef", "struct", "tag", "close", "sname"}
    <3>1. p.fdoc = <<>>  BY <2>2 DEF MemberRead, InBody, InDecl, at
    <3>2. t = "DOC_PREFIX" => at \in {"top", "doc", "send"}  BY <1>1, <2>2 DEF Entry, Types
    <3>3. p'.fdoc = <<>>  BY <1>4, <2>2, <3>1, <3>2 DEF fdoc
    <3> QED  BY <1>18, <3>3 DEF MemberRead, InBody, InDecl, to
  <2>3. CASE at \in {"field", "fend"} /\ t = "RBRACE"
    <3>1. fdoc = CommentsBefore(s, c + 1)  BY <1>7, <2>3
    <3>2. at = "field" => CommentsBefore(s, c + 1) = <<>>
      <4>1. SUFFICES ASSUME at = "field" PROVE CommentsBefore(s, c + 1) = <<>>  OBVIOUS
      <4>2. At(s, c) = "DOC_POSTFIX"  BY <4>1 DEF LastRead, at
      <4>3. c \in 1..Len(s)  BY <1>1, <1>2, <4>2, AtToken
      <4> QED  BY <1>2, <1>5, <4>2, <4>3, CommentsRead
    <3>3. p'.fdoc = <<>>  BY <1>4, <2>3, <3>1, <3>2 DEF fdoc
    <3> QED  BY <1>18, <3>3 DEF MemberRead, InBody, InDecl, to
  <2> QED  BY <2>1, <2>2, <2>3
<1>19. CASE to \in {"star", "starname", "pointer"}
  BY <1>19 DEF MemberRead, InBody, InDecl, to
<1>20. ASSUME to \in {"typed", "unsigned"}
       PROVE  at \in {"first", "fdoc", "field", "fend"} \/ (at = "unsigned" /\ t = "T_INT")
  BY <1>1, <1>20 DEF Entry
<1> QED
  BY <1>10, <1>11, <1>12, <1>13, <1>14, <1>15, <1>16, <1>17, <1>18, <1>19, <1>20 DEF InBody, InDecl

\* In a body the last token is a semicolon behind a member and a comment behind a semicolon
\* nowhere else.
LEMMA BodyToken ==
  ASSUME NEW s, IsSequence(s), NEW c \in 0..Len(s), NEW q, LastRead(s, c, q.at), MemberRead(s, c, q),
         q.at \in InBody \cup {"close", "sname"}
  PROVE  /\ At(s, c) = "SEMI" <=> q.at = "fend"
         /\ At(s, c) = "DOC_POSTFIX" => q.at = "field"
<1>1. c \in Nat /\ Len(s) \in Nat  BY Sequence
<1>2. (c - 1) + 1 = c /\ (c - 2) + 2 = c /\ (c - 3) + 3 = c  BY <1>1
<1>3. q.at \in {"first", "fdoc", "field", "close", "sname"} =>
        At(s, c) # "SEMI" /\ (At(s, c) = "DOC_POSTFIX" => q.at = "field")
  BY DEF LastRead
<1>4. ASSUME q.at \in {"unsigned", "typed"} PROVE At(s, c) \in Types \cup {"T_UNSIGNED"}
  <2>1. c \in 2..Len(s) /\ s[c].t \in Types \cup {"T_UNSIGNED"}  BY <1>4 DEF MemberRead, TypeRead
  <2>2. c \in DOMAIN s  BY <2>1, Sequence
  <2> QED  BY <2>1, <2>2 DEF At
<1>5. q.at = "named" => At(s, c) = "IDENT"  BY <1>2 DEF MemberRead, NameRead
<1>6. q.at = "bracket" => At(s, c) = "LBRACKET"  BY DEF MemberRead
<1>7. q.at = "count" => At(s, c) = "INTEGER"  BY <1>2 DEF MemberRead, CountRead
<1>8. q.at = "bracketed" => At(s, c) = "RBRACKET"  BY DEF MemberRead
<1>9. q.at = "fend" => At(s, c) = "SEMI"  BY DEF MemberRead
<1> QED  BY <1>3, <1>4, <1>5, <1>6, <1>7, <1>8, <1>9 DEF InBody, InDecl, Types

\* The field the parser makes of a member at the token behind the semicolon.
LEMMA FieldCreated ==
  ASSUME NEW s, IsSequence(s), NEW c \in Nat, c + 1 \in DOMAIN s, MemberRead(s, c, p), p.at = "fend"
  PROVE  Supported(s, c) /\ field_create(p, Postfix(s[c + 1])) = FieldRead(s, c)
<1> DEFINE m == MemberAt(s, c)
           post == IF At(s, c + 1) = "DOC_POSTFIX" THEN <<s[c + 1].doc>> ELSE <<>>
<1>1. Supported(s, c) /\ Decl(p.decl, s, TypeAt(s, c), m.name, Count(m)) /\ p.fdoc = m.pre
  BY DEF MemberRead
<1>2. m.type = TypeOf(s, TypeAt(s, c)) /\ m.is_struct = (s[TypeAt(s, c)].t = "IDENT")
  BY DEF MemberAt
<1>3. Postfix(s[c + 1]) = post  BY DEF Postfix, At
<1>4. FieldRead(s, c) = [name |-> m.name, type |-> m.type, is_struct |-> m.is_struct,
                         count |-> Count(m), attrs |-> Chosen(m.pre, post)]
  BY DEF FieldRead
<1> HIDE DEF m, post
<1>5. p.decl.name = m.name /\ p.decl.type = m.type /\ p.decl.is_struct = m.is_struct /\ p.decl.count = Count(m)
  BY <1>1, <1>2 DEF Decl
<1> QED  BY <1>1, <1>3, <1>4, <1>5 DEF field_create

LEMMA BodyShift ==
  ASSUME NEW s, AreTokens(s), NEW c, Position(s, c, p), DOMAIN p = ParserFields, Shift,
         LastRead(s, c, p.at), MemberRead(s, c, p), BodyRead(s, c, p)
  PROVE  BodyRead(s, c + 1, p')
<1> DEFINE t == s[c + 1].t
           at == p.at
           to == p'.at
           field == field_create(p, Postfix(s[c + 1]))
<1>1. /\ c \in Nat /\ c + 1 \in 1..Len(s) /\ At(s, c + 1) = t /\ Entry(at, t, to)
      /\ c \in 0..Len(s) /\ c + 1 \in DOMAIN s /\ Lookahead = s[c + 1] /\ c < Len(s)
  BY ShiftReads DEF Position
<1>2. IsSequence(s) /\ (c + 1) - 1 = c  BY <1>1 DEF AreTokens
<1>3. /\ p'.fields = IF t = "TYPEDEF" THEN <<>> ELSE IF at = "fend" THEN Append(p.fields, field) ELSE p.fields
      /\ p'.name = IF t = "IDENT" /\ at = "close" THEN s[c + 1].id ELSE p.name
  BY <1>1, ShiftValues
<1> HIDE DEF t, at, to, field
<1>4. to = "sname" => p'.name = s[c + 1].id
  BY <1>1, <1>3 DEF Entry, Types
<1>5. to = "send" => p'.name = s[(c + 1) - 1].id
  <2>1. to = "send" => at = "sname"  BY <1>1 DEF Entry, Types
  <2>2. at = "sname" => p.name = s[c].id  BY DEF BodyRead, at
  <2> QED  BY <1>2, <1>3, <2>1, <2>2
<1>6. to \in {"typedef", "struct", "tag"} => p'.fields = <<>>
  <2>1. CASE to = "typedef"
    <3>1. t = "TYPEDEF"  BY <1>1, <2>1 DEF Entry, Types
    <3> QED  BY <1>3, <3>1
  <2>2. CASE to \in {"struct", "tag"}
    <3>1. at \in {"typedef", "struct"}  BY <1>1, <2>2 DEF Entry, Types
    <3>2. p.fields = <<>>  BY <3>1 DEF BodyRead, at
    <3> QED  BY <1>3, <3>1, <3>2
  <2> QED  BY <2>1, <2>2
<1>7. ASSUME to = "first"
      PROVE  FieldsAre(s, Done(s, c + 1), p'.fields) /\ OneBehind(s, Done(s, c + 1), c + 1)
  <2>1. t = "LBRACE" /\ at \in {"struct", "tag"}  BY <1>1, <1>7 DEF Entry, Types
  <2>2. Done(s, c + 1) = {}  BY <1>1, <1>2, <2>1, SemicolonsRead
  <2>3. p'.fields = <<>>
    <3>1. p.fields = <<>>  BY <2>1 DEF BodyRead, at
    <3> QED  BY <1>3, <2>1, <3>1
  <2>4. FieldsAre(s, {}, <<>>)
    <3>1. IsSequence(<<>>) /\ Len(<<>>) = 0  BY EmptyIsSequence
    <3>2. \A x \in DOMAIN <<>> : FALSE  OBVIOUS
    <3>3. Cardinality({}) = 0  BY FS_EmptySet
    <3> QED  BY <3>1, <3>2, <3>3 DEF FieldsAre
  <2>5. OneBehind(s, {}, c + 1)  BY DEF OneBehind
  <2> QED  BY <2>2, <2>3, <2>4, <2>5
<1>8. ASSUME to \in InBody \cup BehindBody, to # "first"
      PROVE  FieldsAre(s, Done(s, c + 1), p'.fields) /\ OneBehind(s, Done(s, c + 1), c + 1)
  <2>1. /\ at \in InBody \cup {"close", "sname"} /\ t # "LBRACE" /\ t # "TYPEDEF"
        /\ at = "field" => t # "DOC_POSTFIX"
    BY <1>1, <1>8 DEF Entry, Types, InBody, InDecl, BehindBody
  <2>2. FieldsAre(s, Done(s, c), p.fields) /\ OneBehind(s, Done(s, c), c)
    BY <2>1 DEF BodyRead, BehindBody, at
  <2>3. (At(s, c) = "SEMI" <=> at = "fend") /\ (At(s, c) = "DOC_POSTFIX" => at = "field")
    BY <1>1, <1>2, <2>1, BodyToken DEF at
  <2>4. /\ Done(s, c + 1) = Semicolons(s, c) /\ IsFiniteSet(Done(s, c))
        /\ \A i \in Done(s, c) : i \in Nat /\ i < c
        /\ At(s, c) = "SEMI" => Semicolons(s, c) = Done(s, c) \cup {c}
        /\ At(s, c) # "SEMI" => Semicolons(s, c) = Done(s, c)
    BY <1>1, <1>2, <2>1, SemicolonsRead
  <2>5. FieldsAre(s, Done(s, c + 1), p'.fields)
    <3>1. CASE at = "fend"
      <4>1. Supported(s, c) /\ field = FieldRead(s, c)
        BY <1>1, <1>2, <3>1, FieldCreated DEF at, field
      <4>2. p'.fields = Append(p.fields, FieldRead(s, c))  BY <1>3, <2>1, <3>1, <4>1
      <4>3. FieldsAre(s, Done(s, c) \cup {c}, Append(p.fields, FieldRead(s, c)))
        BY <1>1, <2>2, <2>4, <4>1, FieldsGrow
      <4> QED  BY <2>3, <2>4, <3>1, <4>2, <4>3
    <3>2. CASE at # "fend"  BY <1>3, <2>1, <2>2, <2>3, <2>4, <3>2
    <3> QED  BY <3>1, <3>2
  <2>6. OneBehind(s, Done(s, c + 1), c + 1)
    <3>1. SUFFICES ASSUME NEW i \in Done(s, c + 1), i + 2 <= c + 1, At(s, i + 1) = "DOC_POSTFIX"
                   PROVE  At(s, i + 2) # "DOC_POSTFIX"
      BY DEF OneBehind
    <3>2. i \in Done(s, c) \cup {c}  BY <2>4
    <3>3. c \in Nat  BY <1>1
    <3>4. i \in Done(s, c) /\ i \in Nat  BY <2>4, <3>1, <3>2, <3>3
    <3>5. CASE i + 2 <= c  BY <2>2, <3>1, <3>4, <3>5 DEF OneBehind
    <3>6. CASE ~(i + 2 <= c)
      <4>1. i + 2 = c + 1 /\ i + 1 = c  BY <3>1, <3>3, <3>4, <3>6
      <4>2. At(s, c) = "DOC_POSTFIX"  BY <3>1, <4>1
      <4> QED  BY <1>1, <2>1, <2>3, <4>1, <4>2
    <3> QED  BY <3>5, <3>6
  <2> QED  BY <2>5, <2>6
<1>9. to \in InBody \cup BehindBody =>
        FieldsAre(s, Done(s, c + 1), p'.fields) /\ OneBehind(s, Done(s, c + 1), c + 1)
  BY <1>7, <1>8
<1> QED  BY <1>4, <1>5, <1>6, <1>9 DEF BodyRead, to

\* The structure the parser makes when it has read the semicolon behind its name.
LEMMA StructReduced ==
  ASSUME NEW s, IsSequence(s), NEW c \in 0..Len(s), NEW q, q.at = "send",
         LastRead(s, c, q.at), BodyRead(s, c, q), NEW postfix
  PROVE  c - 2 \in Closings(s) /\ StructAt(s, c - 2, struct_create(q, postfix))
<1>1. At(s, c) = "SEMI" /\ At(s, c - 1) = "IDENT" /\ At(s, c - 2) = "RBRACE"  BY DEF LastRead
<1>2. FieldsAre(s, Done(s, c), q.fields) /\ OneBehind(s, Done(s, c), c) /\ q.name = s[c - 1].id
  BY DEF BodyRead, BehindBody
<1>3. c \in Nat /\ Len(s) \in Nat /\ c <= Len(s) /\ (c - 2) + 1 = c - 1 /\ (c - 2) + 2 = c
      /\ (c - 1) + 1 = c /\ c - 2 \in Int
  BY Sequence
<1>4. c - 2 \in DOMAIN s /\ c - 2 \in 1..Len(s)  BY <1>1, <1>3, AtToken
<1>5. s[c - 2].t = "RBRACE"  BY <1>1, <1>4 DEF At
<1>6. c - 2 \in Closings(s)  BY <1>1, <1>3, <1>4, <1>5 DEF Closings
<1>7. Done(s, c) = Semicolons(s, c - 2)
  <2>1. c - 2 \in 0..Len(s) /\ c - 1 \in 0..Len(s) /\ c - 2 < Len(s) /\ c - 1 < Len(s)
    BY <1>3, <1>4
  <2>2. Done(s, c) = Semicolons(s, c - 1)
    <3>1. At(s, (c - 1) + 1) # "LBRACE" => Done(s, (c - 1) + 1) = Semicolons(s, c - 1)
      BY <2>1, SemicolonsRead
    <3> QED  BY <1>1, <1>3, <3>1
  <2>3. Semicolons(s, c - 1) = Done(s, c - 1)  BY <1>1, <2>1, SemicolonsRead
  <2>4. Done(s, c - 1) = Semicolons(s, c - 2)
    <3>1. At(s, (c - 2) + 1) # "LBRACE" => Done(s, (c - 2) + 1) = Semicolons(s, c - 2)
      BY <2>1, SemicolonsRead
    <3> QED  BY <1>1, <1>3, <3>1
  <2> QED  BY <2>2, <2>3, <2>4
<1>8. OneBehind(s, Done(s, c), c - 2)
  <2>1. \A i \in Done(s, c) : i \in Nat  BY SemicolonsRead
  <2>2. \A i \in Done(s, c) : i + 2 <= c - 2 => i + 2 <= c  BY <1>3, <2>1
  <2> QED  BY <1>2, <2>2 DEF OneBehind
<1>9. struct_create(q, postfix).name = q.name /\ struct_create(q, postfix).fields = q.fields
  BY DEF struct_create
<1> QED  BY <1>2, <1>3, <1>6, <1>7, <1>8, <1>9 DEF StructAt

LEMMA StructsGrow ==
  ASSUME NEW s, NEW structs, StructsRead(s, structs), NEW e \in Closings(s), NEW x, StructAt(s, e, x)
  PROVE  StructsRead(s, Append(structs, x))
<1> DEFINE longer == Append(structs, x)
           n == Len(structs)
<1>1. /\ n \in Nat /\ DOMAIN structs = 1..n /\ IsSequence(longer)
      /\ DOMAIN longer = 1..(n + 1) /\ \A i \in 1..n : longer[i] = structs[i]
      /\ longer[n + 1] = x
  BY Sequence DEF StructsRead
<1> HIDE DEF longer
<1>2. ASSUME NEW i \in DOMAIN longer PROVE \E d \in Closings(s) : StructAt(s, d, longer[i])
  <2>1. i \in 1..n \/ i = n + 1  BY <1>1
  <2>2. CASE i \in 1..n  BY <1>1, <2>2 DEF StructsRead
  <2>3. CASE i = n + 1  BY <1>1, <2>3
  <2> QED  BY <2>1, <2>2, <2>3
<1> QED  BY <1>1, <1>2 DEF StructsRead, longer

LEMMA NoneMissingGrows ==
  ASSUME NEW s, NEW X, IsFiniteSet(X), NEW e \in Nat, \A i \in X : i \in Nat /\ i < e,
         NEW structs, IsSequence(structs), NoneMissing(s, X, structs), NEW x, x.name = s[e + 1].id
  PROVE  NoneMissing(s, X \cup {e}, Append(structs, x))
<1> DEFINE longer == Append(structs, x)
           n == Len(structs)
<1>1. n = Cardinality(X)  BY DEF NoneMissing
<1>2. /\ n \in Nat /\ DOMAIN structs = 1..n /\ Len(longer) = n + 1
      /\ DOMAIN longer = 1..(n + 1) /\ \A i \in 1..n : longer[i] = structs[i]
      /\ longer[n + 1] = x
  BY Sequence
<1> HIDE DEF longer
<1>3. ASSUME NEW i \in DOMAIN longer
      PROVE  \E d \in X \cup {e} : Rank(X \cup {e}, d) = i /\ longer[i].name = s[d + 1].id
  <2>1. i \in 1..n \/ i = n + 1  BY <1>2
  <2>2. CASE i \in 1..n
    <3>1. PICK d \in X : Rank(X, d) = i /\ structs[i].name = s[d + 1].id
      BY <1>2, <2>2 DEF NoneMissing
    <3> QED  BY <1>2, <2>2, <3>1, RankGrows
  <2>3. CASE i = n + 1  BY <1>1, <1>2, <2>3, RankGrows
  <2> QED  BY <2>1, <2>2, <2>3
<1>4. Len(longer) = Cardinality(X \cup {e})  BY <1>1, <1>2, RankGrows
<1> QED  BY <1>3, <1>4 DEF NoneMissing, longer

\* With the structure that ends at the last token the list has what stands up to it.
LEMMA PassedReduced ==
  ASSUME NEW s, IsSequence(s), NEW c \in 0..Len(s), DOMAIN p = ParserFields,
         LastRead(s, c, p.at), BodyRead(s, c, p), StructsRead(s, p.structs), NEW k
  PROVE  /\ StructsRead(s, Reduced(p, k).structs)
         /\ Unbroken(s, c, p) => NoneMissing(s, Passed(s, c + 1), Reduced(p, k).structs)
<1> DEFINE structs == Reduced(p, k).structs
           x == struct_create(p, Postfix(k))
<1>1. structs = IF p.at = "send" THEN Append(p.structs, x) ELSE p.structs
  BY ReducedValues
<1>2. x.name = p.name  BY DEF struct_create
<1> HIDE DEF structs
<1>3. /\ c \in Nat /\ Len(s) \in Nat /\ DOMAIN s = 1..Len(s) /\ (c - 2) + 1 = c - 1 /\ (c - 2) + 2 = c
  BY Sequence
<1>4. \A e \in Closings(s) : e \in Nat /\ e >= 1  BY <1>3 DEF Closings
<1>5. IsFiniteSet(Passed(s, c))
  <2>1. Passed(s, c) \subseteq 1..Len(s)  BY <1>3 DEF Passed, Closings
  <2>2. IsFiniteSet(1..Len(s))  BY <1>3, FS_Interval
  <2> QED  BY <2>1, <2>2, FS_Subset
<1>6. CASE p.at = "send"
  <2>1. c - 2 \in Closings(s) /\ StructAt(s, c - 2, x)
    <3> HIDE DEF x
    <3> QED  BY <1>6, StructReduced DEF x
  <2>2. StructsRead(s, structs)
    <3> HIDE DEF x
    <3> QED  BY <1>1, <1>6, <2>1, StructsGrow
  <2>3. ASSUME Unbroken(s, c, p) PROVE NoneMissing(s, Passed(s, c + 1), structs)
    <3>1. Passed(s, c + 1) = Passed(s, c) \cup {c - 2}
      <4>1. ASSUME NEW e \in Closings(s) PROVE e + 2 < c + 1 <=> e + 2 < c \/ e = c - 2
        BY <1>3, <1>4
      <4> QED  BY <2>1, <4>1 DEF Passed
    <3>2. \A i \in Passed(s, c) : i \in Nat /\ i < c - 2  BY <1>3, <1>4 DEF Passed
    <3>3. p.name = s[(c - 2) + 1].id  BY <1>3, <1>6 DEF BodyRead
    <3>4. NoneMissing(s, Passed(s, c), p.structs) /\ IsSequence(p.structs) /\ c - 2 \in Nat
      BY <1>4, <2>1, <2>3 DEF Unbroken, StructsRead
    <3>5. NoneMissing(s, Passed(s, c) \cup {c - 2}, Append(p.structs, x))
      <4> HIDE DEF x
      <4> QED  BY <1>2, <1>5, <3>2, <3>3, <3>4, NoneMissingGrows
    <3> QED  BY <1>1, <1>6, <3>1, <3>5
  <2> QED  BY <2>2, <2>3 DEF structs
<1>7. CASE p.at # "send"
  <2>1. ASSUME Unbroken(s, c, p) PROVE Passed(s, c + 1) = Passed(s, c)
    <3>1. ASSUME NEW e \in Closings(s), e + 2 < c + 1 PROVE e + 2 < c
      <4>1. SUFFICES ASSUME e = c - 2 PROVE FALSE  BY <1>3, <1>4, <3>1
      <4>2. e \in DOMAIN s /\ s[e].t = "RBRACE" /\ At(s, e + 1) = "IDENT" /\ At(s, e + 2) = "SEMI"
        BY DEF Closings
      <4>3. At(s, c - 2) = "RBRACE" /\ At(s, c - 1) = "IDENT" /\ At(s, c) = "SEMI"
        BY <1>3, <4>1, <4>2 DEF At
      <4> QED  BY <1>7, <2>1, <4>3 DEF Unbroken
    <3>2. \A e \in Closings(s) : e + 2 < c => e + 2 < c + 1  BY <1>3, <1>4
    <3> QED  BY <3>1, <3>2 DEF Passed
  <2> QED  BY <1>1, <1>7, <2>1 DEF Unbroken, structs
<1> QED  BY <1>6, <1>7

LEMMA UnbrokenShift ==
  ASSUME NEW s, AreTokens(s), NEW c, Position(s, c, p), DOMAIN p = ParserFields, Shift,
         LastRead(s, c, p.at), BodyRead(s, c, p), StructsRead(s, p.structs)
  PROVE  /\ StructsRead(s, p'.structs)
         /\ Unbroken(s, c, p) => Unbroken(s, c + 1, p')
<1>1. /\ c \in Nat /\ c \in 0..Len(s) /\ At(s, c + 1) = s[c + 1].t /\ Entry(p.at, s[c + 1].t, p'.at)
      /\ IsSequence(s)
  BY ShiftReads DEF Position, AreTokens
<1>2. p'.structs = Reduced(p, Lookahead).structs  BY ShiftValues, ReducedValues
<1>3. /\ StructsRead(s, p'.structs)
      /\ Unbroken(s, c, p) => NoneMissing(s, Passed(s, c + 1), p'.structs)
  BY <1>1, <1>2, PassedReduced
<1>4. p'.at # "recover"  BY <1>1 DEF Entry
<1>5. At(s, c + 1) = "SEMI" /\ At(s, (c + 1) - 1) = "IDENT" /\ At(s, (c + 1) - 2) = "RBRACE" => p'.at = "send"
  <2>1. (c + 1) - 1 = c /\ (c + 1) - 2 = c - 1  BY <1>1
  <2>2. SUFFICES ASSUME s[c + 1].t = "SEMI", At(s, c) = "IDENT", At(s, c - 1) = "RBRACE"
                 PROVE  p'.at = "send"
    BY <1>1, <2>1
  <2>3. p.at # "recover"  BY <1>1 DEF Entry
  <2>4. p.at = "sname"  BY <2>2, <2>3 DEF LastRead
  <2> QED  BY <1>1, <2>2, <2>4 DEF Entry
<1> QED  BY <1>3, <1>4, <1>5 DEF Unbroken

\* A step that shifts a token keeps what the parser has read.
LEMMA ReadShift ==
  ASSUME NEW s, AreTokens(s), NEW c, ReadInv(s, c, p), DOMAIN p = ParserFields, Shift
  PROVE  /\ c + 1 \in 0..Len(s) /\ ReadInv(s, c + 1, p')
         /\ Unbroken(s, c, p) => Unbroken(s, c + 1, p')
         /\ p'.at \in DOMAIN Grammar \cup {"pointer"} /\ p'.text = p.text /\ p'.of = p.of
<1>1. Position(s, c, p) /\ LastRead(s, c, p.at) /\ MemberRead(s, c, p) /\ BodyRead(s, c, p)
      /\ StructsRead(s, p.structs)
  BY DEF ReadInv
<1>2. Position(s, c + 1, p') /\ Entry(p.at, s[c + 1].t, p'.at)  BY <1>1, ShiftReads
<1>3. LastRead(s, c + 1, p'.at)  BY <1>1, LastReadShift
<1>4. MemberRead(s, c + 1, p')  BY <1>1, MemberShift
<1>5. BodyRead(s, c + 1, p')  BY <1>1, BodyShift
<1>6. StructsRead(s, p'.structs) /\ (Unbroken(s, c, p) => Unbroken(s, c + 1, p'))
  BY <1>1, UnbrokenShift
<1>7. p'.at \in DOMAIN Grammar \cup {"pointer"}  BY <1>2 DEF Entry, Grammar
<1>8. p'.text = p.text /\ p'.of = p.of  BY ShiftValues
<1> QED  BY <1>2, <1>3, <1>4, <1>5, <1>6, <1>7, <1>8 DEF ReadInv, Position

-----------------------------------------------------------------------------
(* The other steps of the parser *)


\* The parser of a header before its first token.
LEMMA ReadNothing ==
  ASSUME NEW h, NEW v, AreTokens(Scanned(h)), NEW q, q = NewParser(h, v)
  PROVE  /\ q.text = h /\ q.of = v /\ q.at = "top" /\ 0 \in 0..Len(Scanned(h))
         /\ ReadInv(Scanned(h), 0, q) /\ Unbroken(Scanned(h), 0, q)
<1> DEFINE s == Scanned(h)
<1>1. /\ q.text = h /\ q.of = v /\ q.at = "top" /\ q.input = s /\ q.structs = <<>> /\ q.fdoc = <<>>
  BY DEF NewParser
<1>2. IsSequence(s)  BY DEF AreTokens
<1>3. Len(s) \in Nat /\ DOMAIN s = 1..Len(s)  BY <1>2, Sequence
<1>4. At(s, 0) = "EOF"  BY <1>3 DEF At
<1>5. s = SubSeq(s, 1, Len(s))
  <2> HIDE DEF s
  <2> QED  BY <1>2, SubSeqFull DEF IsSequence
<1> HIDE DEF s
<1>6. 0 \in 0..Len(s) /\ 0 + 1 = 1  BY <1>3
<1>7. Position(s, 0, q)  BY <1>1, <1>5, <1>6 DEF Position
<1>8. LastRead(s, 0, q.at)  BY <1>1, <1>4 DEF LastRead
<1>9. MemberRead(s, 0, q)  BY <1>1 DEF MemberRead, InBody, InDecl
<1>10. BodyRead(s, 0, q)  BY <1>1 DEF BodyRead, InBody, InDecl, BehindBody
<1>11. StructsRead(s, q.structs)
  <2>1. IsSequence(<<>>) /\ DOMAIN <<>> = {}  BY EmptyIsSequence
  <2> QED  BY <1>1, <2>1 DEF StructsRead
<1>12. NoneMissing(s, Passed(s, 0), q.structs)
  <2>1. Passed(s, 0) = {}  BY <1>3 DEF Passed, Closings
  <2>2. Cardinality({}) = 0 /\ Len(<<>>) = 0 /\ DOMAIN <<>> = {}  BY FS_EmptySet
  <2> QED  BY <1>1, <2>1, <2>2 DEF NoneMissing
<1> QED  BY <1>1, <1>4, <1>6, <1>7, <1>8, <1>9, <1>10, <1>11, <1>12 DEF ReadInv, Unbroken, s

LEMMA ReadError ==
  ASSUME NEW s, AreTokens(s), NEW c \in 0..Len(s), ReadInv(s, c, p), DOMAIN p = ParserFields, SyntaxError
  PROVE  /\ ReadInv(s, c, p') /\ p'.at = "recover" /\ p'.text = p.text /\ p'.of = p.of
<1> DEFINE r == Reduced(p, Lookahead)
<1>1. p' = [r EXCEPT !.at = "recover", !.sdoc = <<>>, !.fdoc = <<>>, !.fields = <<>>]
  BY DEF SyntaxError
<1>2. DOMAIN r = ParserFields /\ r.text = p.text /\ r.of = p.of /\ r.input = p.input
  BY SameHeader, ReducedValues
<1>3. StructsRead(s, r.structs)  BY PassedReduced DEF ReadInv, AreTokens
<1> HIDE DEF r
<1>4. /\ p'.at = "recover" /\ p'.text = p.text /\ p'.of = p.of /\ p'.input = p.input /\ p'.fdoc = <<>>
      /\ p'.structs = r.structs
  BY <1>1, <1>2 DEF ParserFields
<1>5. Position(s, c, p')  BY <1>4 DEF Position, ReadInv
<1>6. LastRead(s, c, p'.at)  BY <1>4 DEF LastRead
<1>7. MemberRead(s, c, p')  BY <1>4 DEF MemberRead, InBody, InDecl
<1>8. BodyRead(s, c, p')  BY <1>4 DEF BodyRead, InBody, InDecl, BehindBody
<1> QED  BY <1>3, <1>4, <1>5, <1>6, <1>7, <1>8 DEF ReadInv

LEMMA ReadRecover ==
  ASSUME NEW s, AreTokens(s), NEW c \in 0..Len(s), ReadInv(s, c, p), DOMAIN p = ParserFields, Recover
  PROVE  /\ c + 1 \in 0..Len(s) /\ ReadInv(s, c + 1, p') /\ p'.at \in {"top", "recover"}
         /\ p'.text = p.text /\ p'.of = p.of
<1> DEFINE rest == Rest
           at == IF Lookahead.t = "SEMI" THEN "top" ELSE "recover"
<1>1. p' = [p EXCEPT !.input = rest, !.at = at] /\ p.at = "recover" /\ Lookahead # EOF
  BY DEF Recover, Parsing
<1>2. IsSequence(s) /\ Position(s, c, p) /\ StructsRead(s, p.structs) /\ p.fdoc = <<>>
  BY <1>1 DEF AreTokens, ReadInv, MemberRead, InBody, InDecl
<1>3. /\ c \in Nat /\ Len(s) \in Nat /\ c # Len(s) /\ DOMAIN s = 1..Len(s)
      /\ c < Len(s) => /\ c + 1 \in DOMAIN s /\ Lookahead = s[c + 1] /\ rest = SubSeq(s, c + 2, Len(s))
  BY <1>1, <1>2, TokenLookedAt
<1>4. c < Len(s)
  <2>1. c \in Nat /\ Len(s) \in Nat /\ c # Len(s)  BY <1>3
  <2> QED  BY <2>1
<1> HIDE DEF rest
<1>5. /\ p'.at = at /\ p'.text = p.text /\ p'.of = p.of /\ p'.input = rest /\ p'.fdoc = <<>>
      /\ p'.structs = p.structs
  BY <1>1, <1>2 DEF ParserFields
<1>6. Position(s, c + 1, p') /\ c + 1 \in 0..Len(s)
  <2>1. c \in Nat /\ Len(s) \in Nat  BY <1>3
  <2>2. c + 1 \in 0..Len(s) /\ (c + 1) + 1 = c + 2  BY <1>4, <2>1
  <2> QED  BY <1>3, <1>4, <1>5, <2>2 DEF Position
<1>7. at = "top" => At(s, c + 1) = "SEMI"  BY <1>3, <1>4 DEF At
<1> HIDE DEF at
<1>8. at \in {"top", "recover"}  BY DEF at
<1>9. LastRead(s, c + 1, p'.at)  BY <1>5, <1>7, <1>8 DEF LastRead
<1>10. MemberRead(s, c + 1, p')  BY <1>5, <1>8 DEF MemberRead, InBody, InDecl
<1>11. BodyRead(s, c + 1, p')  BY <1>5, <1>8 DEF BodyRead, InBody, InDecl, BehindBody
<1> QED  BY <1>2, <1>5, <1>6, <1>8, <1>9, <1>10, <1>11 DEF ReadInv

\* At the end of the input the list is complete, unless an error has been reported.
LEMMA ReadAll ==
  ASSUME NEW s, AreTokens(s), NEW c \in 0..Len(s), ReadInv(s, c, p), DOMAIN p = ParserFields, Accept
  PROVE  /\ StructsRead(s, p'.structs) /\ p'.text = p.text /\ p'.of = p.of
         /\ Unbroken(s, c, p) => NoneMissing(s, Closings(s), p'.structs)
<1>1. p' = Reduced(p, EOF) /\ Lookahead = EOF  BY DEF Accept
<1>2. IsSequence(s) /\ Position(s, c, p) /\ \A i \in DOMAIN s : s[i].t # "EOF"
  BY DEF AreTokens, ReadInv
<1>3. c = Len(s)
  <2>1. /\ c \in Nat /\ Len(s) \in Nat /\ c <= Len(s)
        /\ c < Len(s) => /\ c + 1 \in DOMAIN s /\ Lookahead = s[c + 1]
    <3>1. c \in Nat /\ Len(s) \in Nat
      BY <1>2, TokenLookedAt
    <3>2. c < Len(s) => /\ c + 1 \in DOMAIN s /\ Lookahead = s[c + 1]
      BY <1>2, TokenLookedAt
    <3> QED  BY <3>1, <3>2
  <2>2. EOF.t = "EOF"  BY DEF EOF
  <2>3. ~(c < Len(s))  BY <1>1, <1>2, <2>1, <2>2
  <2> QED  BY <2>1, <2>3
<1>4. Passed(s, c + 1) = Closings(s)
  <2>1. Len(s) \in Nat /\ DOMAIN s = 1..Len(s)  BY <1>2, Sequence
  <2>2. ASSUME NEW e \in Closings(s) PROVE e + 2 < c + 1
    <3>1. At(s, e + 2) = "SEMI" /\ e \in DOMAIN s  BY DEF Closings
    <3>2. e \in Nat  BY <2>1, <3>1
    <3>3. e + 2 \in 1..Len(s)  BY <1>2, <3>1, <3>2, AtToken
    <3> QED  BY <1>3, <2>1, <3>2, <3>3
  <2> QED  BY <2>2 DEF Passed
<1>5. p'.text = p.text /\ p'.of = p.of  BY <1>1, ReducedValues
<1>6. /\ StructsRead(s, p'.structs)
      /\ Unbroken(s, c, p) => NoneMissing(s, Passed(s, c + 1), p'.structs)
  BY <1>1, <1>2, PassedReduced DEF ReadInv
<1> QED  BY <1>4, <1>5, <1>6

-----------------------------------------------------------------------------
(* The steps around the parser *)


StructInv == ParsingInv /\ VersionInv /\ FilesInv

\* The tokens of a run.
LEMMA TextTokens == ASSUME VersionInv, p.of # 0 PROVE AreTokens(Text)
  BY HeadersAssumption DEF VersionInv, Text

\* Without an EMPTY that swallows text the tokens are those that C and Doxygen read, and
\* the header says what they say.
LEMMA NothingSwallowed ==
  ASSUME NEW h \in Headers, ~Swallows(h)
  PROVE  Scanned(h) = Code(h)
<1> DEFINE s == Written(h)
           E == Empties(s)
<1>1. IsSequence(s)  BY HeadersAssumption
<1>2. E = {}  BY DEF Swallows
<1> HIDE DEF E
<1>3. Swallowers(s) = {}
  <2> DEFINE Good(O) == \A i \in E : i \in O <=> ~\E o \in O : o < i /\ i <= Min(Ends(s, o))
  <2>1. Swallowers(s) = CHOOSE O \in SUBSET E : Good(O)  BY DEF Swallowers, E
  <2>2. {} \in SUBSET E /\ Good({})  BY <1>2
  <2> HIDE DEF Good
  <2>3. Swallowers(s) \in SUBSET E  BY <2>1, <2>2
  <2> QED  BY <1>2, <2>3
<1>4. Matched(s) = [i \in DOMAIN s |-> s[i]]  BY <1>3 DEF Matched
<1>5. [i \in DOMAIN s |-> s[i]] = s
  <2> HIDE DEF s
  <2>1. s \in [1..Len(s) -> {s[i] : i \in DOMAIN s}]  BY <1>1 DEF IsSequence
  <2> QED  BY <2>1
<1> QED  BY <1>4, <1>5 DEF Scanned, Code

LEMMA TextSays ==
  ASSUME VersionInv, p.of # 0, ~Swallows(p.text)
  PROVE  /\ DOMAIN Says(p.text) = 1..Cardinality(Closings(Text))
         /\ \A e \in Closings(Text) :
              LET said == Says(p.text)[Rank(Closings(Text), e)]
              IN  /\ said.name = Text[e + 1].id
                  /\ IsSequence(said.fields)
                  /\ Len(said.fields) = Cardinality(Semicolons(Text, e))
                  /\ \A i \in Semicolons(Text, e) :
                       Supported(Text, i) =>
                         said.fields[Rank(Semicolons(Text, e), i)] = MemberAt(Text, i)
         /\ \A i, j \in DOMAIN Says(p.text) : i # j => Says(p.text)[i].name # Says(p.text)[j].name
<1>1. p.text \in Headers  BY DEF VersionInv
<1>2. Text = Code(p.text)  BY <1>1, NothingSwallowed DEF Text
<1>3. SaysItsTokens(p.text)  BY <1>1, HeadersAssumption
<1> QED  BY <1>2, <1>3 DEF SaysItsTokens

LEMMA StructInit == Init => StructInv
<1> SUFFICES ASSUME Init PROVE StructInv
  OBVIOUS
<1>1. /\ phase = "idle" /\ ~current /\ p.of = 0 /\ cfile.of = 0 /\ hfile.of = 0 /\ ~hfile.whole
      /\ version = 1 /\ header \in Headers
  BY DEF Init, NewParser, NoFile
<1> QED  BY <1>1 DEF StructInv, ParsingInv, VersionInv, FilesInv

\* A run that fails leaves no file make takes for current and whole at once.
LEMMA StructFails ==
  ASSUME IInv, StructInv, phase \in Generating, NEW touched, Fails(touched),
         UNCHANGED <<header, version>>, complained => complained',
         hfile' = hfile \/ hfile' = [NoFile EXCEPT !.of = p.of],
         p' = p \/ (phase = "parse" /\ p'.of = p.of /\ p'.text = p.text)
  PROVE  StructInv'
<1>1. /\ phase' = "failed"
      /\ \/ cfile' = NoFile /\ ~current'
         \/ cfile' = cfile /\ current' = current
  BY DEF Fails
<1>2. p'.of = p.of /\ p'.text = p.text  OBVIOUS
<1>3. current' => current /\ p' = p /\ cfile' = cfile
  BY <1>1 DEF IInv, RunInv
<1>4. hfile'.whole => hfile' = hfile  BY Empty
<1>5. ParsingInv'
  <2>1. p' = p => Text' = Text  BY DEF Text
  <2> QED  BY <1>1, <1>3, <2>1 DEF ParsingInv, StructInv
<1>6. hfile.whole => hfile.of < p.of /\ p.of \in 0..version /\ version \in Nat /\ hfile.of \in 0..version
  BY DEF StructInv, VersionInv
<1>7. VersionInv'
  <2>1. hfile'.of \in 0..version /\ cfile'.of \in 0..version /\ version \in Nat \ {0}
    <3>1. NoFile.of = 0  BY DEF NoFile
    <3>2. hfile'.of \in {hfile.of, p.of}  BY Empty
    <3>3. /\ version \in Nat \ {0} /\ p.of \in 0..version
          /\ cfile.of \in 0..version /\ hfile.of \in 0..version
      BY DEF StructInv, VersionInv
    <3>4. 0 \in 0..version  BY <3>3
    <3>5. cfile'.of \in {0, cfile.of}  BY <1>1, <3>1
    <3> QED  BY <3>2, <3>3, <3>4, <3>5
  <2>2. ~current' => cfile'.of < version
    <3>1. NoFile.of = 0 /\ 0 < version  BY <2>1 DEF NoFile
    <3> QED  BY <1>1, <3>1 DEF StructInv, VersionInv
  <2>3. hfile'.whole => hfile'.of # 0 /\ (~current' => hfile'.of < version)
    <3>1. hfile.whole => hfile.of < version  BY <1>6
    <3> QED  BY <1>4, <3>1 DEF StructInv, VersionInv
  <2> QED  BY <1>1, <1>2, <2>1, <2>2, <2>3 DEF StructInv, VersionInv, Generating
<1>8. FilesInv'
  <2>1. hfile.whole => hfile.of # p.of  BY <1>6
  <2> QED  BY <1>1, <1>3, <1>4, <2>1 DEF StructInv, FilesInv
<1> QED  BY <1>5, <1>7, <1>8 DEF StructInv

\* While the parser works, the files are those of earlier versions.
LEMMA StructParses ==
  ASSUME IInv, StructInv, phase = "parse", phase' \in {"parse", "open"}, p'.of = p.of, p'.text = p.text,
         UNCHANGED <<header, version, cfile, hfile, current>>
  PROVE  VersionInv' /\ FilesInv' /\ ~current'
<1>1. ~current  BY DEF IInv, RunInv
<1>2. VersionInv'  BY DEF StructInv, VersionInv, Generating
<1>3. FilesInv'  BY <1>1 DEF FilesInv
<1> QED  BY <1>1, <1>2, <1>3

LEMMA StructParse == ASSUME IInv, StructInv, yyparse PROVE StructInv'
<1> USE DEF source, files, maker, emission
<1>1. phase = "parse" /\ ~current /\ DOMAIN p = ParserFields /\ p.of # 0 /\ VersionInv
  BY DEF yyparse, Shift, SyntaxError, Recover, PointerMember, ParseFails, Accept, Parsing,
         IInv, Shapes, RunInv, StructInv, ParsingInv
<1>2. AreTokens(Text)  BY <1>1, TextTokens
<1>3. PICK c \in 0..Len(Text) : ReadInv(Text, c, p) /\ (~complained => Unbroken(Text, c, p))
  BY <1>1 DEF StructInv, ParsingInv
<1>4. ASSUME phase' = "parse", UNCHANGED <<header, version, cfile, hfile, current>>,
             p'.of = p.of, p'.text = p.text, p'.at \in DOMAIN Grammar \cup {"pointer", "recover"},
             NEW d \in 0..Len(Text), ReadInv(Text, d, p'), ~complained' => Unbroken(Text, d, p')
      PROVE  StructInv'
  <2>1. VersionInv' /\ FilesInv' /\ ~current'  BY <1>1, <1>4, StructParses
  <2>2. Text' = Text  BY <1>4 DEF Text
  <2>3. ParsingInv'  BY <1>1, <1>4, <2>1, <2>2 DEF ParsingInv
  <2> QED  BY <2>1, <2>3 DEF StructInv
<1>5. CASE Shift
  <2>1. phase' = "parse" /\ UNCHANGED <<header, version, cfile, hfile, current, complained>>
    BY <1>1, <1>5 DEF Shift
  <2>2. /\ c + 1 \in 0..Len(Text) /\ ReadInv(Text, c + 1, p')
        /\ Unbroken(Text, c, p) => Unbroken(Text, c + 1, p')
        /\ p'.at \in DOMAIN Grammar \cup {"pointer"} /\ p'.text = p.text /\ p'.of = p.of
    BY <1>1, <1>2, <1>3, <1>5, ReadShift
  <2> QED  BY <1>3, <1>4, <2>1, <2>2
<1>6. CASE SyntaxError
  <2>1. phase' = "parse" /\ UNCHANGED <<header, version, cfile, hfile, current>> /\ complained'
    BY <1>1, <1>6 DEF SyntaxError
  <2>2. ReadInv(Text, c, p') /\ p'.at = "recover" /\ p'.text = p.text /\ p'.of = p.of
    BY <1>1, <1>2, <1>3, <1>6, ReadError
  <2> QED  BY <1>4, <2>1, <2>2
<1>7. CASE Recover
  <2>1. /\ phase' = "parse" /\ UNCHANGED <<header, version, cfile, hfile, current, complained>>
        /\ p.at = "recover"
    BY <1>1, <1>7 DEF Recover, Parsing
  <2>2. complained'  BY <1>3, <2>1 DEF Unbroken
  <2>3. /\ c + 1 \in 0..Len(Text) /\ ReadInv(Text, c + 1, p') /\ p'.at \in {"top", "recover"}
        /\ p'.text = p.text /\ p'.of = p.of
    BY <1>1, <1>2, <1>3, <1>7, ReadRecover
  <2>4. "top" \in DOMAIN Grammar  BY DEF Grammar
  <2> QED  BY <1>4, <2>1, <2>2, <2>3, <2>4
<1>8. CASE PointerMember \/ ParseFails
  <2>1. Fails(FALSE) /\ UNCHANGED <<header, version, hfile, p>>
    BY <1>8 DEF PointerMember, ParseFails
  <2>2. complained => complained'
    <3>1. CASE PointerMember  BY <3>1 DEF PointerMember
    <3>2. CASE ParseFails  BY <3>2 DEF ParseFails
    <3> QED  BY <1>8, <3>1, <3>2
  <2> QED  BY <1>1, <2>1, <2>2, StructFails DEF Generating
<1>9. CASE Accept
  <2>1. /\ StructsRead(Text, p'.structs) /\ p'.text = p.text /\ p'.of = p.of
        /\ Unbroken(Text, c, p) => NoneMissing(Text, Closings(Text), p'.structs)
    BY <1>1, <1>2, <1>3, <1>9, ReadAll
  <2>2. UNCHANGED <<header, version, hfile>>  BY <1>9 DEF Accept
  <2>3. CASE Fails(FALSE) /\ complained'  BY <1>1, <2>1, <2>2, <2>3, StructFails DEF Generating
  <2>4. CASE phase' = "open" /\ UNCHANGED <<cfile, current, complained>>
    <3>1. VersionInv' /\ FilesInv' /\ ~current'  BY <1>1, <2>1, <2>2, <2>4, StructParses
    <3>2. Text' = Text  BY <2>1 DEF Text
    <3>3. ParsingInv'  BY <1>1, <1>3, <2>1, <2>4, <3>2 DEF ParsingInv
    <3> QED  BY <3>1, <3>3 DEF StructInv
  <2> QED  BY <1>9, <2>3, <2>4 DEF Accept
<1> QED  BY <1>5, <1>6, <1>7, <1>8, <1>9 DEF yyparse

\* The lists of the parser stay as they are behind the parser.
LEMMA StructKept ==
  ASSUME StructInv, p' = p, complained' = complained,
         phase' \in {"open", "emit", "header", "compile", "built", "idle", "failed"},
         current' \/ phase' \in {"open", "emit", "header", "compile", "built"} =>
           current \/ phase \in {"open", "emit", "header", "compile", "built"}
  PROVE  ParsingInv' /\ Structs' = Structs /\ CatalogNames' = CatalogNames
<1>1. Text' = Text /\ Structs' = Structs  BY DEF Text, Structs
<1> QED  BY <1>1 DEF StructInv, ParsingInv, CatalogNames, Structs

LEMMA StructEmit ==
  ASSUME IInv, OrderInv, StructInv, struct_meta_gen_emit
  PROVE  StructInv'
<1> USE DEF source, files, maker, emission
<1>0. /\ p' = p /\ UNCHANGED <<header, version>> /\ phase \in {"open", "emit", "header"}
      /\ IsFile(cfile) /\ IsFile(hfile)
  BY DEF struct_meta_gen_emit, OpenSource, EmitNext, VisitField, EmitDescriptor,
         emit_catalog_source, emit_catalog_header, IInv, Shapes
<1>1. /\ phase \in Generating /\ hfile.whole => hfile.of < p.of
      /\ p.of \in Nat /\ hfile.of \in Nat /\ version \in Nat /\ p.of <= version /\ p.of # 0
  BY <1>0 DEF StructInv, VersionInv, ParsingInv, Generating
<1>2. hfile.whole => hfile.of # p.of  BY <1>0, <1>1 DEF Generating
<1>3. ASSUME NEW touched, Fails(touched), complained => complained', hfile' = hfile
      PROVE  StructInv'
  BY <1>0, <1>3, StructFails DEF Generating
<1>4. ASSUME phase = "emit", phase' = "emit", UNCHANGED <<cfile, hfile, current, complained>>
      PROVE  StructInv'
  <2>1. ParsingInv' /\ Structs' = Structs /\ CatalogNames' = CatalogNames  BY <1>0, <1>4, StructKept
  <2>2. VersionInv'  BY <1>0, <1>4 DEF StructInv, VersionInv
  <2>3. FilesInv'  BY <1>0, <1>4, <2>1 DEF StructInv, FilesInv
  <2> QED  BY <2>1, <2>2, <2>3 DEF StructInv
<1>5. CASE OpenSource
  <2>1. CASE Fails(FALSE) /\ complained'  BY <1>3, <1>5, <2>1 DEF OpenSource
  <2>2. CASE /\ phase' = "emit" /\ cfile' = [NoFile EXCEPT !.of = p.of] /\ current'
             /\ UNCHANGED complained
    <3>1. phase = "open" /\ hfile' = hfile  BY <1>5 DEF OpenSource
    <3>2. ParsingInv' /\ Structs' = Structs /\ CatalogNames' = CatalogNames
      BY <1>0, <2>2, <3>1, StructKept
    <3>3. cfile'.of = p.of /\ cfile'.items = <<>>  BY <2>2 DEF NoFile
    <3>4. VersionInv'  BY <1>0, <1>1, <2>2, <3>1, <3>3 DEF StructInv, VersionInv, Generating
    <3>5. DOMAIN <<>> = {}  OBVIOUS
    <3>6. FilesInv'  BY <1>0, <1>2, <3>1, <3>2, <3>3, <3>5 DEF FilesInv
    <3> QED  BY <3>2, <3>4, <3>6 DEF StructInv
  <2> QED  BY <1>5, <2>1, <2>2 DEF OpenSource
<1>6. CASE EmitNext
  BY <1>4, <1>6 DEF EmitNext
<1>7. CASE VisitField
  <2>1. hfile' = hfile /\ phase = "emit"  BY <1>7 DEF VisitField
  <2>2. \/ UNCHANGED <<phase, cfile, current, complained>>
        \/ Fails(TRUE) /\ complained'
        \/ Fails(TRUE) /\ UNCHANGED complained
    BY <1>7 DEF VisitField
  <2>3. CASE UNCHANGED <<phase, cfile, current, complained>>  BY <1>4, <2>1, <2>3
  <2>4. CASE Fails(TRUE) /\ complained'  BY <1>3, <2>1, <2>4
  <2>5. CASE Fails(TRUE) /\ UNCHANGED complained
    <3>1. complained => complained'  BY <2>5
    <3> QED  BY <1>3, <2>1, <2>5, <3>1
  <2> QED  BY <2>2, <2>3, <2>4, <2>5
<1>8. CASE EmitDescriptor
  <2> DEFINE d == Descriptor(RunningStruct)
             items == Append(cfile.items, d)
             n == Len(cfile.items)
  <2>1. /\ phase = "emit" /\ phase' = "emit" /\ stack # <<>> /\ UNCHANGED <<hfile, current, complained>>
        /\ cfile' = [cfile EXCEPT !.items = items]
    BY <1>8 DEF EmitDescriptor
  <2>2. Running.s \in DOMAIN Structs
    <3>1. stack \in Seq(Calls)  BY <2>1 DEF OrderInv, Emission, Calls
    <3> QED  BY <2>1, <3>1, Advanced DEF Calls
  <2>3. /\ n \in Nat /\ DOMAIN cfile.items = 1..n /\ DOMAIN items = 1..(n + 1)
        /\ \A i \in 1..n : items[i] = cfile.items[i]
        /\ items[n + 1] = d
    BY Sequence DEF OrderInv
  <2>4. ParsingInv' /\ Structs' = Structs /\ CatalogNames' = CatalogNames
    BY <1>0, <2>1, StructKept
  <2> HIDE DEF items
  <2>5. cfile'.items = items /\ cfile'.of = cfile.of /\ cfile'.whole = cfile.whole
    BY <1>0, <2>1 DEF IsFile
  <2>6. VersionInv'  BY <1>0, <2>1, <2>5 DEF StructInv, VersionInv
  <2>7. d = Descriptor(p.structs[Running.s]) /\ Running.s \in DOMAIN p.structs
    BY <2>2 DEF RunningStruct, Structs
  <2> HIDE DEF d
  <2>8. ASSUME cfile.of = p.of, NEW i \in DOMAIN items
        PROVE  \E x \in DOMAIN p.structs : items[i] = Descriptor(p.structs[x])
    <3>1. i \in 1..n \/ i = n + 1  BY <2>3
    <3>2. CASE i \in 1..n  BY <2>1, <2>3, <2>8, <3>2 DEF StructInv, FilesInv
    <3>3. CASE i = n + 1  BY <2>3, <2>7, <3>3
    <3> QED  BY <3>1, <3>2, <3>3
  <2>9. FilesInv'
    <3>1. hfile'.whole => hfile'.of # p'.of  BY <1>0, <1>2, <2>1
    <3>2. cfile'.of = p'.of => \A i \in DOMAIN cfile'.items : \E x \in DOMAIN p'.structs :
             cfile'.items[i] = Descriptor(p'.structs[x])
      BY <1>0, <2>5, <2>8
    <3> QED  BY <3>1, <3>2 DEF FilesInv
  <2> QED  BY <2>4, <2>6, <2>9 DEF StructInv
<1>9. CASE emit_catalog_source
  <2>1. /\ phase = "emit" /\ phase' = "header" /\ current' /\ UNCHANGED <<hfile, complained>>
        /\ \/ cfile' = [cfile EXCEPT !.whole = TRUE, !.catalog = CatalogNames]
           \/ cfile' = cfile
    BY <1>9 DEF emit_catalog_source
  <2>2. cfile'.items = cfile.items /\ cfile'.of = cfile.of
    <3> DEFINE names == CatalogNames
    <3>1. \/ cfile' = [cfile EXCEPT !.whole = TRUE, !.catalog = names]
          \/ cfile' = cfile
      BY <2>1
    <3> HIDE DEF names
    <3> QED  BY <1>0, <3>1 DEF IsFile
  <2>3. ParsingInv' /\ Structs' = Structs /\ CatalogNames' = CatalogNames
    BY <1>0, <2>1, StructKept
  <2>4. VersionInv'  BY <1>0, <1>1, <2>1, <2>2 DEF StructInv, VersionInv, Generating
  <2>5. FilesInv'  BY <1>0, <1>2, <2>1, <2>2, <2>3 DEF StructInv, FilesInv
  <2> QED  BY <2>3, <2>4, <2>5 DEF StructInv
<1>10. CASE emit_catalog_header
  <2>1. phase = "header"  BY <1>10 DEF emit_catalog_header
  <2>2. CASE Fails(TRUE) /\ complained' /\ hfile' = hfile  BY <1>3, <2>2
  <2>3. CASE /\ phase' = "compile" /\ UNCHANGED <<cfile, current, complained>>
             /\ \/ hfile' = [NoFile EXCEPT !.of = p.of, !.whole = TRUE, !.catalog = CatalogNames]
                \/ hfile' = [NoFile EXCEPT !.of = p.of]
    <3>1. ParsingInv' /\ Structs' = Structs /\ CatalogNames' = CatalogNames
      BY <1>0, <2>1, <2>3, StructKept
    <3>2. hfile'.of = p.of /\ (hfile'.whole => hfile'.catalog = CatalogNames)
      <4> DEFINE names == CatalogNames
      <4>1. \/ hfile' = [NoFile EXCEPT !.of = p.of, !.whole = TRUE, !.catalog = names]
            \/ hfile' = [NoFile EXCEPT !.of = p.of]
        BY <2>3
      <4> HIDE DEF names
      <4>2. hfile'.of = p.of /\ (hfile'.whole => hfile'.catalog = names)
        BY <4>1 DEF NoFile
      <4> QED  BY <4>2 DEF names
    <3>3. ~current => p.of < version
      <4>1. cfile.of = p.of  BY <2>1 DEF IInv, RunInv
      <4> QED  BY <4>1 DEF StructInv, VersionInv
    <3>4. VersionInv'  BY <1>0, <1>1, <2>3, <3>2, <3>3 DEF StructInv, VersionInv, Generating
    <3>5. FilesInv'  BY <1>0, <2>1, <2>3, <3>1, <3>2 DEF StructInv, FilesInv
    <3> QED  BY <3>1, <3>4, <3>5 DEF StructInv
  <2>4. \/ Fails(TRUE) /\ complained' /\ hfile' = hfile
        \/ /\ phase' = "compile" /\ UNCHANGED <<cfile, current, complained>>
           /\ \/ hfile' = [NoFile EXCEPT !.of = p.of, !.whole = TRUE, !.catalog = CatalogNames]
              \/ hfile' = [NoFile EXCEPT !.of = p.of]
    BY <1>10 DEF emit_catalog_header
  <2> QED  BY <2>2, <2>3, <2>4
<1> QED  BY <1>5, <1>6, <1>7, <1>8, <1>9, <1>10 DEF struct_meta_gen_emit

LEMMA StructAround ==
  ASSUME IInv, StructInv, Make \/ Kill \/ Compile \/ EditHeader \/ UNCHANGED vars
  PROVE  StructInv'
<1> USE DEF source, files, maker, emission
<1>1. CASE Make
  <2>1. phase \in Ended /\ UNCHANGED <<header, version, cfile, hfile, current>>  BY <1>1 DEF Make
  <2>2. CASE current /\ phase' = "compile" /\ UNCHANGED <<p, complained>>
    <3>1. ParsingInv' /\ Structs' = Structs /\ CatalogNames' = CatalogNames
      BY <2>1, <2>2, StructKept
    <3>2. VersionInv'  BY <2>1, <2>2 DEF StructInv, VersionInv, Generating
    <3>3. FilesInv'  BY <2>1, <2>2, <3>1 DEF StructInv, FilesInv
    <3> QED  BY <3>1, <3>2, <3>3 DEF StructInv
  <2>3. CASE ~current /\ phase' = "parse" /\ p' = NewParser(header, version) /\ ~complained'
    <3>1. AreTokens(Scanned(header))  BY HeadersAssumption DEF StructInv, VersionInv
    <3>2. /\ p'.text = header /\ p'.of = version /\ p'.at = "top" /\ 0 \in 0..Len(Scanned(header))
          /\ ReadInv(Scanned(header), 0, p') /\ Unbroken(Scanned(header), 0, p')
      BY <2>3, <3>1, ReadNothing
    <3>3. Text' = Scanned(header)  BY <3>2 DEF Text
    <3>4. version \in Nat \ {0}  BY DEF StructInv, VersionInv
    <3>5. p'.at \in DOMAIN Grammar  BY <3>2 DEF Grammar
    <3>6. ParsingInv'  BY <2>1, <2>3, <3>2, <3>3, <3>4, <3>5 DEF ParsingInv
    <3>7. VersionInv'  BY <2>1, <2>3, <3>2, <3>4 DEF StructInv, VersionInv, Generating
    <3>8. FilesInv'  BY <2>1, <2>3 DEF FilesInv
    <3> QED  BY <3>6, <3>7, <3>8 DEF StructInv
  <2> QED  BY <1>1, <2>2, <2>3 DEF Make
<1>2. CASE Kill
  <2> DEFINE touched == phase \in {"emit", "header"}
  <2>1. /\ phase \in Generating /\ UNCHANGED <<header, version, p, complained>> /\ Fails(touched)
        /\ hfile' = hfile \/ hfile' = [NoFile EXCEPT !.of = p.of]
    BY <1>2 DEF Kill
  <2> HIDE DEF touched
  <2> QED  BY <2>1, StructFails
<1>3. CASE Compile
  <2>1. /\ phase = "compile" /\ phase' \in {"built", "failed"}
        /\ UNCHANGED <<header, version, p, cfile, hfile, current, complained>>
    BY <1>3 DEF Compile
  <2>2. ParsingInv' /\ Structs' = Structs /\ CatalogNames' = CatalogNames
    BY <2>1, StructKept
  <2>3. VersionInv'  BY <2>1 DEF StructInv, VersionInv, Generating
  <2>4. FilesInv'  BY <2>1, <2>2 DEF StructInv, FilesInv
  <2> QED  BY <2>2, <2>3, <2>4 DEF StructInv
<1>4. CASE EditHeader
  <2>1. /\ header' \in Headers /\ version' = version + 1 /\ ~current'
        /\ UNCHANGED <<p, cfile, hfile, complained>>
        /\ (phase' = phase /\ phase \in Generating \cup {"compile"}) \/ phase' = "idle"
    BY <1>4, EditsAssumption DEF EditHeader
  <2>2. Text' = Text /\ CatalogNames' = CatalogNames  BY <2>1 DEF Text, CatalogNames, Structs
  <2>3. ParsingInv'  BY <2>1, <2>2 DEF StructInv, ParsingInv, Generating
  <2>4. VersionInv'
    <3>1. /\ version \in Nat \ {0} /\ version' \in Nat \ {0}
          /\ \A v \in 0..version : v \in 0..version' /\ v < version'
      BY <2>1 DEF StructInv, VersionInv
    <3> QED  BY <2>1, <3>1 DEF StructInv, VersionInv, Generating
  <2>5. FilesInv'  BY <2>1, <2>2 DEF StructInv, FilesInv, Generating
  <2> QED  BY <2>3, <2>4, <2>5 DEF StructInv
<1>5. CASE UNCHANGED vars
  <2>1. UNCHANGED <<header, version, phase, p, cfile, hfile, current, complained>>
    BY <1>5 DEF vars
  <2>2. Text' = Text /\ CatalogNames' = CatalogNames  BY <2>1 DEF Text, CatalogNames, Structs
  <2>3. ParsingInv' /\ VersionInv' /\ FilesInv'
    BY <2>1, <2>2 DEF StructInv, ParsingInv, VersionInv, FilesInv
  <2> QED  BY <2>3 DEF StructInv
<1> QED  BY <1>1, <1>2, <1>3, <1>4, <1>5

-----------------------------------------------------------------------------
(* The theorems *)


\* What the generator has read is what stands in the header, and its files have what it has read.
LEMMA StructInvariance == Spec => []StructInv
<1>1. IInv /\ OrderInv /\ StructInv /\ [Next]_vars => StructInv'
  BY StructParse, StructEmit, StructAround DEF Next
<1>2. Spec => []OrderInv  BY WalkInvariance
<1> QED  BY <1>1, <1>2, StructInit, Invariance, PTL DEF Spec

\* No structure of a header is lost without a word: when the generator ends well and says
\* nothing, the catalogue has the name of every declaration, in the order of the header,
\* for headers of any length, whatever damaged declarations stand between them, as long as
\* no empty comment swallows text.
THEOREM NoStructureIsLost == Spec => []CatalogComplete
<1>1. ASSUME StructInv PROVE CatalogComplete
  <2>1. SUFFICES ASSUME phase \in {"compile", "built"}, hfile.whole, hfile.of = p.of, ~complained,
                        ~Swallows(p.text)
                 PROVE  hfile.catalog = [i \in DOMAIN Says(p.text) |-> Says(p.text)[i].name]
    BY DEF CatalogComplete, Silent, AllOfIt
  <2> DEFINE X == Closings(Text)
             said == Says(p.text)
  <2>2. p.of # 0 /\ StructsRead(Text, p.structs) /\ NoneMissing(Text, X, p.structs)
    BY <1>1, <2>1 DEF StructInv, ParsingInv
  <2>3. hfile.catalog = [i \in DOMAIN p.structs |-> p.structs[i].name]
    BY <1>1, <2>1 DEF StructInv, FilesInv, CatalogNames, Structs
  <2>4. DOMAIN said = 1..Cardinality(X) /\ \A e \in X : said[Rank(X, e)].name = Text[e + 1].id
    BY <1>1, <2>1, <2>2, TextSays DEF StructInv
  <2>5. DOMAIN p.structs = 1..Cardinality(X)
    BY <2>2, Sequence DEF StructsRead, NoneMissing
  <2> HIDE DEF X, said
  <2>6. ASSUME NEW i \in DOMAIN p.structs PROVE p.structs[i].name = said[i].name
    <3>1. PICK e \in X : Rank(X, e) = i /\ p.structs[i].name = Text[e + 1].id
      BY <2>2 DEF NoneMissing
    <3> QED  BY <2>4, <3>1
  <2> QED  BY <2>3, <2>4, <2>5, <2>6 DEF said
<1> QED  BY <1>1, StructInvariance, PTL

\* The place of a position among the others.
LEMMA RankIsPlace ==
  ASSUME NEW X, IsFiniteSet(X), X \subseteq Nat, NEW e \in X
  PROVE  Rank(X, e) \in 1..Cardinality(X)
<1> DEFINE Y == {j \in X : j <= e}
<1>1. Y \subseteq X /\ e \in Y  OBVIOUS
<1>2. Cardinality(X) \in Nat /\ Cardinality(Y) \in Nat /\ Cardinality(Y) <= Cardinality(X)
      /\ IsFiniteSet(Y)
  BY <1>1, FS_CardinalityType, FS_Subset
<1>3. Cardinality(Y) # 0  BY <1>1, <1>2, FS_EmptySet
<1> QED  BY <1>2, <1>3 DEF Rank

\* A member of a type the grammar has, and its number of elements.
LEMMA MemberKinds ==
  ASSUME NEW s, AreTokens(s), NEW i, Supported(s, i)
  PROVE  LET m == MemberAt(s, i)
         IN  /\ Count(m) \in Nat /\ m.is_struct \in BOOLEAN
             /\ m.size # <<>> =>
                  /\ Count(m) > 0 /\ InC(m.size) \in Nat
                  /\ ~Octal(m.size) => InC(m.size) = Count(m)
             /\ ~m.is_struct => m.type \in {"int", "char", "float", "double", "unsigned"}
<1> DEFINE m == MemberAt(s, i)
           a == TypeAt(s, i)
<1>1. \A j : At(s, j) # "EOF" => j \in DOMAIN s /\ At(s, j) = s[j].t  BY DEF At
<1>2. /\ Count(m) \in Nat
      /\ m.size # <<>> => /\ Count(m) > 0 /\ InC(m.size) \in Nat
                          /\ ~Octal(m.size) => InC(m.size) = Count(m)
  <2>1. m.size = IF At(s, i - 1) = "RBRACKET" THEN s[i - 2].digits ELSE <<>>  BY DEF MemberAt
  <2>2. CASE At(s, i - 1) = "RBRACKET"
    <3>1. At(s, i - 2) = "INTEGER"  BY <2>2 DEF Supported
    <3>2. i - 2 \in DOMAIN s /\ s[i - 2].t = "INTEGER"  BY <1>1, <3>1
    <3>3. m.size # <<>> /\ strtol(m.size) \in Nat \ {0} /\ InC(m.size) \in Nat \ {0}
      BY <2>1, <2>2, <3>2 DEF AreTokens
    <3>4. ~Octal(m.size) => InC(m.size) = strtol(m.size)  BY DEF InC, strtol
    <3> QED  BY <3>3, <3>4 DEF Count
  <2>3. CASE At(s, i - 1) # "RBRACKET"  BY <2>1, <2>3 DEF Count
  <2> QED  BY <2>2, <2>3
<1>3. m.is_struct = (s[a].t = "IDENT") /\ m.type = TypeOf(s, a)  BY DEF MemberAt
<1>4. s[a].t \in Types \cup {"T_UNSIGNED"}
  <2>1. At(s, a) \in Types \cup {"T_UNSIGNED"}  BY DEF Supported
  <2>2. At(s, a) # "EOF"  BY <2>1 DEF Types
  <2> QED  BY <1>1, <2>1, <2>2
<1>5. ASSUME s[a].t # "IDENT"
      PROVE  TypeOf(s, a) \in {"int", "char", "float", "double", "unsigned"}
  <2>1. TypeOf(s, a) = TypeNames[s[StartAt(s, a)].t]  BY <1>5 DEF TypeOf
  <2>2. s[StartAt(s, a)].t \in {"T_INT", "T_CHAR", "T_FLOAT", "T_DOUBLE", "T_UNSIGNED"}
    <3>1. StartAt(s, a) = a \/ (StartAt(s, a) = a - 1 /\ At(s, a - 1) = "T_UNSIGNED")
      BY DEF StartAt
    <3>2. At(s, a - 1) = "T_UNSIGNED" => s[a - 1].t = "T_UNSIGNED"  BY <1>1
    <3> QED  BY <1>4, <1>5, <3>1, <3>2 DEF Types
  <2> QED  BY <2>1, <2>2 DEF TypeNames
<1> QED  BY <1>2, <1>3, <1>5

LEMMA FieldInside ==
  ASSUME NEW s, AreTokens(s), NEW i, Supported(s, i), ~LoneChar(MemberAt(s, i)),
         ~OctalCount(MemberAt(s, i))
  PROVE  Touched(Described(FieldRead(s, i)), MemberAt(s, i)) = Member(MemberAt(s, i))
<1> DEFINE m == MemberAt(s, i)
           f == FieldRead(s, i)
           d == Described(f)
           n == IF m.size = <<>> THEN 1 ELSE InC(m.size)
<1>1. /\ Count(m) \in Nat /\ m.is_struct \in BOOLEAN
      /\ m.size # <<>> => /\ Count(m) > 0 /\ InC(m.size) \in Nat
                          /\ ~Octal(m.size) => InC(m.size) = Count(m)
      /\ ~m.is_struct => m.type \in {"int", "char", "float", "double", "unsigned"}
  BY MemberKinds
<1>2. f.type = m.type /\ f.is_struct = m.is_struct /\ f.count = Count(m)  BY DEF FieldRead
<1>3. /\ d.kind = field_kind(f) /\ d.element_count = element_count(f)
      /\ d.char_buffer = (field_kind(f) = "CHAR_ARRAY")
  BY DEF Described
<1>4. ~(m.type = "char" /\ m.size = <<>>)  BY DEF LoneChar
<1>5. m.is_struct \/ m.type # "char" => ~Octal(m.size)  BY DEF OctalCount
<1>6. m.size = <<>> => Count(m) = 0  BY DEF Count
<1>7. n \in Nat  BY <1>1
<1>8. Member(m) = n * (IF m.is_struct THEN 1 ELSE SizeOf[m.type])  BY DEF Member
<1> HIDE DEF m, f, d
<1>9. field_kind(f) = IF m.is_struct THEN "STRUCT"
                      ELSE IF m.type = "char" THEN "CHAR_ARRAY"
                      ELSE IF m.type = "int" THEN "INT"
                      ELSE IF m.type = "unsigned" THEN "UNSIGNED"
                      ELSE IF m.type = "float" THEN "FLOAT" ELSE "DOUBLE"
  BY <1>1, <1>2, <1>4 DEF field_kind
<1>10. CASE ~m.is_struct /\ m.type = "char"
  <2>1. d.char_buffer /\ d.element_count = 1
    BY <1>3, <1>9, <1>10 DEF element_count
  <2>2. Member(m) \in Int  BY <1>7, <1>8, <1>10 DEF SizeOf
  <2>3. Touched(d, m) = 1 * Member(m)  BY <2>1 DEF Touched
  <2> QED  BY <2>2, <2>3 DEF m, f, d
<1>11. ASSUME m.is_struct \/ m.type # "char"
       PROVE  d.element_count = n /\ ~d.char_buffer
  <2>1. field_kind(f) # "CHAR_ARRAY"  BY <1>9, <1>11
  <2>2. ~d.char_buffer  BY <1>3, <2>1
  <2>3. element_count(f) = IF Count(m) > 0 THEN Count(m) ELSE 1
    BY <1>2, <2>1 DEF element_count
  <2>4. ~Octal(m.size)  BY <1>5, <1>11
  <2> QED  BY <1>1, <1>3, <1>6, <2>2, <2>3, <2>4
<1>12. CASE m.is_struct
  <2>1. d.kind = "STRUCT"  BY <1>3, <1>9, <1>12
  <2>2. Touched(d, m) = n * 1 /\ Member(m) = n * 1
    BY <1>8, <1>11, <1>12, <2>1 DEF Touched
  <2> QED  BY <2>2 DEF m, f, d
<1>13. CASE ~m.is_struct /\ m.type # "char"
  <2>1. d.kind \in {"INT", "UNSIGNED", "FLOAT", "DOUBLE"} /\ KindSize[d.kind] = SizeOf[m.type]
    BY <1>1, <1>3, <1>9, <1>13 DEF KindSize, SizeOf
  <2>2. Touched(d, m) = n * SizeOf[m.type] /\ Member(m) = n * SizeOf[m.type]
    BY <1>8, <1>11, <1>13, <2>1 DEF Touched
  <2> QED  BY <2>2 DEF m, f, d
<1> QED  BY <1>10, <1>12, <1>13

\* Each descriptor of a pair is that of the structure the header says.
LEMMA PairRead ==
  ASSUME StructInv, Emitted, ~Swallows(p.text), NEW pair \in Pairs
  PROVE  \E e \in Closings(Text) : \E struct :
           /\ StructAt(Text, e, struct) /\ cfile.items[pair[1]] = Descriptor(struct)
           /\ LET members == Says(p.text)[pair[2]].fields
              IN  /\ IsSequence(members) /\ Len(members) = Cardinality(Semicolons(Text, e))
                  /\ \A i \in Semicolons(Text, e) :
                       Supported(Text, i) => members[Rank(Semicolons(Text, e), i)] = MemberAt(Text, i)
<1> DEFINE X == Closings(Text)
           said == Says(p.text)
<1>1. /\ pair[1] \in DOMAIN cfile.items /\ pair[2] \in DOMAIN said
      /\ cfile.items[pair[1]].name = said[pair[2]].name
  BY DEF Pairs
<1>2. p.of # 0 /\ StructsRead(Text, p.structs) /\ p.text \in Headers
  BY DEF StructInv, ParsingInv, VersionInv, Emitted
<1>3. PICK x \in DOMAIN p.structs : cfile.items[pair[1]] = Descriptor(p.structs[x])
  BY <1>1 DEF StructInv, FilesInv, Emitted
<1>4. PICK e \in X : StructAt(Text, e, p.structs[x])  BY <1>2 DEF StructsRead
<1>5. /\ DOMAIN said = 1..Cardinality(X)
      /\ LET mine == said[Rank(X, e)]
         IN  /\ mine.name = Text[e + 1].id
             /\ IsSequence(mine.fields)
             /\ Len(mine.fields) = Cardinality(Semicolons(Text, e))
             /\ \A i \in Semicolons(Text, e) :
                  Supported(Text, i) => mine.fields[Rank(Semicolons(Text, e), i)] = MemberAt(Text, i)
      /\ \A i, j \in DOMAIN said : i # j => said[i].name # said[j].name
  BY <1>2, TextSays DEF StructInv
<1>6. Rank(X, e) \in DOMAIN said
  <2>1. IsSequence(Text)  BY <1>2, TextTokens DEF StructInv, AreTokens
  <2>2. Len(Text) \in Nat /\ X \subseteq 1..Len(Text)  BY <2>1, Sequence DEF Closings
  <2>3. IsFiniteSet(1..Len(Text)) /\ X \subseteq Nat  BY <2>2, FS_Interval
  <2>4. IsFiniteSet(X)  BY <2>2, <2>3, FS_Subset
  <2> HIDE DEF X, said
  <2> QED  BY <1>5, <2>3, <2>4, RankIsPlace
<1>7. Rank(X, e) = pair[2]
  <2>1. p.structs[x].name = Text[e + 1].id  BY <1>4 DEF StructAt
  <2>2. Descriptor(p.structs[x]).name = p.structs[x].name  BY DEF Descriptor
  <2>3. said[Rank(X, e)].name = said[pair[2]].name  BY <1>1, <1>3, <1>5, <2>1, <2>2
  <2> HIDE DEF X, said
  <2> QED  BY <1>1, <1>5, <1>6, <2>3
<1> QED  BY <1>3, <1>4, <1>5, <1>7

\* What a descriptor in the .c says of kinds, counts and buffers is what the members of the
\* structure of that name have, so that the library's readers and writers stay inside them,
\* for any members the grammar has a type for but a lone char and an array whose size is
\* written in octal, in any header without an empty comment that swallows text.
THEOREM DescriptorsStayInside == Spec => []ReadersStayInside
<1>1. ASSUME StructInv PROVE ReadersStayInside
  <2>1. SUFFICES ASSUME Emitted, ~Swallows(p.text), NEW pair \in Pairs
                 PROVE  LET described == cfile.items[pair[1]].fields
                            members == Says(p.text)[pair[2]].fields
                        IN  /\ Len(described) = Len(members)
                            /\ \A i \in DOMAIN members :
                                 \/ LoneChar(members[i]) \/ OctalCount(members[i])
                                 \/ Stays(members, described, i)
    BY DEF ReadersStayInside
  <2> DEFINE described == cfile.items[pair[1]].fields
             members == Says(p.text)[pair[2]].fields
             S(e) == Semicolons(Text, e)
  <2>2. PICK e \in Closings(Text) : \E struct :
          /\ StructAt(Text, e, struct) /\ cfile.items[pair[1]] = Descriptor(struct)
          /\ IsSequence(members) /\ Len(members) = Cardinality(S(e))
          /\ \A i \in S(e) : Supported(Text, i) => members[Rank(S(e), i)] = MemberAt(Text, i)
    BY <1>1, <2>1, PairRead
  <2>3. PICK struct :
          /\ StructAt(Text, e, struct) /\ cfile.items[pair[1]] = Descriptor(struct)
          /\ IsSequence(members) /\ Len(members) = Cardinality(S(e))
          /\ \A i \in S(e) : Supported(Text, i) => members[Rank(S(e), i)] = MemberAt(Text, i)
    BY <2>2
  <2>4. described = [i \in DOMAIN struct.fields |-> Described(struct.fields[i])]
    BY <2>3 DEF Descriptor
  <2>5. AreTokens(Text)
    BY <1>1, <2>1, TextTokens DEF StructInv, ParsingInv, Emitted
  <2>6. FieldsAre(Text, S(e), struct.fields)  BY <2>3 DEF StructAt
  <2> HIDE DEF members, described, S
  <2>7. /\ DOMAIN members = 1..Len(members) /\ DOMAIN struct.fields = 1..Len(struct.fields)
        /\ Len(members) = Len(struct.fields) /\ Len(members) \in Nat
    BY <2>3, <2>6, Sequence DEF FieldsAre
  <2>8. Len(described) = Len(members)  BY <2>4, <2>7
  <2>9. ASSUME NEW i \in DOMAIN members, ~LoneChar(members[i]), ~OctalCount(members[i])
        PROVE  Stays(members, described, i)
    <3>1. PICK k \in S(e) : Rank(S(e), k) = i /\ Supported(Text, k) /\ struct.fields[i] = FieldRead(Text, k)
      BY <2>6, <2>7, <2>9 DEF FieldsAre
    <3>2. members[i] = MemberAt(Text, k)  BY <2>3, <3>1
    <3>3. described[i] = Described(FieldRead(Text, k))  BY <2>4, <2>7, <2>9, <3>1
    <3> QED  BY <2>5, <2>9, <3>1, <3>2, <3>3, FieldInside DEF Stays
  <2> QED  BY <2>8, <2>9 DEF members, described
<1> QED  BY <1>1, StructInvariance, PTL

-----------------------------------------------------------------------------
(* Texts, their lines and the commands in them *)


\* From one to n, step by step.
LEMMA StepByStep ==
  ASSUME NEW n \in Nat, NEW X, n > 0 => 1 \in X, \A i \in 1..(n - 1) : i \in X => i + 1 \in X
  PROVE  1..n \subseteq X
<1> DEFINE Y == (1..n) \ X
<1>1. SUFFICES ASSUME Y # {} PROVE FALSE  OBVIOUS
<1>2. Y \in SUBSET Nat  OBVIOUS
<1>3. Min(Y) \in Y /\ \A m \in Y : Min(Y) <= m  BY <1>1, <1>2, MinIsLeast
<1>4. Min(Y) \in 1..n /\ Min(Y) \notin X  BY <1>3
<1>5. Min(Y) # 1  BY <1>4
<1>6. Min(Y) - 1 \in 1..(n - 1) /\ Min(Y) - 1 \notin Y  BY <1>3, <1>4, <1>5
<1>7. Min(Y) - 1 \in X  BY <1>6
<1>8. (Min(Y) - 1) + 1 = Min(Y)  BY <1>4
<1> QED  BY <1>4, <1>6, <1>7, <1>8

\* The greatest of some places: Max.
LEMMA MaxIsGreatest ==
  ASSUME NEW n \in Nat, NEW X \in SUBSET (1..n), X # {}
  PROVE  Max(X) \in X /\ \A x \in X : x <= Max(X)
<1> DEFINE Y == {n - x : x \in X}
<1>0. \A x \in X : x \in 1..n /\ n - x \in Nat  OBVIOUS
<1>1. Y # {} /\ Y \in SUBSET Nat  BY <1>0
<1>2. Min(Y) \in Y /\ \A m \in Y : Min(Y) <= m  BY <1>1, MinIsLeast
<1>3. PICK x \in X : Min(Y) = n - x  BY <1>2
<1>4. \A y \in X : n - x <= n - y  BY <1>2, <1>3
<1>5. \A y \in X : y <= x  BY <1>0, <1>4
<1> QED  BY <1>5 DEF Max

LEMMA MaxIsOnly ==
  ASSUME NEW n \in Nat, NEW X \in SUBSET (1..n), NEW x \in X, \A y \in X : y <= x
  PROVE  Max(X) = x
<1>1. Max(X) \in X /\ \A y \in X : y <= Max(X)  BY MaxIsGreatest
<1>2. \A y \in X : y \in Nat  OBVIOUS
<1>3. x <= Max(X) /\ Max(X) <= x  BY <1>1
<1>4. x \in Nat /\ Max(X) \in Nat  BY <1>1, <1>2
<1> QED  BY <1>3, <1>4

\* A function on 1..n is a sequence.
LEMMA IntervalIsSequence ==
  ASSUME NEW n \in Nat, NEW s, DOMAIN s = 1..n, s = [i \in 1..n |-> s[i]]
  PROVE  IsSequence(s) /\ Len(s) = n
<1> DEFINE R == {s[i] : i \in DOMAIN s}
<1>1. \A i \in 1..n : s[i] \in R  OBVIOUS
<1> HIDE DEF R
<1>2. s \in Seq(R)  BY <1>1, SeqDef
<1>3. Len(s) = n  BY <1>2, LenProperties
<1> QED  BY <1>2, <1>3 DEF R, IsSequence

\* Two sequences behind one another.
LEMMA Concatenation ==
  ASSUME NEW s, IsSequence(s), NEW u, IsSequence(u)
  PROVE  /\ IsSequence(s \o u) /\ Len(s \o u) = Len(s) + Len(u)
         /\ DOMAIN (s \o u) = 1..(Len(s) + Len(u))
         /\ \A i \in 1..Len(s) : (s \o u)[i] = s[i]
         /\ \A i \in 1..Len(u) : (s \o u)[Len(s) + i] = u[i]
<1> DEFINE S == {s[i] : i \in DOMAIN s}
           U == {u[i] : i \in DOMAIN u}
           T == S \cup U
           r == s \o u
<1>1. s \in Seq(S) /\ u \in Seq(U)  BY DEF IsSequence
<1>2. Len(s) \in Nat /\ Len(u) \in Nat /\ DOMAIN s = 1..Len(s) /\ DOMAIN u = 1..Len(u)  BY Sequence
<1>3. s \in Seq(T) /\ u \in Seq(T)
  <2>1. S \subseteq T /\ U \subseteq T  OBVIOUS
  <2> HIDE DEF S, U, T
  <2> QED  BY <1>1, <2>1
<1> HIDE DEF S, U, T
<1>4. /\ r \in Seq(T) /\ Len(r) = Len(s) + Len(u)
      /\ \A i \in 1..(Len(s) + Len(u)) : r[i] = IF i <= Len(s) THEN s[i] ELSE u[i - Len(s)]
  BY <1>3, ConcatProperties
<1>5. DOMAIN r = 1..(Len(s) + Len(u)) /\ r = [i \in 1..(Len(s) + Len(u)) |-> r[i]]
  <2> HIDE DEF r
  <2>1. DOMAIN r = 1..Len(r)  BY <1>4, LenProperties
  <2>2. r = [i \in DOMAIN r |-> r[i]]  BY <1>4, SeqDef
  <2> QED  BY <1>4, <2>1, <2>2
<1>6. \A i \in 1..Len(s) : r[i] = s[i]
  <2>1. \A i \in 1..Len(s) : i \in 1..(Len(s) + Len(u)) /\ i <= Len(s)  BY <1>2
  <2> QED  BY <1>4, <2>1
<1>7. \A i \in 1..Len(u) : r[Len(s) + i] = u[i]
  <2>1. \A i \in 1..Len(u) : /\ Len(s) + i \in 1..(Len(s) + Len(u)) /\ ~(Len(s) + i <= Len(s))
                             /\ (Len(s) + i) - Len(s) = i
    BY <1>2
  <2> QED  BY <1>4, <2>1
<1> HIDE DEF r
<1>8. Len(s) + Len(u) \in Nat  BY <1>2
<1>9. IsSequence(r)  BY <1>5, <1>8, IntervalIsSequence
<1> QED  BY <1>4, <1>5, <1>6, <1>7, <1>9 DEF r

LEMMA SameElements ==
  ASSUME NEW s, IsSequence(s), NEW u, IsSequence(u), Len(s) = Len(u),
         \A i \in 1..Len(s) : s[i] = u[i]
  PROVE  s = u
<1> DEFINE T == {s[i] : i \in DOMAIN s} \cup {u[i] : i \in DOMAIN u}
<1>1. s \in Seq({s[i] : i \in DOMAIN s}) /\ u \in Seq({u[i] : i \in DOMAIN u})  BY DEF IsSequence
<1>2. DOMAIN s = 1..Len(s) /\ DOMAIN u = 1..Len(u) /\ s = [i \in DOMAIN s |-> s[i]]
      /\ u = [i \in DOMAIN u |-> u[i]]
  BY <1>1
<1> QED  BY <1>2

\* What FlattenSeq computes, one line more each time.
Flattens(t, n, f) == f = [i \in 1..n |-> IF i = 1 THEN t[i] ELSE f[i - 1] \o t[i]]

LEMMA FlattenExists ==
  ASSUME NEW t, IsSequence(t), t # <<>>
  PROVE  \E f : Flattens(t, Len(t), f)
<1> DEFINE X == {n \in 1..Len(t) : \E f : Flattens(t, n, f)}
<1>1. Len(t) \in Nat /\ Len(t) > 0
  <2>1. Len(t) \in Nat /\ DOMAIN t = 1..Len(t)  BY Sequence
  <2>2. Len(t) # 0
    <3>1. SUFFICES ASSUME Len(t) = 0 PROVE FALSE  OBVIOUS
    <3>2. t \in Seq({t[i] : i \in DOMAIN t})  BY DEF IsSequence
    <3>3. t = <<>>  BY <3>1, <3>2, EmptySeq
    <3> QED  BY <3>3
  <2> QED  BY <2>1, <2>2
<1>2. 1 \in X
  <2> DEFINE f == [i \in 1..1 |-> t[i]]
  <2>1. \A i \in 1..1 : i = 1  OBVIOUS
  <2>2. f = [i \in 1..1 |-> IF i = 1 THEN t[i] ELSE f[i - 1] \o t[i]]  BY <2>1
  <2> HIDE DEF f
  <2>3. Flattens(t, 1, f)  BY <2>2 DEF Flattens
  <2>4. 1 \in 1..Len(t)  BY <1>1
  <2> QED  BY <2>3, <2>4
<1>3. ASSUME NEW n \in 1..(Len(t) - 1), n \in X PROVE n + 1 \in X
  <2>1. PICK f : f = [i \in 1..n |-> IF i = 1 THEN t[i] ELSE f[i - 1] \o t[i]]
    BY <1>3 DEF Flattens
  <2> DEFINE g == [i \in 1..(n + 1) |-> IF i = n + 1 THEN f[n] \o t[n + 1] ELSE f[i]]
  <2>2. n + 1 \in 1..Len(t) /\ n \in 1..(n + 1) /\ n # n + 1 /\ n + 1 # 1 /\ (n + 1) - 1 = n
        /\ \A i \in 1..(n + 1) : i # n + 1 => i \in 1..n
    BY <1>1
  <2>3. ASSUME NEW i \in 1..(n + 1)
        PROVE  g[i] = IF i = 1 THEN t[i] ELSE g[i - 1] \o t[i]
    <3>1. CASE i = n + 1
      <4>1. g[i] = f[n] \o t[n + 1] /\ g[n] = f[n]  BY <2>2, <3>1
      <4> QED  BY <2>2, <3>1, <4>1
    <3>2. CASE i = 1
      <4>1. i \in 1..n  BY <2>2, <3>2
      <4> QED  BY <2>1, <2>2, <3>2, <4>1
    <3>3. CASE i # n + 1 /\ i # 1
      <4>1. i \in 1..n /\ i - 1 \in 1..(n + 1) /\ i - 1 # n + 1  BY <2>2, <3>3
      <4>2. g[i] = f[i] /\ g[i - 1] = f[i - 1]  BY <3>3, <4>1
      <4>3. f[i] = f[i - 1] \o t[i]  BY <2>1, <3>3, <4>1
      <4> QED  BY <3>3, <4>2, <4>3
    <3> QED  BY <3>1, <3>2, <3>3
  <2>4. g = [i \in 1..(n + 1) |-> IF i = 1 THEN t[i] ELSE g[i - 1] \o t[i]]
    <3>1. g = [i \in 1..(n + 1) |-> g[i]]  OBVIOUS
    <3> HIDE DEF g
    <3> QED  BY <2>3, <3>1
  <2> HIDE DEF g
  <2>5. Flattens(t, n + 1, g)  BY <2>4 DEF Flattens
  <2> QED  BY <2>2, <2>5
<1> HIDE DEF X
<1>4. 1..Len(t) \subseteq X  BY <1>1, <1>2, <1>3, StepByStep
<1>5. Len(t) \in X  BY <1>1, <1>4
<1> QED  BY <1>5 DEF X

LEMMA FlattenUnfolds ==
  ASSUME NEW t, IsSequence(t), t # <<>>
  PROVE  /\ Len(t) \in Nat \ {0}
         /\ \E f : /\ FlattenSeq(t) = f[Len(t)] /\ f[1] = t[1]
                   /\ \A i \in 2..Len(t) : f[i] = f[i - 1] \o t[i]
<1> DEFINE f == CHOOSE f : f = [i \in 1..Len(t) |-> IF i = 1 THEN t[i] ELSE f[i - 1] \o t[i]]
<1>1. Len(t) \in Nat \ {0}
  <2>1. t \in Seq({t[i] : i \in DOMAIN t})  BY DEF IsSequence
  <2>2. Len(t) \in Nat  BY Sequence
  <2>3. Len(t) # 0  BY <2>1, EmptySeq
  <2> QED  BY <2>2, <2>3
<1>2. FlattenSeq(t) = f[Len(t)]  BY <1>1 DEF FlattenSeq
<1>3. f = [i \in 1..Len(t) |-> IF i = 1 THEN t[i] ELSE f[i - 1] \o t[i]]
  BY FlattenExists DEF Flattens
<1> HIDE DEF f
<1>4. 1 \in 1..Len(t) /\ \A i \in 2..Len(t) : i \in 1..Len(t) /\ i # 1  BY <1>1
<1>5. f[1] = t[1]  BY <1>3, <1>4
<1>6. \A i \in 2..Len(t) : f[i] = f[i - 1] \o t[i]  BY <1>3, <1>4
<1> QED  BY <1>1, <1>2, <1>5, <1>6

LEMMA FlattenEmpty == FlattenSeq(<<>>) = <<>>
  BY DEF FlattenSeq

LEMMA FlattenOne ==
  ASSUME NEW t, IsSequence(t), Len(t) = 1
  PROVE  FlattenSeq(t) = t[1]
<1>1. t # <<>>  OBVIOUS
<1> QED  BY <1>1, FlattenUnfolds

\* What is joined up to a line is a sequence, and no shorter than its beginning.
LEMMA FlattenTyped ==
  ASSUME NEW t, IsText(t), t # <<>>, NEW f, f[1] = t[1],
         \A i \in 2..Len(t) : f[i] = f[i - 1] \o t[i]
  PROVE  \A i \in 1..Len(t) : IsSequence(f[i]) /\ Len(f[i]) >= Len(t[1])
<1> DEFINE X == {i \in 1..Len(t) : IsSequence(f[i]) /\ Len(f[i]) >= Len(t[1])}
<1>1. Len(t) \in Nat \ {0} /\ DOMAIN t = 1..Len(t) /\ \A i \in 1..Len(t) : IsSequence(t[i])
  BY FlattenUnfolds, Sequence DEF IsText
<1>2. \A i \in 1..Len(t) : Len(t[i]) \in Nat  BY <1>1, Sequence
<1>3. 1 \in X
  <2>1. 1 \in 1..Len(t)  BY <1>1
  <2>2. Len(t[1]) \in Nat  BY <1>2, <2>1
  <2> QED  BY <1>1, <2>1, <2>2
<1>4. ASSUME NEW i \in 1..(Len(t) - 1), i \in X PROVE i + 1 \in X
  <2>1. i + 1 \in 2..Len(t) /\ i + 1 \in 1..Len(t) /\ (i + 1) - 1 = i /\ 1 \in 1..Len(t)  BY <1>1
  <2>2. f[i + 1] = f[i] \o t[i + 1]  BY <2>1
  <2>3. IsSequence(f[i]) /\ Len(f[i]) >= Len(t[1]) /\ IsSequence(t[i + 1])  BY <1>1, <1>4, <2>1
  <2>4. IsSequence(f[i + 1]) /\ Len(f[i + 1]) = Len(f[i]) + Len(t[i + 1])
    BY <2>2, <2>3, Concatenation
  <2>5. Len(f[i]) \in Nat /\ Len(t[i + 1]) \in Nat /\ Len(t[1]) \in Nat
    BY <1>2, <2>1, <2>3, Sequence
  <2>6. Len(f[i + 1]) >= Len(t[1])
    <3>1. \A a, b, c \in Nat : a >= c => a + b >= c  OBVIOUS
    <3> QED  BY <2>3, <2>4, <2>5, <3>1
  <2> QED  BY <2>1, <2>4, <2>6
<1>5. Len(t) \in Nat  BY <1>1
<1> HIDE DEF X
<1>6. 1..Len(t) \subseteq X  BY <1>3, <1>4, <1>5, StepByStep
<1> QED  BY <1>6 DEF X

LEMMA FlattenIsSequence ==
  ASSUME NEW t, IsText(t)
  PROVE  IsSequence(FlattenSeq(t))
<1>1. CASE t = <<>>  BY <1>1, FlattenEmpty, EmptyIsSequence
<1>2. CASE t # <<>>
  <2>1. IsSequence(t)  BY DEF IsText
  <2>2. Len(t) \in Nat \ {0}  BY <1>2, <2>1, FlattenUnfolds
  <2>3. PICK f : /\ FlattenSeq(t) = f[Len(t)] /\ f[1] = t[1]
                 /\ \A i \in 2..Len(t) : f[i] = f[i - 1] \o t[i]
    BY <1>2, <2>1, FlattenUnfolds
  <2>4. \A i \in 1..Len(t) : IsSequence(f[i])  BY <1>2, <2>3, FlattenTyped
  <2>5. Len(t) \in 1..Len(t)  BY <2>2
  <2> QED  BY <2>3, <2>4, <2>5
<1> QED  BY <1>1, <1>2

LEMMA NothingJoined ==
  ASSUME NEW s, IsSequence(s)
  PROVE  <<>> \o s = s /\ s \o <<>> = s
<1>1. s \in Seq({s[i] : i \in DOMAIN s})  BY DEF IsSequence
<1> QED  BY <1>1, ConcatEmptySeq

\* Empty pieces in front of others and behind them change nothing.
LEMMA FlattenPadded ==
  ASSUME NEW t, IsText(t), NEW u, IsText(u), u # <<>>, NEW a \in Nat, a + Len(u) <= Len(t),
         \A i \in 1..Len(t) : t[i] = IF i \in (a + 1)..(a + Len(u)) THEN u[i - a] ELSE <<>>
  PROVE  FlattenSeq(t) = FlattenSeq(u)
<1> DEFINE N == Len(t)
           M == Len(u)
<1>1. M \in Nat \ {0} /\ N \in Nat \ {0} /\ t # <<>>
      /\ DOMAIN t = 1..N /\ DOMAIN u = 1..M /\ \A i \in 1..M : IsSequence(u[i])
  <2>1. M \in Nat \ {0} /\ DOMAIN u = 1..M /\ \A i \in 1..M : IsSequence(u[i])
    BY FlattenUnfolds, Sequence DEF IsText
  <2>2. N \in Nat /\ DOMAIN t = 1..N  BY Sequence DEF IsText
  <2>3. N # 0  BY <2>1, <2>2
  <2>4. t # <<>>  BY <2>3
  <2> QED  BY <2>1, <2>2, <2>3, <2>4
<1>2. PICK f : /\ FlattenSeq(t) = f[N] /\ f[1] = t[1]
               /\ \A i \in 2..N : f[i] = f[i - 1] \o t[i]
  BY <1>1, FlattenUnfolds DEF IsText
<1>3. PICK g : /\ FlattenSeq(u) = g[M] /\ g[1] = u[1]
               /\ \A i \in 2..M : g[i] = g[i - 1] \o u[i]
  BY FlattenUnfolds DEF IsText
<1>4. \A i \in 1..M : IsSequence(g[i])  BY <1>3, FlattenTyped
<1> DEFINE E(i) == IF i <= a THEN <<>> ELSE IF i <= a + M THEN g[i - a] ELSE g[M]
           X == {i \in 1..N : f[i] = E(i)}
<1>5. 1 \in X
  <2>1. 1 \in 1..N  BY <1>1
  <2>2. CASE a = 0
    <3>1. 1 \in (a + 1)..(a + M) /\ 1 - a = 1 /\ ~(1 <= a) /\ 1 <= a + M  BY <1>1, <2>2
    <3>2. t[1] = u[1]  BY <2>1, <3>1
    <3>3. E(1) = g[1]  BY <3>1
    <3> QED  BY <1>2, <1>3, <2>1, <3>2, <3>3
  <2>3. CASE a # 0
    <3>1. 1 \notin (a + 1)..(a + M) /\ 1 <= a  BY <2>3
    <3>2. t[1] = <<>>  BY <2>1, <3>1
    <3> QED  BY <1>2, <2>1, <3>1, <3>2
  <2> QED  BY <2>2, <2>3
<1>6. ASSUME NEW i \in 1..(N - 1), i \in X PROVE i + 1 \in X
  <2>1. i \in Nat /\ i + 1 \in 1..N /\ i + 1 \in 2..N /\ (i + 1) - 1 = i  BY <1>1
  <2>2. f[i + 1] = f[i] \o t[i + 1] /\ f[i] = E(i)  BY <1>2, <1>6, <2>1
  <2>3. CASE i + 1 <= a
    <3>1. i <= a /\ i + 1 \notin (a + 1)..(a + M)  BY <2>1, <2>3
    <3>2. f[i] = <<>> /\ t[i + 1] = <<>>  BY <2>1, <2>2, <3>1
    <3>3. f[i + 1] = <<>>  BY <2>2, <3>2, EmptyIsSequence, NothingJoined
    <3> QED  BY <2>1, <2>3, <3>3
  <2>4. CASE i = a
    <3>1. i <= a /\ i + 1 \in (a + 1)..(a + M) /\ (i + 1) - a = 1 /\ ~(i + 1 <= a) /\ i + 1 <= a + M
      BY <1>1, <2>1, <2>4
    <3>2. f[i] = <<>> /\ t[i + 1] = u[1]  BY <2>1, <2>2, <3>1
    <3>3. 1 \in 1..M  BY <1>1
    <3>4. f[i + 1] = u[1]  BY <1>1, <2>2, <3>2, <3>3, NothingJoined
    <3>5. E(i + 1) = g[1]  BY <3>1
    <3> QED  BY <1>3, <2>1, <3>4, <3>5
  <2>5. CASE i > a /\ i < a + M
    <3>1. /\ ~(i <= a) /\ i <= a + M /\ i + 1 \in (a + 1)..(a + M)
          /\ ~(i + 1 <= a) /\ i + 1 <= a + M
          /\ (i + 1) - a \in 2..M /\ ((i + 1) - a) - 1 = i - a
      BY <1>1, <2>1, <2>5
    <3>2. f[i] = g[i - a] /\ t[i + 1] = u[(i + 1) - a]  BY <2>1, <2>2, <3>1
    <3>3. g[(i + 1) - a] = g[i - a] \o u[(i + 1) - a]  BY <1>3, <3>1
    <3>4. E(i + 1) = g[(i + 1) - a]  BY <3>1
    <3> QED  BY <2>1, <2>2, <3>2, <3>3, <3>4
  <2>6. CASE i >= a + M
    <3>1. /\ i + 1 \notin (a + 1)..(a + M) /\ ~(i + 1 <= a) /\ ~(i + 1 <= a + M) /\ ~(i <= a)
          /\ i <= a + M => i - a = M
      BY <1>1, <2>1, <2>6
    <3>2. f[i] = g[M] /\ t[i + 1] = <<>>  BY <2>1, <2>2, <3>1
    <3>3. M \in 1..M  BY <1>1
    <3>4. f[i + 1] = g[M]  BY <1>4, <2>2, <3>2, <3>3, NothingJoined
    <3> QED  BY <2>1, <3>1, <3>4
  <2>7. i + 1 <= a \/ i = a \/ (i > a /\ i < a + M) \/ i >= a + M  BY <1>1, <2>1
  <2> QED  BY <2>3, <2>4, <2>5, <2>6, <2>7
<1> HIDE DEF X
<1>7. 1..N \subseteq X  BY <1>1, <1>5, <1>6, StepByStep
<1>8. N \in 1..N /\ ~(N <= a) /\ (N <= a + M => N - a = M)
  <2>1. a + M <= N  OBVIOUS
  <2>2. M \in Nat \ {0} /\ N \in Nat  BY <1>1
  <2> HIDE DEF M, N
  <2> QED  BY <2>1, <2>2
<1>9. f[N] = E(N)  BY <1>7, <1>8 DEF X
<1>10. E(N) = g[M]  BY <1>8
<1> QED  BY <1>2, <1>3, <1>9, <1>10

\* A text is empty only if its first piece is.
LEMMA FlattenBegins ==
  ASSUME NEW t, IsText(t), t # <<>>, t[1] # <<>>
  PROVE  FlattenSeq(t) # <<>>
<1>1. Len(t) \in Nat \ {0} /\ DOMAIN t = 1..Len(t)  BY FlattenUnfolds, Sequence DEF IsText
<1>2. PICK f : /\ FlattenSeq(t) = f[Len(t)] /\ f[1] = t[1]
               /\ \A i \in 2..Len(t) : f[i] = f[i - 1] \o t[i]
  BY FlattenUnfolds DEF IsText
<1>3. Len(t) \in 1..Len(t) /\ 1 \in 1..Len(t)  BY <1>1
<1>4. Len(f[Len(t)]) >= Len(t[1])  BY <1>2, <1>3, FlattenTyped
<1>5. Len(t[1]) \in Nat \ {0}
  <2>1. IsSequence(t[1])  BY <1>1, <1>3 DEF IsText
  <2> QED  BY <2>1, FlattenUnfolds
<1>6. f[Len(t)] # <<>>
  <2>1. SUFFICES ASSUME f[Len(t)] = <<>> PROVE FALSE  OBVIOUS
  <2>2. Len(f[Len(t)]) = 0  BY <2>1
  <2> QED  BY <1>4, <1>5, <2>2
<1> QED  BY <1>2, <1>6

\* Two lines, and two texts line by line, with the same JSON commands.
SameCommands(l, k) ==
  \A cmd \in JsonCommands :
    /\ (Places(l, cmd) = {}) = (Places(k, cmd) = {})
    /\ Places(l, cmd) # {} => l[Max(Places(l, cmd))] = k[Max(Places(k, cmd))]

Alike(t, u) == Len(t) = Len(u) /\ \A i \in 1..Len(t) : SameCommands(t[i], u[i])

LEMMA SameMark == \A cmd \in JsonCommands : Mark.is # cmd
  BY DEF JsonCommands, Mark

LEMMA MarkBefore ==
  ASSUME NEW l, IsSequence(l)
  PROVE  IsSequence(<<Mark>> \o l) /\ SameCommands(l, <<Mark>> \o l)
<1> DEFINE k == <<Mark>> \o l
           n == Len(l)
<1>1. IsSequence(<<Mark>>) /\ Len(<<Mark>>) = 1  BY DEF IsSequence
<1>2. /\ n \in Nat /\ DOMAIN l = 1..n /\ IsSequence(k) /\ DOMAIN k = 1..(1 + n)
      /\ \A i \in 1..1 : k[i] = <<Mark>>[i]
      /\ \A i \in 1..n : k[1 + i] = l[i]
  BY <1>1, Concatenation, Sequence
<1>3. k[1] = Mark  BY <1>2
<1> HIDE DEF k, n
<1>4. ASSUME NEW cmd \in JsonCommands
      PROVE  /\ (Places(l, cmd) = {}) = (Places(k, cmd) = {})
             /\ Places(l, cmd) # {} => l[Max(Places(l, cmd))] = k[Max(Places(k, cmd))]
  <2>1. \A j \in Places(k, cmd) : j \in 1..(1 + n) /\ k[j].is = cmd /\ j # 1
    BY <1>2, <1>3, <1>4, SameMark DEF Places
  <2>2. ASSUME NEW j \in Places(k, cmd) PROVE j - 1 \in Places(l, cmd)
    <3>1. j - 1 \in 1..n /\ 1 + (j - 1) = j  BY <1>2, <2>1, <2>2
    <3>2. k[j] = l[j - 1]  BY <1>2, <3>1
    <3> QED  BY <1>2, <2>1, <2>2, <3>1, <3>2 DEF Places
  <2>3. ASSUME NEW j \in Places(l, cmd) PROVE j \in 1..n /\ 1 + j \in Places(k, cmd)
    <3>1. j \in 1..n /\ l[j].is = cmd  BY <1>2, <2>3 DEF Places
    <3>2. 1 + j \in 1..(1 + n)  BY <1>2, <3>1
    <3> QED  BY <1>2, <3>1, <3>2 DEF Places
  <2>4. ASSUME Places(l, cmd) # {} PROVE l[Max(Places(l, cmd))] = k[Max(Places(k, cmd))]
    <3> DEFINE j == Max(Places(l, cmd))
    <3>1. Places(l, cmd) \in SUBSET (1..n)  BY <1>2 DEF Places
    <3>2. j \in Places(l, cmd) /\ \A i \in Places(l, cmd) : i <= j
      BY <1>2, <2>4, <3>1, MaxIsGreatest
    <3> HIDE DEF j
    <3>3. j \in 1..n /\ 1 + j \in Places(k, cmd)  BY <2>3, <3>2
    <3>4. ASSUME NEW i \in Places(k, cmd) PROVE i <= 1 + j
      <4>1. i - 1 <= j /\ i \in 1..(1 + n)  BY <2>1, <2>2, <3>2, <3>4
      <4> QED  BY <1>2, <3>3, <4>1
    <3>5. Places(k, cmd) \in SUBSET (1..(1 + n)) /\ 1 + n \in Nat  BY <1>2, <2>1
    <3>6. Max(Places(k, cmd)) = 1 + j  BY <3>3, <3>4, <3>5, MaxIsOnly
    <3>7. k[1 + j] = l[j]  BY <1>2, <3>3
    <3> QED  BY <3>6, <3>7 DEF j
  <2> QED  BY <2>2, <2>3, <2>4
<1> QED  BY <1>2, <1>4 DEF SameCommands, k

LEMMA MarkBehind ==
  ASSUME NEW l, IsSequence(l)
  PROVE  IsSequence(Append(l, Mark)) /\ SameCommands(l, Append(l, Mark))
<1> DEFINE k == Append(l, Mark)
           n == Len(l)
<1>1. /\ n \in Nat /\ DOMAIN l = 1..n /\ IsSequence(k) /\ DOMAIN k = 1..(n + 1)
      /\ (\A i \in 1..n : k[i] = l[i]) /\ k[n + 1] = Mark
  BY Sequence
<1> HIDE DEF k, n
<1>2. ASSUME NEW cmd \in JsonCommands
      PROVE  /\ Places(k, cmd) = Places(l, cmd)
             /\ Places(l, cmd) # {} => l[Max(Places(l, cmd))] = k[Max(Places(k, cmd))]
  <2>1. Mark.is # cmd  BY <1>2, SameMark
  <2>2. \A j : j \in 1..(n + 1) <=> j \in 1..n \/ j = n + 1  BY <1>1
  <2>3. Places(k, cmd) = Places(l, cmd)  BY <1>1, <2>1, <2>2 DEF Places
  <2>4. ASSUME Places(l, cmd) # {} PROVE l[Max(Places(l, cmd))] = k[Max(Places(l, cmd))]
    <3>1. Places(l, cmd) \in SUBSET (1..n)  BY <1>1 DEF Places
    <3>2. Max(Places(l, cmd)) \in Places(l, cmd)  BY <1>1, <2>4, <3>1, MaxIsGreatest
    <3> QED  BY <1>1, <3>1, <3>2
  <2> QED  BY <2>3, <2>4
<1> QED  BY <1>1, <1>2 DEF SameCommands, k

LEMMA SameChain ==
  \A l, k, m : SameCommands(l, k) /\ SameCommands(k, m) => SameCommands(l, m)
  BY DEF SameCommands

LEMMA SameSelf == \A l : SameCommands(l, l)
  BY DEF SameCommands

\* The delimiters that stay in a text are no commands.
LEMMA MarksAreNoCommands ==
  ASSUME NEW comments, NEW i, IsText(comments[i].lines)
  PROVE  IsText(JoinedLines(comments, i)) /\ Alike(comments[i].lines, JoinedLines(comments, i))
<1> DEFINE lines == comments[i].lines
           n == Len(lines)
           opened == IF i = 1 THEN lines ELSE [lines EXCEPT ![1] = <<Mark>> \o @]
           joined == IF i = Len(comments) \/ comments[i].style = "line" THEN opened
                     ELSE [opened EXCEPT ![n] = Append(@, Mark)]
<1>1. joined = JoinedLines(comments, i)  BY DEF JoinedLines
<1>2. n \in Nat /\ DOMAIN lines = 1..n /\ lines = [k \in 1..n |-> lines[k]]
      /\ \A k \in 1..n : IsSequence(lines[k])
  <2>1. lines \in Seq({lines[k] : k \in DOMAIN lines})  BY DEF IsText, IsSequence
  <2>2. n \in Nat /\ DOMAIN lines = 1..n  BY Sequence DEF IsText
  <2> QED  BY <2>1, <2>2, SeqDef DEF IsText
<1> HIDE DEF lines, n
<1>3. /\ DOMAIN opened = 1..n /\ opened = [k \in 1..n |-> opened[k]]
      /\ \A k \in 1..n : IsSequence(opened[k]) /\ SameCommands(lines[k], opened[k])
  <2>1. CASE i = 1  BY <1>2, <2>1, SameSelf
  <2>2. CASE i # 1
    <3>1. opened = [k \in 1..n |-> IF k = 1 THEN <<Mark>> \o lines[1] ELSE lines[k]]
      BY <1>2, <2>2
    <3> HIDE DEF opened
    <3>2. ASSUME NEW k \in 1..n PROVE IsSequence(opened[k]) /\ SameCommands(lines[k], opened[k])
      <4>1. CASE k = 1
        <5>1. opened[k] = <<Mark>> \o lines[k]  BY <3>1, <4>1
        <5> QED  BY <1>2, <5>1, MarkBefore
      <4>2. CASE k # 1
        <5>1. opened[k] = lines[k]  BY <3>1, <4>2
        <5> QED  BY <1>2, <5>1, SameSelf
      <4> QED  BY <4>1, <4>2
    <3> QED  BY <3>1, <3>2
  <2> QED  BY <2>1, <2>2
<1> HIDE DEF opened
<1>4. /\ DOMAIN joined = 1..n /\ joined = [k \in 1..n |-> joined[k]]
      /\ \A k \in 1..n : IsSequence(joined[k]) /\ SameCommands(lines[k], joined[k])
  <2>1. CASE i = Len(comments) \/ comments[i].style = "line"  BY <1>3, <2>1
  <2>2. CASE ~(i = Len(comments) \/ comments[i].style = "line")
    <3>1. joined = [k \in 1..n |-> IF k = n THEN Append(opened[n], Mark) ELSE opened[k]]
      BY <1>3, <2>2
    <3> HIDE DEF joined
    <3>2. ASSUME NEW k \in 1..n PROVE IsSequence(joined[k]) /\ SameCommands(lines[k], joined[k])
      <4>1. CASE k = n
        <5>1. joined[k] = Append(opened[k], Mark)  BY <3>1, <4>1
        <5>2. IsSequence(joined[k]) /\ SameCommands(opened[k], joined[k])
          BY <1>3, <5>1, MarkBehind
        <5> QED  BY <1>3, <5>2, SameChain
      <4>2. CASE k # n
        <5>1. joined[k] = opened[k]  BY <3>1, <4>2
        <5> QED  BY <1>3, <5>1
      <4> QED  BY <4>1, <4>2
    <3> QED  BY <3>1, <3>2
  <2> QED  BY <2>1, <2>2
<1> HIDE DEF joined
<1>5. IsSequence(joined) /\ Len(joined) = n  BY <1>2, <1>4, IntervalIsSequence
<1> QED  BY <1>1, <1>4, <1>5 DEF IsText, Alike, lines, n

LEMMA AlikeJoined ==
  ASSUME NEW s, IsSequence(s), NEW u, IsSequence(u), NEW v, IsSequence(v), NEW w, IsSequence(w),
         Alike(s, u), Alike(v, w)
  PROVE  Alike(s \o v, u \o w)
<1> DEFINE m == Len(s)
           n == Len(v)
           x == s \o v
           y == u \o w
<1>1. /\ m \in Nat /\ n \in Nat /\ Len(x) = m + n /\ Len(y) = m + n
      /\ \A i \in 1..m : x[i] = s[i] /\ y[i] = u[i] /\ SameCommands(s[i], u[i])
      /\ \A i \in 1..n : x[m + i] = v[i] /\ y[m + i] = w[i] /\ SameCommands(v[i], w[i])
  <2>1. Len(u) = m /\ Len(w) = n  BY DEF Alike
  <2>2. m \in Nat /\ n \in Nat  BY Sequence
  <2>3. /\ Len(x) = m + n /\ \A i \in 1..m : x[i] = s[i]
        /\ \A i \in 1..n : x[m + i] = v[i]
    BY Concatenation
  <2>4. /\ Len(y) = m + n /\ \A i \in 1..m : y[i] = u[i]
        /\ \A i \in 1..n : y[m + i] = w[i]
    <3>1. /\ Len(y) = Len(u) + Len(w) /\ \A i \in 1..Len(u) : y[i] = u[i]
          /\ \A i \in 1..Len(w) : y[Len(u) + i] = w[i]
      BY Concatenation
    <3> QED  BY <2>1, <3>1
  <2>5. (\A i \in 1..m : SameCommands(s[i], u[i])) /\ \A i \in 1..n : SameCommands(v[i], w[i])
    BY DEF Alike
  <2> QED  BY <2>2, <2>3, <2>4, <2>5
<1> HIDE DEF m, n, x, y
<1>2. ASSUME NEW i \in 1..(m + n) PROVE SameCommands(x[i], y[i])
  <2>1. CASE i <= m
    <3>1. i \in 1..m  BY <1>1, <2>1
    <3> QED  BY <1>1, <3>1
  <2>2. CASE i > m
    <3>1. i - m \in 1..n /\ m + (i - m) = i  BY <1>1, <2>2
    <3>2. x[i] = v[i - m] /\ y[i] = w[i - m] /\ SameCommands(v[i - m], w[i - m])  BY <1>1, <3>1
    <3> QED  BY <3>2
  <2> QED  BY <1>1, <2>1, <2>2
<1> QED  BY <1>1, <1>2 DEF Alike, x, y

\* Texts that are alike piece by piece are alike when they are joined.
LEMMA FlattenAlike ==
  ASSUME NEW t, IsText(t), NEW u, IsText(u), Len(t) = Len(u), t # <<>>, u # <<>>,
         \A i \in 1..Len(t) : Alike(t[i], u[i])
  PROVE  Alike(FlattenSeq(t), FlattenSeq(u))
<1> DEFINE n == Len(t)
<1>1. /\ n \in Nat \ {0} /\ Len(u) = n
      /\ \A i \in 1..n : IsSequence(t[i]) /\ IsSequence(u[i])
  BY FlattenUnfolds, Sequence DEF IsText
<1>2. PICK f : /\ FlattenSeq(t) = f[n] /\ f[1] = t[1]
               /\ \A i \in 2..n : f[i] = f[i - 1] \o t[i]
  BY FlattenUnfolds DEF IsText
<1>3. PICK g : /\ FlattenSeq(u) = g[n] /\ g[1] = u[1]
               /\ \A i \in 2..n : g[i] = g[i - 1] \o u[i]
  BY <1>1, FlattenUnfolds DEF IsText
<1>4. \A i \in 1..n : IsSequence(f[i])  BY <1>2, FlattenTyped
<1>5. \A i \in 1..n : IsSequence(g[i])
  <2>1. \A i \in 1..Len(u) : IsSequence(g[i])  BY <1>1, <1>3, FlattenTyped
  <2> QED  BY <1>1, <2>1
<1> DEFINE X == {i \in 1..n : Alike(f[i], g[i])}
<1> HIDE DEF n
<1>6. 1 \in X
  <2>1. 1 \in 1..n  BY <1>1
  <2> QED  BY <1>2, <1>3, <2>1 DEF n
<1>7. ASSUME NEW i \in 1..(n - 1), i \in X PROVE i + 1 \in X
  <2>1. i \in 1..n /\ i + 1 \in 1..n /\ i + 1 \in 2..n /\ (i + 1) - 1 = i  BY <1>1
  <2>2. f[i + 1] = f[i] \o t[i + 1] /\ g[i + 1] = g[i] \o u[i + 1]  BY <1>2, <1>3, <2>1
  <2>3. Alike(f[i], g[i]) /\ Alike(t[i + 1], u[i + 1])  BY <1>7, <2>1 DEF n
  <2>4. IsSequence(f[i]) /\ IsSequence(g[i]) /\ IsSequence(t[i + 1]) /\ IsSequence(u[i + 1])
    BY <1>1, <1>4, <1>5, <2>1
  <2>5. Alike(f[i + 1], g[i + 1])  BY <2>2, <2>3, <2>4, AlikeJoined
  <2> QED  BY <2>1, <2>5
<1>8. n \in Nat /\ n \in 1..n  BY <1>1
<1> HIDE DEF X
<1>9. 1..n \subseteq X  BY <1>6, <1>7, <1>8, StepByStep
<1>10. Alike(f[n], g[n])  BY <1>8, <1>9 DEF X
<1> QED  BY <1>2, <1>3, <1>10

\* Alike texts have the same commands.
LEMMA AlikeCommands ==
  ASSUME NEW t, IsText(t), NEW u, IsText(u), Alike(t, u), NEW cmd \in JsonCommands
  PROVE  /\ Carriers(t, cmd) = Carriers(u, cmd)
         /\ Carriers(t, cmd) # {} => find_cmd_last(t, cmd) = find_cmd_last(u, cmd)
<1> DEFINE n == Len(t)
<1>1. n \in Nat /\ DOMAIN t = 1..n /\ DOMAIN u = 1..n
  BY Sequence DEF IsText, Alike
<1>2. \A i \in 1..n : /\ (Places(t[i], cmd) = {}) = (Places(u[i], cmd) = {})
                      /\ Places(t[i], cmd) # {} =>
                           t[i][Max(Places(t[i], cmd))] = u[i][Max(Places(u[i], cmd))]
  BY DEF Alike, SameCommands
<1> HIDE DEF n
<1>3. Carriers(t, cmd) = Carriers(u, cmd)  BY <1>1, <1>2 DEF Carriers
<1>4. ASSUME Carriers(t, cmd) # {} PROVE find_cmd_last(t, cmd) = find_cmd_last(u, cmd)
  <2> DEFINE i == Max(Carriers(t, cmd))
  <2>1. Carriers(t, cmd) \in SUBSET (1..n)  BY <1>1 DEF Carriers
  <2>2. i \in Carriers(t, cmd)  BY <1>1, <1>4, <2>1, MaxIsGreatest
  <2>3. i \in 1..n /\ Places(t[i], cmd) # {}  BY <1>1, <2>2 DEF Carriers
  <2>4. Max(Carriers(u, cmd)) = i  BY <1>3
  <2> HIDE DEF i
  <2>5. find_cmd_last(t, cmd) = t[i][Max(Places(t[i], cmd))]  BY DEF find_cmd_last, i
  <2>6. find_cmd_last(u, cmd) = u[i][Max(Places(u[i], cmd))]  BY <2>4 DEF find_cmd_last
  <2> QED  BY <1>2, <2>3, <2>5, <2>6
<1> QED  BY <1>3, <1>4

\* Comments as the parser collects them.
AreComments(comments) ==
  IsSequence(comments) /\ \A i \in DOMAIN comments : IsText(comments[i].lines)

\* Texts joined are a text.
LEMMA FlattenIsText ==
  ASSUME NEW t, IsSequence(t), \A i \in DOMAIN t : IsText(t[i])
  PROVE  IsText(t) /\ IsText(FlattenSeq(t))
<1>1. IsText(t)  BY DEF IsText
<1>2. CASE t = <<>>  BY <1>1, <1>2, FlattenEmpty
<1>3. CASE t # <<>>
  <2> DEFINE n == Len(t)
  <2>1. n \in Nat \ {0} /\ DOMAIN t = 1..n  BY <1>3, FlattenUnfolds, Sequence
  <2>2. PICK f : /\ FlattenSeq(t) = f[n] /\ f[1] = t[1]
                 /\ \A i \in 2..n : f[i] = f[i - 1] \o t[i]
    BY <1>3, FlattenUnfolds
  <2> DEFINE X == {i \in 1..n : IsText(f[i])}
  <2> HIDE DEF n
  <2>3. 1 \in X
    <3>1. 1 \in 1..n  BY <2>1
    <3> QED  BY <2>1, <2>2, <3>1
  <2>4. ASSUME NEW i \in 1..(n - 1), i \in X PROVE i + 1 \in X
    <3>1. i + 1 \in 1..n /\ i + 1 \in 2..n /\ (i + 1) - 1 = i  BY <2>1
    <3> DEFINE a == f[i]
               b == t[i + 1]
    <3>2. f[i + 1] = a \o b /\ IsText(a) /\ IsText(b)  BY <2>1, <2>2, <2>4, <3>1
    <3> HIDE DEF a, b
    <3>3. IsSequence(a) /\ IsSequence(b)  BY <3>2 DEF IsText
    <3>4. /\ IsSequence(a \o b) /\ DOMAIN (a \o b) = 1..(Len(a) + Len(b))
          /\ \A k \in 1..Len(a) : (a \o b)[k] = a[k]
          /\ \A k \in 1..Len(b) : (a \o b)[Len(a) + k] = b[k]
          /\ Len(a) \in Nat /\ Len(b) \in Nat /\ DOMAIN a = 1..Len(a) /\ DOMAIN b = 1..Len(b)
      BY <3>3, Concatenation, Sequence
    <3>5. ASSUME NEW k \in 1..(Len(a) + Len(b)) PROVE IsSequence((a \o b)[k])
      <4>1. CASE k <= Len(a)
        <5>1. k \in 1..Len(a)  BY <3>4, <4>1
        <5> QED  BY <3>2, <3>4, <5>1 DEF IsText
      <4>2. CASE k > Len(a)
        <5>1. k - Len(a) \in 1..Len(b) /\ Len(a) + (k - Len(a)) = k  BY <3>4, <4>2
        <5>2. (a \o b)[k] = b[k - Len(a)]  BY <3>4, <5>1
        <5> QED  BY <3>2, <3>4, <5>1, <5>2 DEF IsText
      <4> QED  BY <3>4, <4>1, <4>2
    <3>6. IsText(a \o b)  BY <3>4, <3>5 DEF IsText
    <3> QED  BY <3>1, <3>2, <3>6
  <2>5. n \in Nat /\ n \in 1..n  BY <2>1
  <2> HIDE DEF X
  <2>6. 1..n \subseteq X  BY <2>3, <2>4, <2>5, StepByStep
  <2> QED  BY <1>1, <2>2, <2>5, <2>6 DEF X
<1> QED  BY <1>2, <1>3

\* What is stripped of comments has their commands.
LEMMA StrippedAlike ==
  ASSUME NEW comments, AreComments(comments), comments # <<>>
  PROVE  /\ IsText(Stripped(comments)) /\ IsText(RawLines(comments))
         /\ Alike(RawLines(comments), Stripped(comments))
<1> DEFINE n == Len(comments)
           t == [i \in DOMAIN comments |-> comments[i].lines]
           u == [i \in DOMAIN comments |-> JoinedLines(comments, i)]
<1>1. n \in Nat \ {0} /\ DOMAIN comments = 1..n
  BY FlattenUnfolds, Sequence DEF AreComments
<1>2. \A i \in 1..n : /\ IsText(t[i]) /\ IsText(u[i]) /\ Alike(t[i], u[i])
  BY <1>1, MarksAreNoCommands DEF AreComments
<1>3. /\ DOMAIN t = 1..n /\ t = [i \in 1..n |-> t[i]] /\ DOMAIN u = 1..n /\ u = [i \in 1..n |-> u[i]]
  BY <1>1
<1>4. Stripped(comments) = FlattenSeq(u) /\ RawLines(comments) = FlattenSeq(t)
  BY DEF Stripped, RawLines
<1> HIDE DEF n, t, u
<1>5. IsSequence(t) /\ Len(t) = n /\ IsSequence(u) /\ Len(u) = n
  BY <1>1, <1>3, IntervalIsSequence
<1>6. IsText(t) /\ IsText(FlattenSeq(t)) /\ IsText(u) /\ IsText(FlattenSeq(u))
  BY <1>2, <1>3, <1>5, FlattenIsText
<1>7. t # <<>> /\ u # <<>>
  <2>1. Len(<<>>) = 0  OBVIOUS
  <2> QED  BY <1>1, <1>5, <2>1
<1>8. Alike(FlattenSeq(t), FlattenSeq(u))  BY <1>2, <1>5, <1>6, <1>7, FlattenAlike
<1> QED  BY <1>4, <1>6, <1>8

LEMMA PartIsSequence ==
  ASSUME NEW s, IsSequence(s), NEW m \in 1..(Len(s) + 1), NEW n \in (m - 1)..Len(s)
  PROVE  /\ IsSequence(SubSeq(s, m, n)) /\ Len(SubSeq(s, m, n)) = n - m + 1
         /\ \A i \in 1..(n - m + 1) : SubSeq(s, m, n)[i] = s[m + i - 1]
<1> DEFINE S == {s[i] : i \in DOMAIN s}
           r == SubSeq(s, m, n)
<1>1. s \in Seq(S) /\ Len(s) \in Nat  BY Sequence DEF IsSequence
<1> HIDE DEF S
<1>2. /\ r \in Seq(S) /\ Len(r) = (IF m <= n THEN n - m + 1 ELSE 0)
      /\ \A i \in 1..(n - m + 1) : r[i] = s[m + i - 1]
  BY <1>1, SubSeqProperties
<1>3. Len(r) = n - m + 1  BY <1>1, <1>2
<1> HIDE DEF r
<1>4. DOMAIN r = 1..Len(r) /\ Len(r) \in Nat /\ r = [i \in 1..Len(r) |-> r[i]]
  BY <1>2, LenProperties, SeqDef
<1>5. IsSequence(r)  BY <1>4, IntervalIsSequence
<1> QED  BY <1>2, <1>3, <1>5 DEF r

LEMMA TailIsSequence ==
  ASSUME NEW s, IsSequence(s), s # <<>>
  PROVE  IsSequence(Tail(s))
<1> DEFINE S == {s[i] : i \in DOMAIN s}
           r == Tail(s)
<1>1. s \in Seq(S)  BY DEF IsSequence
<1> HIDE DEF S
<1>2. r \in Seq(S)  BY <1>1, HeadTailProperties
<1> HIDE DEF r
<1>3. DOMAIN r = 1..Len(r) /\ Len(r) \in Nat /\ r = [i \in 1..Len(r) |-> r[i]]
  BY <1>2, LenProperties, SeqDef
<1> QED  BY <1>3, IntervalIsSequence DEF r

\* Without the JSON commands a text is a text of as many lines.
LEMMA CleanText ==
  ASSUME NEW text, IsText(text)
  PROVE  IsText(copy_without_json_cmds(text)) /\ Len(copy_without_json_cmds(text)) = Len(text)
<1> DEFINE clean == copy_without_json_cmds(text)
           n == Len(text)
<1>1. n \in Nat /\ DOMAIN text = 1..n  BY Sequence DEF IsText
<1>2. DOMAIN clean = 1..n /\ clean = [i \in 1..n |-> clean[i]]
      /\ \A i \in 1..n : clean[i] = WithoutCommands(text[i])
  BY <1>1 DEF copy_without_json_cmds
<1> HIDE DEF clean
<1>3. ASSUME NEW i \in 1..n PROVE IsSequence(clean[i])
  <2> DEFINE line == text[i]
             t == [j \in DOMAIN line |-> IF line[j].is \in JsonCommands THEN <<>> ELSE <<line[j]>>]
  <2>1. clean[i] = FlattenSeq(t)  BY <1>2, <1>3 DEF WithoutCommands
  <2>2. IsSequence(line)  BY <1>1, <1>3 DEF IsText
  <2> HIDE DEF line
  <2>3. DOMAIN t = 1..Len(line) /\ Len(line) \in Nat /\ t = [j \in 1..Len(line) |-> t[j]]
    BY <2>2, Sequence
  <2>4. ASSUME NEW j \in 1..Len(line) PROVE IsSequence(t[j])
    <3>1. \A e : IsSequence(<<e>>)  BY DEF IsSequence
    <3>2. t[j] = <<>> \/ t[j] = <<line[j]>>  BY <2>3, <2>4
    <3> HIDE DEF t
    <3> QED  BY <3>1, <3>2, EmptyIsSequence
  <2> HIDE DEF t
  <2>5. IsText(t)  BY <2>3, <2>4, IntervalIsSequence DEF IsText
  <2> QED  BY <2>1, <2>5, FlattenIsSequence
<1>4. IsSequence(clean) /\ Len(clean) = n  BY <1>1, <1>2, IntervalIsSequence
<1> QED  BY <1>2, <1>3, <1>4 DEF IsText, clean

\* The brief extracted is the paragraph of the last @brief, where it has words.
LEMMA BriefIsParagraph ==
  ASSUME NEW lines, IsText(lines), HasBrief(lines),
         \A b \in TagLines(copy_without_json_cmds(lines), "brief") :
            Tail(copy_without_json_cmds(lines)[b]) # <<>>
  PROVE  /\ extract_brief_tag(copy_without_json_cmds(lines)) = Paragraph(lines)
         /\ Paragraph(lines) # <<>>
<1> DEFINE text == copy_without_json_cmds(lines)
           B == TagLines(text, "brief")
           N == Len(text)
           b == Max(B)
           words == Tail(text[b])
           behind == SubSeq(text, b + 1, N)
           rest == <<words>> \o behind
           filled == {k \in DOMAIN rest : rest[k] # <<>>}
           from == IF filled = {} THEN 1 ELSE Min(filled)
           stops == {k \in DOMAIN rest : k > from /\ StartsTag(rest[k])}
           to == IF stops = {} THEN Len(rest) ELSE Min(stops) - 1
           part == SubSeq(rest, from, to)
           t == [k \in DOMAIN text |->
                   IF k = b THEN Tail(text[k])
                   ELSE IF k > b /\ \A m \in (b + 1)..k : ~StartsTag(text[m])
                        THEN text[k] ELSE <<>>]
<1>1. IsText(text) /\ IsSequence(text) /\ N \in Nat /\ DOMAIN text = 1..N
  BY CleanText, Sequence DEF IsText
<1>2. B # {} /\ B \in SUBSET (1..N)  BY <1>1 DEF HasBrief, TagLines
<1>3. extract_brief_tag(text) = FlattenSeq(part)  BY <1>2 DEF extract_brief_tag
<1>4. Paragraph(lines) = FlattenSeq(t)  BY DEF Paragraph
<1>5. \A x \in B : Tail(text[x]) # <<>> /\ text[x] # <<>>  BY DEF TagLines
<1> HIDE DEF text, N, B
<1>6. b \in 1..N /\ b \in B  BY <1>1, <1>2, MaxIsGreatest
<1>7. words # <<>> /\ IsSequence(words)
  <2>1. IsSequence(text[b]) /\ text[b] # <<>>  BY <1>1, <1>5, <1>6 DEF IsText
  <2> QED  BY <1>5, <1>6, <2>1, TailIsSequence
<1>8. /\ t = [k \in 1..N |-> IF k = b THEN words
                             ELSE IF k > b /\ \A m \in (b + 1)..k : ~StartsTag(text[m])
                                  THEN text[k] ELSE <<>>]
  BY <1>1
<1> HIDE DEF b, words, t
<1>9. /\ IsSequence(behind) /\ Len(behind) = N - b
      /\ \A i \in 1..(N - b) : behind[i] = text[b + i]
  <2>1. b + 1 \in 1..(Len(text) + 1) /\ N \in ((b + 1) - 1)..Len(text)
        /\ N - (b + 1) + 1 = N - b /\ \A i \in 1..(N - b) : (b + 1) + i - 1 = b + i
    BY <1>1, <1>6 DEF N
  <2> QED  BY <1>1, <2>1, PartIsSequence
<1> HIDE DEF behind
<1>10. /\ IsSequence(rest) /\ Len(rest) = 1 + (N - b) /\ DOMAIN rest = 1..(1 + (N - b))
       /\ rest[1] = words /\ \A i \in 1..(N - b) : rest[1 + i] = text[b + i]
  <2>1. IsSequence(<<words>>) /\ Len(<<words>>) = 1 /\ <<words>>[1] = words  BY DEF IsSequence
  <2>2. /\ IsSequence(rest) /\ Len(rest) = 1 + Len(behind) /\ DOMAIN rest = 1..(1 + Len(behind))
        /\ \A i \in 1..1 : rest[i] = <<words>>[i]
        /\ \A i \in 1..Len(behind) : rest[1 + i] = behind[i]
    BY <1>9, <2>1, Concatenation
  <2> QED  BY <1>9, <2>1, <2>2
<1> HIDE DEF rest
<1>11. from = 1
  <2>1. 1 \in DOMAIN rest /\ rest[1] # <<>>  BY <1>1, <1>6, <1>7, <1>10
  <2>2. 1 \in filled /\ filled # {} /\ filled \in SUBSET Nat /\ \A k \in filled : k >= 1
    BY <1>10, <2>1
  <2> HIDE DEF filled
  <2>3. Min(filled) \in filled /\ \A k \in filled : Min(filled) <= k  BY <2>2, MinIsLeast
  <2>4. Min(filled) <= 1 /\ Min(filled) >= 1 /\ Min(filled) \in Nat  BY <2>2, <2>3
  <2>5. Min(filled) = 1  BY <2>4
  <2> QED  BY <2>2, <2>5
<1> HIDE DEF from
<1>12. /\ to \in 1..(1 + (N - b))
       /\ \A k \in 2..to : ~StartsTag(rest[k])
       /\ to < 1 + (N - b) => StartsTag(rest[to + 1])
  <2>1. CASE stops = {}
    <3>1. to = 1 + (N - b)  BY <1>10, <2>1
    <3>2. \A k \in 2..to : k \in DOMAIN rest /\ k > 1  BY <1>1, <1>6, <1>10, <3>1
    <3> QED  BY <1>1, <1>6, <1>11, <2>1, <3>1, <3>2
  <2>2. CASE stops # {}
    <3> DEFINE x == Min(stops)
    <3>1. stops \in SUBSET Nat /\ \A k \in stops : k \in 2..(1 + (N - b)) /\ StartsTag(rest[k])
      BY <1>1, <1>6, <1>10, <1>11
    <3>2. \A k \in DOMAIN rest : k > 1 /\ StartsTag(rest[k]) => k \in stops  BY <1>11
    <3>3. to = x - 1  BY <2>2
    <3> HIDE DEF stops, to
    <3>4. x \in stops /\ \A k \in stops : x <= k  BY <2>2, <3>1, MinIsLeast
    <3> HIDE DEF x
    <3>5. x \in 2..(1 + (N - b)) /\ StartsTag(rest[x])  BY <3>1, <3>4
    <3>6. to \in 1..(1 + (N - b)) /\ to + 1 = x  BY <1>1, <1>6, <3>3, <3>5
    <3>7. ASSUME NEW k \in 2..to PROVE ~StartsTag(rest[k])
      <4>1. k \in DOMAIN rest /\ k > 1 /\ ~(x <= k)  BY <1>1, <1>6, <1>10, <3>5, <3>6
      <4> QED  BY <3>2, <3>4, <4>1
    <3> QED  BY <3>5, <3>6, <3>7
  <2> QED  BY <2>1, <2>2
<1> HIDE DEF to
<1>13. /\ IsSequence(part) /\ Len(part) = to /\ \A i \in 1..to : part[i] = rest[i]
  <2>1. to \in Nat /\ 1 \in 1..(Len(rest) + 1) /\ to \in (1 - 1)..Len(rest) /\ to - 1 + 1 = to
        /\ \A i \in 1..to : 1 + i - 1 = i
    BY <1>1, <1>6, <1>10, <1>12
  <2> QED  BY <1>10, <1>11, <2>1, PartIsSequence
<1> HIDE DEF part
<1>14. \A i \in 1..(1 + (N - b)) : IsSequence(rest[i])
  <2>1. ASSUME NEW i \in 1..(1 + (N - b)) PROVE IsSequence(rest[i])
    <3>1. CASE i = 1  BY <1>7, <1>10, <3>1
    <3>2. CASE i # 1
      <4>1. i - 1 \in 1..(N - b) /\ 1 + (i - 1) = i /\ b + (i - 1) \in 1..N
        BY <1>1, <1>6, <3>2
      <4>2. rest[i] = text[b + (i - 1)]  BY <1>10, <4>1
      <4> QED  BY <1>1, <4>1, <4>2 DEF IsText
    <3> QED  BY <3>1, <3>2
  <2> QED  BY <2>1
<1>15. IsText(part) /\ part # <<>> /\ part[1] # <<>>
  <2>1. to \in Nat \ {0} /\ 1 \in 1..to /\ \A i \in 1..to : i \in 1..(1 + (N - b))
    BY <1>1, <1>6, <1>12
  <2>2. DOMAIN part = 1..to  BY <1>13, Sequence
  <2>3. IsText(part)  BY <1>13, <1>14, <2>1, <2>2 DEF IsText
  <2>4. part # <<>>  BY <1>13, <2>1
  <2>5. part[1] # <<>>  BY <1>7, <1>10, <1>13, <2>1
  <2> QED  BY <2>3, <2>4, <2>5
<1>16. ASSUME NEW k \in 1..N
       PROVE  t[k] = IF k \in ((b - 1) + 1)..((b - 1) + to) THEN part[k - (b - 1)] ELSE <<>>
  <2>1. CASE k = b
    <3>1. k \in ((b - 1) + 1)..((b - 1) + to) /\ k - (b - 1) = 1 /\ 1 \in 1..to
      BY <1>1, <1>6, <1>12, <2>1
    <3> QED  BY <1>8, <1>10, <1>13, <2>1, <3>1
  <2>2. CASE k < b
    <3>1. k \notin ((b - 1) + 1)..((b - 1) + to) /\ k # b /\ ~(k > b)  BY <1>1, <1>6, <1>12, <2>2
    <3> QED  BY <1>8, <3>1
  <2>3. CASE k > b /\ k <= (b - 1) + to
    <3>1. /\ k \in ((b - 1) + 1)..((b - 1) + to) /\ k # b /\ k - (b - 1) \in 2..to
          /\ k - (b - 1) \in 1..to /\ k - b \in 1..(N - b) /\ 1 + (k - b) = k - (b - 1) /\ b + (k - b) = k
      BY <1>1, <1>6, <1>12, <2>3
    <3>2. part[k - (b - 1)] = text[k]  BY <1>10, <1>13, <3>1
    <3>3. ASSUME NEW m \in (b + 1)..k PROVE ~StartsTag(text[m])
      <4>1. m - b \in 1..(N - b) /\ 1 + (m - b) \in 2..to /\ b + (m - b) = m
        BY <1>1, <1>6, <1>12, <2>3
      <4>2. rest[1 + (m - b)] = text[m]  BY <1>10, <4>1
      <4> QED  BY <1>12, <4>1, <4>2
    <3> QED  BY <1>8, <2>3, <3>1, <3>2, <3>3
  <2>4. CASE k > (b - 1) + to
    <3>1. /\ k \notin ((b - 1) + 1)..((b - 1) + to) /\ k # b /\ k > b /\ to < 1 + (N - b)
          /\ b + to \in (b + 1)..k /\ to \in 1..(N - b) /\ 1 + to = to + 1
      BY <1>1, <1>6, <1>12, <2>4
    <3>2. StartsTag(text[b + to])  BY <1>10, <1>12, <3>1
    <3> QED  BY <1>8, <3>1, <3>2
  <2>5. k = b \/ k < b \/ (k > b /\ k <= (b - 1) + to) \/ k > (b - 1) + to
    BY <1>1, <1>6, <1>12
  <2> QED  BY <2>1, <2>2, <2>3, <2>4, <2>5
<1>17. IsText(t) /\ Len(t) = N
  <2>1. DOMAIN t = 1..N /\ t = [k \in 1..N |-> t[k]]  BY <1>8
  <2>2. ASSUME NEW k \in 1..N PROVE IsSequence(t[k])
    <3>1. t[k] \in {words, text[k], <<>>}  BY <1>8
    <3>2. IsSequence(text[k])  BY <1>1 DEF IsText
    <3> QED  BY <1>7, <3>1, <3>2, EmptyIsSequence
  <2> QED  BY <1>1, <2>1, <2>2, IntervalIsSequence DEF IsText
<1>18. FlattenSeq(t) = FlattenSeq(part)
  <2>1. b - 1 \in Nat /\ (b - 1) + Len(part) <= Len(t)  BY <1>1, <1>6, <1>12, <1>13, <1>17
  <2>2. \A k \in 1..Len(t) :
          t[k] = IF k \in ((b - 1) + 1)..((b - 1) + Len(part)) THEN part[k - (b - 1)] ELSE <<>>
    BY <1>13, <1>16, <1>17
  <2> QED  BY <1>15, <1>17, <2>1, <2>2, FlattenPadded
<1>19. FlattenSeq(part) # <<>>  BY <1>15, FlattenBegins
<1> QED  BY <1>3, <1>4, <1>18, <1>19 DEF text

-----------------------------------------------------------------------------
(* What a field takes from the comments around its member *)


LEMMA NoComments ==
  /\ RawLines(<<>>) = <<>> /\ copy_without_json_cmds(<<>>) = <<>> /\ ~HasBrief(<<>>)
  /\ \A cmd : Carriers(<<>>, cmd) = {}
<1>1. DOMAIN <<>> = {}  OBVIOUS
<1>2. [i \in DOMAIN <<>> |-> <<>>[i].lines] = <<>> /\ [i \in DOMAIN <<>> |-> WithoutCommands(<<>>[i])] = <<>>
  BY <1>1
<1>3. RawLines(<<>>) = <<>>  BY <1>2, FlattenEmpty DEF RawLines
<1>4. copy_without_json_cmds(<<>>) = <<>>  BY <1>2 DEF copy_without_json_cmds
<1>5. ~HasBrief(<<>>)  BY <1>1, <1>4 DEF HasBrief, TagLines
<1>6. \A cmd : Carriers(<<>>, cmd) = {}  BY <1>1 DEF Carriers
<1> QED  BY <1>3, <1>4, <1>5, <1>6

\* The JSON commands are those that stand in the comments as they are written.
LEMMA CommandsTaken ==
  ASSUME NEW comments, AreComments(comments), NEW is_postfix
  PROVE  LET d == doc_attrs_from_raw(comments, is_postfix)
             raw == RawLines(comments)
         IN  /\ d.has_json_name = (Carriers(raw, "json_name") # {})
             /\ d.json_name = extract_json_name_value(raw)
             /\ d.json_ignore = (Carriers(raw, "json_ignore") # {})
             /\ d.json_required = (Carriers(raw, "json_required") # {})
<1>1. CASE comments = <<>>
  <2>1. doc_attrs_from_raw(comments, is_postfix) = NoAttrs  BY <1>1 DEF doc_attrs_from_raw
  <2>2. RawLines(comments) = <<>> /\ \A cmd : Carriers(<<>>, cmd) = {}  BY <1>1, NoComments
  <2>3. extract_json_name_value(<<>>) = None  BY <2>2 DEF extract_json_name_value
  <2>4. /\ NoAttrs.has_json_name = FALSE /\ NoAttrs.json_name = None
        /\ NoAttrs.json_ignore = FALSE /\ NoAttrs.json_required = FALSE
    BY DEF NoAttrs
  <2>5. \A cmd : (Carriers(RawLines(comments), cmd) # {}) = FALSE  BY <2>2
  <2> QED  BY <2>1, <2>2, <2>3, <2>4, <2>5
<1>2. CASE comments # <<>>
  <2> DEFINE text == Stripped(comments)
             raw == RawLines(comments)
             d == doc_attrs_from_raw(comments, is_postfix)
  <2>1. IsText(text) /\ IsText(raw) /\ Alike(raw, text)  BY <1>2, StrippedAlike
  <2>2. /\ d.has_json_name = (Carriers(text, "json_name") # {})
        /\ d.json_name = extract_json_name_value(text)
        /\ d.json_ignore = (Carriers(text, "json_ignore") # {})
        /\ d.json_required = (Carriers(text, "json_required") # {})
    BY <1>2 DEF doc_attrs_from_raw
  <2> HIDE DEF text, raw, d
  <2>3. \A cmd \in JsonCommands :
          /\ Carriers(raw, cmd) = Carriers(text, cmd)
          /\ Carriers(raw, cmd) # {} => find_cmd_last(raw, cmd) = find_cmd_last(text, cmd)
    BY <2>1, AlikeCommands
  <2>4. {"json_name", "json_ignore", "json_required"} = JsonCommands  BY DEF JsonCommands
  <2>5. extract_json_name_value(text) = extract_json_name_value(raw)
    BY <2>3, <2>4 DEF extract_json_name_value
  <2> QED  BY <2>2, <2>3, <2>4, <2>5 DEF raw, d
<1> QED  BY <1>1, <1>2

\* The brief of one comment, with words behind its @brief, or of none.
LEMMA BriefTaken ==
  ASSUME NEW comments, AreComments(comments), Len(comments) <= 1, NEW is_postfix \in BOOLEAN,
         \A b \in TagLines(copy_without_json_cmds(RawLines(comments)), "brief") :
            Tail(copy_without_json_cmds(RawLines(comments))[b]) # <<>>
  PROVE  LET raw == RawLines(comments)
         IN  /\ doc_attrs_from_raw(comments, is_postfix).brief =
                  IF HasBrief(raw) THEN Paragraph(raw)
                  ELSE IF is_postfix THEN FlattenSeq(copy_without_json_cmds(raw)) ELSE <<>>
             /\ HasBrief(raw) => Paragraph(raw) # <<>>
<1>1. CASE comments = <<>>
  <2>1. doc_attrs_from_raw(comments, is_postfix).brief = <<>>
    BY <1>1 DEF doc_attrs_from_raw, NoAttrs
  <2> QED  BY <1>1, <2>1, NoComments, FlattenEmpty
<1>2. CASE comments # <<>>
  <2> DEFINE lines == comments[1].lines
             text == copy_without_json_cmds(lines)
             brief == extract_brief_tag(text)
  <2>1. Len(comments) \in Nat \ {0} /\ DOMAIN comments = 1..Len(comments)
    BY <1>2, FlattenUnfolds, Sequence DEF AreComments
  <2>2. Len(comments) = 1 /\ DOMAIN comments = 1..1 /\ IsText(lines)
    BY <2>1 DEF AreComments
  <2>3. RawLines(comments) = lines
    <3> DEFINE t == [i \in DOMAIN comments |-> comments[i].lines]
    <3>1. DOMAIN t = 1..1 /\ t = [i \in 1..1 |-> t[i]] /\ t[1] = lines  BY <2>2
    <3> HIDE DEF t, lines
    <3>2. IsSequence(t) /\ Len(t) = 1  BY <3>1, IntervalIsSequence
    <3>3. FlattenSeq(t) = lines  BY <3>1, <3>2, FlattenOne
    <3> QED  BY <3>3 DEF RawLines, t
  <2>4. Stripped(comments) = lines
    <3> DEFINE t == [i \in DOMAIN comments |-> JoinedLines(comments, i)]
    <3>1. JoinedLines(comments, 1) = lines  BY <2>2 DEF JoinedLines
    <3>2. DOMAIN t = 1..1 /\ t = [i \in 1..1 |-> t[i]] /\ t[1] = lines  BY <2>2, <3>1
    <3> HIDE DEF t, lines
    <3>3. IsSequence(t) /\ Len(t) = 1  BY <3>2, IntervalIsSequence
    <3>4. FlattenSeq(t) = lines  BY <3>2, <3>3, FlattenOne
    <3> QED  BY <3>4 DEF Stripped, t
  <2> HIDE DEF lines
  <2>5. doc_attrs_from_raw(comments, is_postfix).brief =
          IF brief = <<>> /\ is_postfix THEN FlattenSeq(text) ELSE brief
    BY <1>2, <2>4 DEF doc_attrs_from_raw, brief_from_doc
  <2>6. CASE HasBrief(lines)
    <3>1. brief = Paragraph(lines) /\ Paragraph(lines) # <<>>
      BY <2>2, <2>3, <2>6, BriefIsParagraph
    <3> HIDE DEF brief, text
    <3> QED  BY <2>3, <2>5, <2>6, <3>1
  <2>7. CASE ~HasBrief(lines)
    <3>1. brief = <<>>  BY <2>7 DEF HasBrief, extract_brief_tag
    <3> HIDE DEF brief
    <3> QED  BY <2>3, <2>5, <2>7, <3>1
  <2> QED  BY <2>6, <2>7
<1> QED  BY <1>1, <1>2

\* The comments in front of a token are those of tokens.
LEMMA CommentsBeforeAre ==
  ASSUME NEW s, AreTokens(s), NEW i \in 1..(Len(s) + 1)
  PROVE  AreComments(CommentsBefore(s, i))
<1> DEFINE R == RunBefore(s, i)
           n == Cardinality(R)
           c == CommentsBefore(s, i)
<1>1. Len(s) \in Nat /\ DOMAIN s = 1..Len(s) /\ i \in Nat  BY Sequence DEF AreTokens
<1>2. c = [k \in 1..n |-> s[(i - 1 - n) + k].doc]  BY DEF CommentsBefore, Comments
<1>3. /\ \A j \in R : j \in 1..(i - 1) /\ \A k \in j..(i - 1) : s[k].t = "DOC_PREFIX"
      /\ \A j \in 1..(i - 1) : (\A k \in j..(i - 1) : s[k].t = "DOC_PREFIX") => j \in R
  BY DEF RunBefore
<1> HIDE DEF R, c
<1>4. n \in 0..(i - 1) /\ \A k \in 1..n : s[(i - 1 - n) + k].t = "DOC_PREFIX"
  <2>1. CASE R = {}
    <3>1. n = 0  BY <2>1, FS_EmptySet
    <3> QED  BY <1>1, <3>1
  <2>2. CASE R # {}
    <3> DEFINE a == Min(R)
    <3>1. R \in SUBSET Nat  BY <1>3
    <3>2. a \in R /\ \A j \in R : a <= j  BY <2>2, <3>1, MinIsLeast
    <3> HIDE DEF a
    <3>3. a \in 1..(i - 1) /\ \A k \in a..(i - 1) : s[k].t = "DOC_PREFIX"  BY <1>3, <3>2
    <3>4. ASSUME NEW j \in a..(i - 1) PROVE j \in R
      <4>1. j \in 1..(i - 1) /\ \A k \in j..(i - 1) : k \in a..(i - 1)  BY <1>1, <3>3, <3>4
      <4> QED  BY <1>3, <3>3, <4>1
    <3>5. R = a..(i - 1)
      <4>1. \A j \in R : j \in a..(i - 1)  BY <1>1, <1>3, <3>2, <3>3
      <4> QED  BY <3>4, <4>1
    <3>6. n = (i - 1) - a + 1
      <4>1. a \in Int /\ i - 1 \in Int /\ ~(a > i - 1)  BY <1>1, <3>3
      <4> QED  BY <3>5, <4>1, FS_Interval
    <3> HIDE DEF n
    <3>7. \A k \in 1..n : (i - 1 - n) + k \in a..(i - 1)  BY <1>1, <3>3, <3>6
    <3>8. n \in 0..(i - 1)  BY <1>1, <3>3, <3>6
    <3> QED  BY <3>3, <3>7, <3>8 DEF n
  <2> QED  BY <2>1, <2>2
<1> HIDE DEF n
<1>5. DOMAIN c = 1..n /\ n \in Nat /\ c = [k \in 1..n |-> c[k]]  BY <1>1, <1>2, <1>4
<1>6. ASSUME NEW k \in 1..n PROVE IsText(c[k].lines)
  <2> DEFINE j == (i - 1 - n) + k
  <2>1. j \in 1..Len(s)  BY <1>1, <1>4
  <2>2. s[j].t = "DOC_PREFIX" /\ c[k] = s[j].doc  BY <1>2, <1>4
  <2> HIDE DEF j
  <2> QED  BY <1>1, <2>1, <2>2 DEF AreTokens
<1> QED  BY <1>5, <1>6, IntervalIsSequence DEF AreComments, c

\* The comments behind a member of a structure that was read are the one the parser took.
LEMMA OneCommentBehind ==
  ASSUME NEW s, AreTokens(s), NEW e \in Closings(s), OneBehind(s, Semicolons(s, e), e),
         NEW i \in Semicolons(s, e)
  PROVE  /\ CommentsBehind(s, i) = IF At(s, i + 1) = "DOC_POSTFIX" THEN <<s[i + 1].doc>> ELSE <<>>
         /\ AreComments(CommentsBehind(s, i))
<1>1. Len(s) \in Nat /\ DOMAIN s = 1..Len(s) /\ IsSequence(s)  BY Sequence DEF AreTokens
<1>2. e \in 1..Len(s) /\ s[e].t = "RBRACE" /\ i \in 1..e /\ s[i].t = "SEMI"
  BY <1>1 DEF Closings, Semicolons
<1>3. i \in 1..Len(s) /\ i < e  BY <1>1, <1>2
<1>4. CASE At(s, i + 1) # "DOC_POSTFIX"
  <2>1. CommentsBehind(s, i) = <<>>  BY <1>1, <1>3, <1>4, CommentBehind
  <2>2. AreComments(<<>>)  BY EmptyIsSequence DEF AreComments
  <2> QED  BY <1>4, <2>1, <2>2
<1>5. CASE At(s, i + 1) = "DOC_POSTFIX"
  <2>1. i + 1 \in 1..Len(s) /\ s[i + 1].t = "DOC_POSTFIX"  BY <1>1, <1>5 DEF At
  <2>2. i + 1 # e  BY <1>2, <2>1
  <2>3. i + 2 <= e  BY <1>1, <1>2, <1>3, <2>2
  <2>4. At(s, i + 2) # "DOC_POSTFIX"  BY <1>5, <2>3 DEF OneBehind
  <2>5. CommentsBehind(s, i) = <<s[i + 1].doc>>  BY <1>1, <1>3, <1>5, <2>4, CommentBehind
  <2>6. AreComments(<<s[i + 1].doc>>)
    <3> DEFINE d == s[i + 1].doc
    <3>1. IsText(d.lines)  BY <1>1, <2>1 DEF AreTokens
    <3> HIDE DEF d
    <3>2. IsSequence(<<d>>) /\ DOMAIN <<d>> = 1..1 /\ <<d>>[1] = d  BY DEF IsSequence
    <3>3. AreComments(<<d>>)  BY <3>1, <3>2 DEF AreComments
    <3> QED  BY <3>3 DEF d
  <2> QED  BY <1>5, <2>5, <2>6
<1> QED  BY <1>4, <1>5

LEMMA CommentsInFront ==
  ASSUME NEW s, AreTokens(s), NEW i \in Int, Supported(s, i)
  PROVE  AreComments(CommentsBefore(s, StartAt(s, TypeAt(s, i))))
<1> DEFINE b == StartAt(s, TypeAt(s, i))
<1>1. Len(s) \in Nat /\ DOMAIN s = 1..Len(s)  BY Sequence DEF AreTokens
<1>2. b \in Int  BY DEF StartAt, TypeAt, NameAt
<1>3. At(s, b - 1) # "EOF"  BY DEF Supported
<1>4. b - 1 \in 1..Len(s)  BY <1>1, <1>3 DEF At
<1> HIDE DEF b
<1>5. b \in 1..(Len(s) + 1)  BY <1>1, <1>2, <1>4
<1>6. AreComments(CommentsBefore(s, b))  BY <1>5, CommentsBeforeAre
<1> QED  BY <1>6 DEF b

\* A field carries what the comments around its member say.
LEMMA FieldAsWritten ==
  ASSUME NEW s, AreTokens(s), NEW e \in Closings(s), OneBehind(s, Semicolons(s, e), e),
         NEW i \in Semicolons(s, e), Supported(s, i)
  PROVE  LET f == Described(FieldRead(s, i))
             m == MemberAt(s, i)
         IN  /\ f.name = m.name /\ f.json_name = Last_json_name(m)
             /\ f.json_ignore = HasCommand(m, "json_ignore")
             /\ f.json_required = HasCommand(m, "json_required")
             /\ PlainComments(m) => f.brief = BriefWritten(m)
<1> DEFINE m == MemberAt(s, i)
           f == Described(FieldRead(s, i))
           dpre == doc_attrs_from_raw(m.pre, FALSE)
           dpost == doc_attrs_from_raw(m.post, TRUE)
           pre == RawLines(m.pre)
           post == RawLines(m.post)
<1>1. m.pre = CommentsBefore(s, StartAt(s, TypeAt(s, i))) /\ m.post = CommentsBehind(s, i)
  BY DEF MemberAt
<1>2. AreComments(m.pre)
  <2>1. i \in Int  BY DEF Semicolons
  <2> QED  BY <1>1, <2>1, CommentsInFront
<1>3. AreComments(m.post)  BY <1>1, OneCommentBehind
<1>4. /\ f.name = m.name
      /\ f.json_name = Chosen(m.pre, m.post).json_name
      /\ f.json_ignore = Chosen(m.pre, m.post).json_ignore
      /\ f.json_required = Chosen(m.pre, m.post).json_required
      /\ f.brief = Chosen(m.pre, m.post).brief
  <2> DEFINE behind == IF At(s, i + 1) = "DOC_POSTFIX" THEN <<s[i + 1].doc>> ELSE <<>>
             r == FieldRead(s, i)
  <2>1. m.post = behind  BY <1>1, OneCommentBehind
  <2>2. r.name = m.name /\ r.attrs = Chosen(m.pre, behind)  BY DEF FieldRead
  <2> HIDE DEF m, behind, r
  <2>3. /\ f.name = r.name /\ f.json_name = r.attrs.json_name
        /\ f.json_ignore = r.attrs.json_ignore /\ f.json_required = r.attrs.json_required
        /\ f.brief = r.attrs.brief
    BY DEF Described, r
  <2> QED  BY <2>1, <2>2, <2>3
<1> HIDE DEF m, f
<1>5. /\ f.json_name = IF dpost.has_json_name THEN dpost.json_name ELSE dpre.json_name
      /\ f.json_ignore = (dpre.json_ignore \/ dpost.json_ignore)
      /\ f.json_required = (dpre.json_required \/ dpost.json_required)
      /\ f.brief = IF dpost.brief # <<>> THEN dpost.brief ELSE dpre.brief
  BY <1>4 DEF Chosen, doc_attrs_choose
<1>6. /\ dpost.has_json_name = (Carriers(post, "json_name") # {})
      /\ dpost.json_name = extract_json_name_value(post)
      /\ dpre.json_name = extract_json_name_value(pre)
      /\ \A cmd \in {"json_ignore", "json_required"} : HasCommand(m, cmd) =
           ((Carriers(pre, cmd) # {}) \/ (Carriers(post, cmd) # {}))
  BY <1>2, <1>3, CommandsTaken DEF HasCommand
<1>7. /\ dpre.json_ignore = (Carriers(pre, "json_ignore") # {})
      /\ dpre.json_required = (Carriers(pre, "json_required") # {})
      /\ dpost.json_ignore = (Carriers(post, "json_ignore") # {})
      /\ dpost.json_required = (Carriers(post, "json_required") # {})
  BY <1>2, <1>3, CommandsTaken
<1>8. ASSUME PlainComments(m) PROVE f.brief = BriefWritten(m)
  <2>1. /\ Len(m.pre) <= 1 /\ Len(m.post) <= 1
        /\ \A b \in TagLines(copy_without_json_cmds(pre), "brief") :
             Tail(copy_without_json_cmds(pre)[b]) # <<>>
        /\ \A b \in TagLines(copy_without_json_cmds(post), "brief") :
             Tail(copy_without_json_cmds(post)[b]) # <<>>
    BY <1>8 DEF PlainComments
  <2>2. dpre.brief = IF HasBrief(pre) THEN Paragraph(pre) ELSE <<>>
    BY <1>2, <2>1, BriefTaken
  <2>3. /\ dpost.brief = IF HasBrief(post) THEN Paragraph(post)
                         ELSE FlattenSeq(copy_without_json_cmds(post))
        /\ HasBrief(post) => Paragraph(post) # <<>>
    BY <1>3, <2>1, BriefTaken
  <2>4. BriefWritten(m) =
          IF HasBrief(post) THEN Paragraph(post)
          ELSE IF FlattenSeq(copy_without_json_cmds(post)) # <<>>
               THEN FlattenSeq(copy_without_json_cmds(post))
          ELSE IF HasBrief(pre) THEN Paragraph(pre) ELSE <<>>
    BY DEF BriefWritten
  <2> HIDE DEF dpre, dpost, pre, post
  <2> QED  BY <1>5, <2>2, <2>3, <2>4
<1>9. f.json_name = Last_json_name(m)
  <2>1. Last_json_name(m) = IF Carriers(post, "json_name") # {} THEN extract_json_name_value(post)
                            ELSE extract_json_name_value(pre)
    BY DEF Last_json_name
  <2> HIDE DEF dpre, dpost, pre, post
  <2> QED  BY <1>5, <1>6, <2>1
<1>10. f.json_ignore = HasCommand(m, "json_ignore") /\ f.json_required = HasCommand(m, "json_required")
  <2> HIDE DEF dpre, dpost, pre, post
  <2> QED  BY <1>5, <1>6, <1>7
<1> QED  BY <1>4, <1>8, <1>9, <1>10 DEF m, f

\* What the comments around a member say is what its descriptor carries: the JSON commands
\* wherever they stand in them, and the prose, for any comments in front of a member and
\* behind it, in any header without an empty comment that swallows text.
THEOREM CommentsAreCarried == Spec => []DescribedAsWritten
<1>1. ASSUME StructInv PROVE DescribedAsWritten
  <2>1. SUFFICES ASSUME Emitted, ~Swallows(p.text), NEW pair \in Pairs
                 PROVE  \A i \in DOMAIN Says(p.text)[pair[2]].fields :
                          LET f == cfile.items[pair[1]].fields[i]
                              m == Says(p.text)[pair[2]].fields[i]
                          IN  /\ f.name = m.name /\ f.json_name = Last_json_name(m)
                              /\ f.json_ignore = HasCommand(m, "json_ignore")
                              /\ f.json_required = HasCommand(m, "json_required")
                              /\ PlainComments(m) => f.brief = BriefWritten(m)
    BY DEF DescribedAsWritten
  <2> DEFINE described == cfile.items[pair[1]].fields
             members == Says(p.text)[pair[2]].fields
             S(e) == Semicolons(Text, e)
  <2>2. PICK e \in Closings(Text) : \E struct :
          /\ StructAt(Text, e, struct) /\ cfile.items[pair[1]] = Descriptor(struct)
          /\ IsSequence(members) /\ Len(members) = Cardinality(S(e))
          /\ \A i \in S(e) : Supported(Text, i) => members[Rank(S(e), i)] = MemberAt(Text, i)
    BY <1>1, <2>1, PairRead
  <2>3. PICK struct :
          /\ StructAt(Text, e, struct) /\ cfile.items[pair[1]] = Descriptor(struct)
          /\ IsSequence(members) /\ Len(members) = Cardinality(S(e))
          /\ \A i \in S(e) : Supported(Text, i) => members[Rank(S(e), i)] = MemberAt(Text, i)
    BY <2>2
  <2>4. described = [i \in DOMAIN struct.fields |-> Described(struct.fields[i])]
    BY <2>3 DEF Descriptor
  <2>5. AreTokens(Text)
    BY <1>1, <2>1, TextTokens DEF StructInv, ParsingInv, Emitted
  <2>6. FieldsAre(Text, S(e), struct.fields) /\ OneBehind(Text, S(e), e)  BY <2>3 DEF StructAt
  <2> HIDE DEF members, described
  <2>7. /\ DOMAIN members = 1..Len(members) /\ DOMAIN struct.fields = 1..Len(struct.fields)
        /\ Len(members) = Len(struct.fields)
    BY <2>3, <2>6, Sequence DEF FieldsAre
  <2>8. ASSUME NEW i \in DOMAIN members
        PROVE  LET f == described[i]
                   m == members[i]
               IN  /\ f.name = m.name /\ f.json_name = Last_json_name(m)
                   /\ f.json_ignore = HasCommand(m, "json_ignore")
                   /\ f.json_required = HasCommand(m, "json_required")
                   /\ PlainComments(m) => f.brief = BriefWritten(m)
    <3>1. PICK k \in S(e) : Rank(S(e), k) = i /\ Supported(Text, k) /\ struct.fields[i] = FieldRead(Text, k)
      BY <2>6, <2>7, <2>8 DEF FieldsAre
    <3>2. members[i] = MemberAt(Text, k)  BY <2>3, <3>1
    <3>3. described[i] = Described(FieldRead(Text, k))  BY <2>4, <2>7, <2>8, <3>1
    <3> QED  BY <2>5, <2>6, <3>1, <3>2, <3>3, FieldAsWritten
  <2> QED  BY <2>8 DEF members, described
<1> QED  BY <1>1, StructInvariance, PTL

=============================================================================
