---------------------------- MODULE StructMetaGen ----------------------------
(***************************************************************************)
(* struct-meta-gen: the scanner's tokens, the LALR parser with its error   *)
(* recovery (struct_meta_gen.y), the emission of the descriptors in the    *)
(* order they depend on each other, and the two generated files            *)
(* (struct_meta_gen_emit.c); around it the make rules that decide when it  *)
(* runs (struct-meta-sample/makepart.mk).                                  *)
(*                                                                         *)
(* A header is a sequence of declarations; each has the tokens of its text *)
(* and the structure it declares in C, if any.  Names and words are taken  *)
(* as they are, numbers by their digits; the layout is the compiler's, so  *)
(* only the expressions the generator prints for sizes and counts are kept.*)
(***************************************************************************)
EXTENDS DocComment

CONSTANTS Headers,      \* the headers a run may start from
          Edits,        \* the headers somebody may write over one another
          MaxEdits, MaxFaults   \* bounds

ASSUME EditsAssumption == Edits \subseteq Headers
ASSUME GenBounds == MaxEdits \in Nat /\ MaxFaults \in Nat

VARIABLES header, version,   \* the header and how often it has been written
          phase,             \* where make and the generator are
          p,                 \* the parser
          stack, emitted,    \* calls of emit_struct, names already emitted
          next,              \* the next structure of the list to emit
          cfile, hfile,      \* gen/<stem>_meta.c and gen/<stem>_meta.h
          current,           \* make takes the .c for newer than the header
          delete_on_error,   \* does make delete the target of a failed rule?
          complained,        \* the generator has written to stderr
          faults,
          excused            \* history: see BuildIsCurrent

vars == <<header, version, phase, p, stack, emitted, next, cfile, hfile,
          current, delete_on_error, complained, faults, excused>>
source == <<header, version>>
emission == <<stack, emitted, next>>
files == <<cfile, hfile, current>>
maker == <<delete_on_error, faults, excused>>

(***************************************************************************)
(* Tokens and grammar                                                      *)
(***************************************************************************)
Types == {"T_INT", "T_CHAR", "T_FLOAT", "T_DOUBLE", "IDENT"}
TypeNames == [T_INT |-> "int", T_CHAR |-> "char", T_FLOAT |-> "float",
              T_DOUBLE |-> "double", T_UNSIGNED |-> "unsigned"]

(* Written is the text of a header: besides what the rules return, a plain *)
(* block COMMENT and EMPTY, the comment of four characters.                *)
Written(h) == FlattenSeq([i \in DOMAIN h |-> h[i].tokens])

(* What the rules return: neither plain comments nor a block with @file.   *)
Returned(s) ==
    SelectSeq(s, LAMBDA k :
        /\ k.t \notin {"COMMENT", "EMPTY"}
        /\ ~(k.t = "DOC_PREFIX" /\ k.doc.style = "block" /\ doc_has_file_tag(k.doc)))

(* The rule of a documentation comment matches an EMPTY too, and then all  *)
(* of the text up to the next end of a comment: the longest match wins.    *)
EndsComment(k) == k.t \in {"COMMENT", "EMPTY"}
                    \/ (k.t \in {"DOC_PREFIX", "DOC_POSTFIX"} /\ k.doc.style = "block")
Ends(s, i) == {j \in DOMAIN s : j > i /\ EndsComment(s[j])}
Empties(s) == {i \in DOMAIN s : s[i].t = "EMPTY" /\ Ends(s, i) # {}}
Swallows(h) == Empties(Written(h)) # {}

(* The EMPTYs that do so: those that are not swallowed themselves.         *)
Swallowers(s) ==
    CHOOSE O \in SUBSET Empties(s) : \A i \in Empties(s) :
        i \in O <=> ~\E o \in O : o < i /\ i <= Min(Ends(s, o))

(* Of the text of the one comment only what stands on a line of its own    *)
(* can begin with a tag.                                                   *)
Swallowed(s, o) ==
    LET e == Min(Ends(s, o))
        before == FlattenSeq([k \in 1..(e - o) |-> FlattenSeq(s[o + k - 1].doc.lines) \o <<Mark>>])
        lines == s[e].doc.lines
    IN  [s[o] EXCEPT !.t = "DOC_PREFIX", !.doc = [style |-> "block",
            lines |-> <<<<Mark>> \o before \o lines[1]>> \o Tail(lines)]]

(* The text as the rules take it apart; what is swallowed is skipped.      *)
Matched(s) ==
    LET O == Swallowers(s)
    IN  [i \in DOMAIN s |->
           IF i \in O THEN Swallowed(s, i)
           ELSE IF \E o \in O : o < i /\ i <= Min(Ends(s, o))
                THEN [s[i] EXCEPT !.t = "COMMENT"] ELSE s[i]]

Scanned(h) == Returned(Matched(Written(h)))

(* strtol(yytext, NULL, 10) of the digits of an INTEGER.                   *)
Number(base, digits) == FoldLeft(LAMBDA v, d : base * v + d, 0, digits)
strtol(digits) == Number(10, digits)

EOF == [t |-> "EOF"]
Lookahead == IF p.input = <<>> THEN EOF ELSE Head(p.input)
Rest == IF p.input = <<>> THEN <<>> ELSE Tail(p.input)

(* The states of the parser and what they shift.                           *)
Beside(f, g) == [t \in DOMAIN f \cup DOMAIN g |-> IF t \in DOMAIN f THEN f[t] ELSE g[t]]
AType == Beside([t \in Types |-> "typed"], [T_UNSIGNED |-> "unsigned"])
AField == Beside(AType, [DOC_PREFIX |-> "fdoc"])
Top == [DOC_PREFIX |-> "doc", TYPEDEF |-> "typedef", SEMI |-> "top"]
Declared == [IDENT |-> "named", STAR |-> "star"]
MoreFields == Beside(AField, [RBRACE |-> "close"])

Grammar ==
    [top |-> Top,
     doc |-> [DOC_PREFIX |-> "doc", TYPEDEF |-> "typedef"],
     typedef |-> [STRUCT |-> "struct"],
     struct |-> [LBRACE |-> "first", IDENT |-> "tag"],
     tag |-> [LBRACE |-> "first"],
     first |-> AField,
     fdoc |-> AField,
     field |-> MoreFields,
     unsigned |-> Beside(Declared, [T_INT |-> "typed"]),
     typed |-> Declared,
     named |-> [SEMI |-> "fend", LBRACKET |-> "bracket"],
     bracket |-> [INTEGER |-> "count"],
     count |-> [RBRACKET |-> "bracketed"],
     bracketed |-> [SEMI |-> "fend"],
     fend |-> Beside(MoreFields, [DOC_POSTFIX |-> "field"]),
     star |-> [IDENT |-> "starname"],
     starname |-> [SEMI |-> "pointer"],
     close |-> [IDENT |-> "sname"],
     sname |-> [SEMI |-> "send"],
     send |-> Beside(Top, [DOC_POSTFIX |-> "top"])]

Shifts(at, k) == at \in DOMAIN Grammar /\ k.t \in DOMAIN Grammar[at]

(***************************************************************************)
(* The values the rules compute                                            *)
(***************************************************************************)
NoField == [name |-> "", type |-> "", is_struct |-> FALSE, count |-> 0]

(* The generator reads the header once: text, written as version `of'.     *)
NewParser(h, v) ==
    [text |-> h, of |-> v, input |-> Scanned(h), at |-> "top",
     sdoc |-> <<>>, fdoc |-> <<>>, decl |-> NoField, fields |-> <<>>,
     name |-> "", structs |-> <<>>]

Chosen(prefix, postfix) ==
    doc_attrs_choose(doc_attrs_from_raw(prefix, FALSE),
                     doc_attrs_from_raw(postfix, TRUE))

Postfix(k) == IF k.t = "DOC_POSTFIX" THEN <<k.doc>> ELSE <<>>

field_create(q, postfix) ==
    [name |-> q.decl.name, type |-> q.decl.type, is_struct |-> q.decl.is_struct,
     count |-> q.decl.count, attrs |-> Chosen(q.fdoc, postfix)]

struct_create(q, postfix) ==
    [name |-> q.name, fields |-> q.fields,
     brief |-> Chosen(q.sdoc, postfix).brief]

(* Mutant: the list is built from its tail.                                *)
struct_list_prepend(list, s) == <<s>> \o list
struct_list_append(list, s) == Append(list, s)

(* A member and a structure are complete when the token behind their       *)
(* semicolon is known: it may be a comment that belongs to them.           *)
Reduced(q, k) ==
    CASE q.at = "fend" ->
           [q EXCEPT !.fields = Append(@, field_create(q, Postfix(k))),
                     !.fdoc = <<>>]
      [] q.at = "send" ->
           [q EXCEPT !.structs = struct_list_append(@, struct_create(q, Postfix(k))),
                     !.sdoc = <<>>]
      [] OTHER -> q

(* The values of the token that is shifted.                                *)
Taken(q, k) ==
    CASE k.t = "DOC_PREFIX" /\ q.at \in {"top", "doc", "send"} ->
           [q EXCEPT !.sdoc = Append(@, k.doc)]
      [] k.t = "DOC_PREFIX" /\ q.at \notin {"top", "doc", "send"} ->
           [q EXCEPT !.fdoc = Append(@, k.doc)]
      [] k.t = "TYPEDEF" -> [q EXCEPT !.fields = <<>>]
      [] k.t = "INTEGER" -> [q EXCEPT !.decl.count = strtol(k.digits)]
      [] k.t = "IDENT" /\ q.at = "close" -> [q EXCEPT !.name = k.id]
      [] k.t = "IDENT" /\ q.at \in {"unsigned", "typed"} ->
           [q EXCEPT !.decl.name = k.id]
      [] k.t = "IDENT" /\ q.at \in {"first", "field", "fend", "fdoc"} ->
           [q EXCEPT !.decl = [NoField EXCEPT !.type = k.id, !.is_struct = TRUE]]
      [] k.t \in DOMAIN TypeNames /\ q.at # "unsigned" ->
           [q EXCEPT !.decl = [NoField EXCEPT !.type = TypeNames[k.t]]]
      [] OTHER -> q

(***************************************************************************)
(* make and the start of the generator                                     *)
(***************************************************************************)
Ended == {"idle", "failed", "built"}
NoFile == [of |-> 0, whole |-> FALSE, items |-> <<>>, catalog |-> <<>>]

Init ==
    /\ header \in Headers /\ version = 1
    /\ phase = "idle" /\ p = NewParser(<<>>, 0)
    /\ stack = <<>> /\ emitted = {} /\ next = 1
    /\ cfile = NoFile /\ hfile = NoFile /\ current = FALSE
    /\ delete_on_error \in BOOLEAN
    /\ complained = FALSE /\ faults = 0 /\ excused = FALSE

(* gen/x_meta.c: x.h -- the generator runs only if the .c is older.        *)
Make ==
    /\ phase \in Ended
    /\ IF current
       THEN phase' = "compile" /\ UNCHANGED <<p, emission, complained, excused>>
       ELSE /\ phase' = "parse" /\ p' = NewParser(header, version)
            /\ stack' = <<>> /\ emitted' = {} /\ next' = 1
            /\ complained' = FALSE /\ excused' = FALSE
    /\ UNCHANGED <<source, files, delete_on_error, faults>>

(* The generator ends with an error: the rule has failed, and make may     *)
(* delete its target, the .c, if the generator has touched it.             *)
Fails(touched) ==
    /\ phase' = "failed"
    /\ IF touched /\ delete_on_error
       THEN cfile' = NoFile /\ current' = FALSE
       ELSE UNCHANGED <<cfile, current>>

Fault == faults < MaxFaults /\ faults' = faults + 1

(***************************************************************************)
(* yyparse and main                                                        *)
(***************************************************************************)
Parsing(at) == phase = "parse" /\ p.at \in at

Shift ==
    /\ Parsing(DOMAIN Grammar) /\ Shifts(p.at, Lookahead)
    /\ LET k == Lookahead
       IN  p' = [Taken(Reduced(p, k), k) EXCEPT !.at = Grammar[p.at][k.t],
                                                !.input = Rest]
    /\ UNCHANGED <<source, phase, emission, files, maker, complained>>

(* yyerror, and the stack is unwound to translation_unit: what was parsed  *)
(* of the structure is lost.                                               *)
SyntaxError ==
    /\ Parsing(DOMAIN Grammar) /\ ~Shifts(p.at, Lookahead)
    /\ ~(p.at \in {"top", "send"} /\ Lookahead = EOF)
    /\ p' = [Reduced(p, Lookahead) EXCEPT !.at = "recover", !.sdoc = <<>>,
                                          !.fdoc = <<>>, !.fields = <<>>]
    /\ complained' = TRUE
    /\ UNCHANGED <<source, phase, emission, files, maker>>

(* translation_unit: translation_unit error SEMI                           *)
Recover ==
    /\ Parsing({"recover"}) /\ Lookahead # EOF
    /\ p' = [p EXCEPT !.input = Rest,
                      !.at = IF Lookahead.t = "SEMI" THEN "top" ELSE "recover"]
    /\ UNCHANGED <<source, phase, emission, files, maker, complained>>

(* exit(1) in the action of a pointer member.                              *)
PointerMember ==
    /\ Parsing({"pointer"})
    /\ Fails(FALSE) /\ complained' = TRUE
    /\ UNCHANGED <<source, p, emission, hfile, maker>>

(* Mutant: main does not look at the result of yyparse.                    *)
ParseFailsIgnored ==
    /\ Parsing({"recover"}) /\ Lookahead = EOF
    /\ phase' = "compile" /\ UNCHANGED <<cfile, current>>
    /\ UNCHANGED <<source, p, emission, hfile, maker, complained>>

(* No semicolon is left to recover at: yyparse and main return 1.          *)
ParseFails ==
    /\ Parsing({"recover"}) /\ Lookahead = EOF
    /\ Fails(FALSE)
    /\ UNCHANGED <<source, p, emission, hfile, maker, complained>>

(* yyparse returns 0; main wants at least one structure.                   *)
Accept ==
    /\ Parsing({"top", "send"}) /\ Lookahead = EOF
    /\ p' = Reduced(p, EOF)
    /\ IF p'.structs = <<>>
       THEN Fails(FALSE) /\ complained' = TRUE
       ELSE phase' = "open" /\ UNCHANGED <<cfile, current, complained>>
    /\ UNCHANGED <<source, emission, hfile, maker>>

(***************************************************************************)
(* struct_meta_gen_emit                                                    *)
(***************************************************************************)
(* The .c is emptied, and newer than the header from now on.               *)
OpenSource ==
    /\ phase = "open"
    /\ \/ /\ phase' = "emit"
          /\ cfile' = [NoFile EXCEPT !.of = p.of] /\ current' = TRUE
          /\ UNCHANGED <<faults, complained>>
       \/ Fault /\ Fails(FALSE) /\ complained' = TRUE
    /\ UNCHANGED <<source, p, emission, hfile, delete_on_error, excused>>

Structs == p.structs
struct_list_find(name) ==
    LET found == {i \in DOMAIN Structs : Structs[i].name = name}
    IN  IF found = {} THEN 0 ELSE Min(found)

field_kind(f) ==
    IF f.is_struct THEN "STRUCT"
    ELSE IF f.type = "char" /\ f.count > 0 THEN "CHAR_ARRAY"
    ELSE IF f.type = "int" THEN "INT"
    ELSE IF f.type = "unsigned" THEN "UNSIGNED"
    ELSE IF f.type = "float" THEN "FLOAT"
    ELSE "DOUBLE"

(* Mutant: the elements of a char array are counted as well.               *)
element_count_all(f) == IF f.count > 0 THEN f.count ELSE 1
element_count(f) ==
    IF f.count > 0 /\ field_kind(f) # "CHAR_ARRAY" THEN f.count ELSE 1

Described(f) ==
    [name |-> f.name, kind |-> field_kind(f), element |-> f.type,
     element_count |-> element_count(f),
     char_buffer |-> field_kind(f) = "CHAR_ARRAY",   \* sizeof the member, or 0
     nested |-> IF f.is_struct THEN f.type ELSE "",
     brief |-> f.attrs.brief, json_name |-> f.attrs.json_name,
     json_ignore |-> f.attrs.json_ignore,
     json_required |-> f.attrs.json_required]

Descriptor(s) ==
    [name |-> s.name, brief |-> s.brief,
     fields |-> [i \in DOMAIN s.fields |-> Described(s.fields[i])]]

Frame(i) == [s |-> i, f |-> 1]
Running == Last(stack)
RunningStruct == Structs[Running.s]
AdvanceField == [stack EXCEPT ![Len(stack)].f = @ + 1]

(* struct_meta_gen_emit calls emit_struct for the next structure.          *)
EmitNext ==
    /\ phase = "emit" /\ stack = <<>> /\ next <= Len(Structs)
    /\ stack' = IF Structs[next].name \in emitted THEN <<>> ELSE <<Frame(next)>>
    /\ next' = next + 1
    /\ UNCHANGED <<source, phase, p, emitted, files, maker, complained>>

(* Mutant: the structures of the members are not emitted first.            *)
VisitFieldFlat ==
    /\ phase = "emit" /\ stack # <<>>
    /\ Running.f <= Len(RunningStruct.fields)
    /\ stack' = AdvanceField
    /\ UNCHANGED <<source, phase, p, next, emitted, files, maker, complained>>

(* emit_struct calls itself for the structure of a member.  A structure    *)
(* among its own calls recurses until the call stack overflows.            *)
VisitField ==
    /\ phase = "emit" /\ stack # <<>>
    /\ Running.f <= Len(RunningStruct.fields)
    /\ LET f == RunningStruct.fields[Running.f]
           nested == struct_list_find(f.type)
       IN  \/ /\ ~f.is_struct \/ (nested # 0 /\ f.type \in emitted)
              /\ stack' = AdvanceField
              /\ UNCHANGED <<phase, cfile, current, complained>>
           \/ /\ f.is_struct /\ nested = 0
              /\ Fails(TRUE) /\ complained' = TRUE
              /\ UNCHANGED stack
           \/ /\ f.is_struct /\ nested # 0 /\ f.type \notin emitted
              /\ IF \E i \in DOMAIN stack : stack[i].s = nested
                 THEN Fails(TRUE) /\ UNCHANGED <<stack, complained>>
                 ELSE /\ stack' = Append(AdvanceField, Frame(nested))
                      /\ UNCHANGED <<phase, cfile, current, complained>>
    /\ UNCHANGED <<source, p, next, emitted, hfile, maker>>

(* All structures of the members are out: the descriptor itself follows.   *)
EmitDescriptor ==
    /\ phase = "emit" /\ stack # <<>>
    /\ Running.f > Len(RunningStruct.fields)
    /\ cfile' = [cfile EXCEPT !.items = Append(@, Descriptor(RunningStruct))]
    /\ emitted' = emitted \cup {RunningStruct.name}
    /\ stack' = Front(stack)
    /\ UNCHANGED <<source, phase, p, next, hfile, current, maker, complained>>

CatalogNames == [i \in DOMAIN Structs |-> Structs[i].name]

(* The table in the order of the header and the functions over it; then    *)
(* fclose.  No write is looked at: what the disk does not take is lost and *)
(* the generator goes on.                                                  *)
emit_catalog_source ==
    /\ phase = "emit" /\ stack = <<>> /\ next > Len(Structs)
    /\ phase' = "header" /\ current' = TRUE
    /\ \/ cfile' = [cfile EXCEPT !.whole = TRUE, !.catalog = CatalogNames]
          /\ UNCHANGED faults
       \/ Fault /\ UNCHANGED cfile
    /\ UNCHANGED <<source, p, emission, hfile, delete_on_error, excused,
                   complained>>

(* The enum and the declarations: the second file, written last.           *)
emit_catalog_header ==
    /\ phase = "header"
    /\ \/ /\ phase' = "compile"
          /\ hfile' = [NoFile EXCEPT !.of = p.of, !.whole = TRUE,
                                     !.catalog = CatalogNames]
          /\ UNCHANGED <<cfile, current, faults, complained, excused>>
       \/ /\ Fault /\ phase' = "compile"
          /\ hfile' = [NoFile EXCEPT !.of = p.of]
          /\ UNCHANGED <<cfile, current, complained, excused>>
       \/ /\ Fault /\ Fails(TRUE) /\ complained' = TRUE
          /\ excused' = TRUE /\ UNCHANGED hfile
    /\ UNCHANGED <<source, p, emission, delete_on_error>>

(***************************************************************************)
(* Around the generator                                                    *)
(***************************************************************************)
Generating == {"parse", "open", "emit", "header"}

(* The generator is killed: make sees a failed rule.                       *)
Kill ==
    /\ phase \in Generating
    /\ Fault
    /\ Fails(phase \in {"emit", "header"})
    /\ hfile' \in (IF phase = "header"
                   THEN {hfile, [NoFile EXCEPT !.of = p.of]} ELSE {hfile})
    /\ excused' = (excused \/ phase = "header")
    /\ UNCHANGED <<source, p, emission, delete_on_error, complained>>

(* The compiler and the linker, after `test -f' of the .h: without the     *)
(* whole of both files the build fails.                                    *)
Compile ==
    /\ phase = "compile"
    /\ phase' = IF cfile.whole /\ hfile.whole THEN "built" ELSE "failed"
    /\ UNCHANGED <<source, p, emission, files, maker, complained>>

(* Somebody writes the header, at any time.  Written while the generator   *)
(* runs it is still older than the .c that is closed later.                *)
EditHeader ==
    /\ version <= MaxEdits
    /\ header \in Edits /\ header' \in Edits \ {header}
    /\ version' = version + 1
    /\ IF phase \in Generating \cup {"compile"}
       THEN excused' = TRUE /\ phase' = phase /\ UNCHANGED p
       ELSE phase' = "idle" /\ UNCHANGED <<p, excused>>
    /\ current' = FALSE
    /\ UNCHANGED <<emission, cfile, hfile, delete_on_error, faults, complained>>

yyparse == Shift \/ SyntaxError \/ Recover \/ PointerMember \/ ParseFails
             \/ Accept
struct_meta_gen_emit == OpenSource \/ EmitNext \/ VisitField \/ EmitDescriptor
                          \/ emit_catalog_source \/ emit_catalog_header

Next == Make \/ yyparse \/ struct_meta_gen_emit \/ Kill \/ Compile \/ EditHeader

Spec == Init /\ [][Next]_vars

(***************************************************************************)
(* What a header says                                                      *)
(***************************************************************************)
(* What the declarations of a header say in C.                             *)
Says(h) == LET declares == SelectSeq(h, LAMBDA d : d.says.name # "")
           IN  [i \in DOMAIN declares |-> declares[i].says]

(* The tokens of a header as C and Doxygen read it.                        *)
Code(h) == Returned(Written(h))

(* C takes a number that begins with 0 for octal.                          *)
Octal(digits) == Len(digits) > 1 /\ digits[1] = 0
InC(digits) == IF Octal(digits) THEN Number(8, digits) ELSE Number(10, digits)

IsSequence(s) == s \in Seq({s[i] : i \in DOMAIN s})
At(s, i) == IF i \in DOMAIN s THEN s[i].t ELSE "EOF"
Rank(X, i) == Cardinality({j \in X : j <= i})

(* The same, found among the tokens from a closing brace backwards: the    *)
(* braces that close a declared name, the semicolons of the members before *)
(* one, and the member in front of a semicolon.                            *)
Closings(s) == {e \in DOMAIN s : /\ s[e].t = "RBRACE"
                                 /\ At(s, e + 1) = "IDENT" /\ At(s, e + 2) = "SEMI"}
Semicolons(s, e) == {i \in 1..e : /\ s[i].t = "SEMI"
                                  /\ \A j \in i..e : s[j].t # "LBRACE"}

Comments(s, i, n) == [k \in 1..n |-> s[i + k].doc]
RunBefore(s, i) == {j \in 1..(i - 1) : \A k \in j..(i - 1) : s[k].t = "DOC_PREFIX"}
RunBehind(s, i) == {j \in DOMAIN s : j > i /\ \A k \in (i + 1)..j : s[k].t = "DOC_POSTFIX"}
CommentsBefore(s, i) == LET n == Cardinality(RunBefore(s, i)) IN Comments(s, i - 1 - n, n)
CommentsBehind(s, i) == Comments(s, i, Cardinality(RunBehind(s, i)))

NameAt(s, i) == IF At(s, i - 1) = "RBRACKET" THEN i - 4 ELSE i - 1
TypeAt(s, i) == NameAt(s, i) - 1
StartAt(s, a) == IF s[a].t = "T_INT" /\ At(s, a - 1) = "T_UNSIGNED" THEN a - 1 ELSE a
TypeOf(s, a) == IF s[a].t = "IDENT" THEN s[a].id ELSE TypeNames[s[StartAt(s, a)].t]

MemberAt(s, i) ==
    LET a == TypeAt(s, i)
    IN  [name |-> s[NameAt(s, i)].id, type |-> TypeOf(s, a),
         is_struct |-> s[a].t = "IDENT",
         size |-> IF At(s, i - 1) = "RBRACKET" THEN s[i - 2].digits ELSE <<>>,
         pre |-> CommentsBefore(s, StartAt(s, a)), post |-> CommentsBehind(s, i)]

(* A type of one word, or unsigned int, a name and perhaps one number.     *)
Supported(s, i) ==
    LET a == TypeAt(s, i)
    IN  /\ At(s, i - 1) = "RBRACKET" => /\ At(s, i - 2) = "INTEGER"
                                        /\ At(s, i - 3) = "LBRACKET"
        /\ At(s, NameAt(s, i)) = "IDENT"
        /\ At(s, a) \in Types \cup {"T_UNSIGNED"}
        /\ At(s, StartAt(s, a) - 1) \in {"LBRACE", "SEMI", "DOC_PREFIX", "DOC_POSTFIX"}

IsText(lines) == IsSequence(lines) /\ \A i \in DOMAIN lines : IsSequence(lines[i])

(* Every number is the size of an array, and no array of C is empty.       *)
AreTokens(s) ==
    /\ IsSequence(s)
    /\ \A i \in DOMAIN s :
         /\ s[i].t # "EOF"
         /\ s[i].t = "INTEGER" => /\ s[i].digits # <<>>
                                  /\ strtol(s[i].digits) \in Nat \ {0}
                                  /\ InC(s[i].digits) \in Nat \ {0}
         /\ s[i].t \in {"DOC_PREFIX", "DOC_POSTFIX"} => IsText(s[i].doc.lines)

(* No brace that closes a name is inside other braces, C's rule that a     *)
(* name is declared once, and a header says what its tokens say.           *)
SaysItsTokens(h) ==
    LET s == Code(h)
    IN  /\ DOMAIN Says(h) = 1..Cardinality(Closings(s))
        /\ \A e \in Closings(s) :
             LET said == Says(h)[Rank(Closings(s), e)]
             IN  /\ said.name = s[e + 1].id
                 /\ IsSequence(said.fields)
                 /\ Len(said.fields) = Cardinality(Semicolons(s, e))
                 /\ \A i \in Semicolons(s, e) :
                      Supported(s, i) =>
                        said.fields[Rank(Semicolons(s, e), i)] = MemberAt(s, i)
        /\ \A i, j \in DOMAIN Says(h) : i # j => Says(h)[i].name # Says(h)[j].name

ASSUME HeadersAssumption ==
    \A h \in Headers :
        IsSequence(Written(h)) /\ AreTokens(Scanned(h)) /\ SaysItsTokens(h)

(***************************************************************************)
(* Properties                                                              *)
(***************************************************************************)
(* Every structure of the header is in the catalogue, in the order of the  *)
(* header, whenever the generator ends without an error and without a word *)
(* on stderr: the error recovery loses structures, but never silently.     *)
(* Headers in which an empty comment swallows text are exempted: /**/ and  *)
(* all up to the next end of a comment are taken for documentation.        *)
Silent == phase \in {"compile", "built"} /\ hfile.whole /\ hfile.of = p.of /\ ~complained
AllOfIt == hfile.catalog = [i \in DOMAIN Says(p.text) |-> Says(p.text)[i].name]
CatalogComplete == Silent /\ ~Swallows(p.text) => AllOfIt

(* The .c compiles: a descriptor comes behind the descriptors it points    *)
(* at, none comes twice, and the table names only descriptors of the file. *)
NestedFirst ==
    LET items == cfile.items
    IN  /\ \A i \in DOMAIN items : \A k \in DOMAIN items[i].fields :
             LET nested == items[i].fields[k].nested
             IN  nested # "" => \E j \in 1..(i - 1) : items[j].name = nested
        /\ \A i, j \in DOMAIN items : i # j => items[i].name # items[j].name
        /\ cfile.whole =>
             ToSet(cfile.catalog) = {items[i].name : i \in DOMAIN items}

SizeOf == [int |-> 4, unsigned |-> 4, float |-> 4, double |-> 8, char |-> 1]
KindSize == [INT |-> 4, UNSIGNED |-> 4, FLOAT |-> 4, DOUBLE |-> 8]

(* The bytes a member has, and the bytes the library takes for its value,  *)
(* both for one struct-typed element as 1.                                 *)
Member(m) == (IF m.size = <<>> THEN 1 ELSE InC(m.size))
               * (IF m.is_struct THEN 1 ELSE SizeOf[m.type])

Touched(f, m) ==
    f.element_count * (IF f.char_buffer THEN Member(m)
                       ELSE IF f.kind = "STRUCT" THEN 1 ELSE KindSize[f.kind])

LoneChar(m) == m.type = "char" /\ m.size = <<>>
OctalCount(m) == (m.is_struct \/ m.type # "char") /\ Octal(m.size)

(* The emitted descriptors with the members they describe.                 *)
Pairs == {pair \in (DOMAIN cfile.items) \X (DOMAIN Says(p.text)) :
            cfile.items[pair[1]].name = Says(p.text)[pair[2]].name}
Emitted == phase \in {"emit", "header", "compile", "built"} /\ cfile.of = p.of
Stays(members, described, i) == Touched(described[i], members[i]) = Member(members[i])

(* The readers and writers of the library stay inside the member a field   *)
(* describes, unless it is a char that is no array, described as a double, *)
(* or its size is written in octal and read in decimal: int x[010] has 8   *)
(* elements in C and 10 in its descriptor.                                 *)
ReadersStayInside ==
    Emitted /\ ~Swallows(p.text) => \A pair \in Pairs :
        LET described == cfile.items[pair[1]].fields
            members == Says(p.text)[pair[2]].fields
        IN  /\ Len(described) = Len(members)
            /\ \A i \in DOMAIN members :
                 LoneChar(members[i]) \/ OctalCount(members[i]) \/ Stays(members, described, i)

RawLines(comments) == FlattenSeq([i \in DOMAIN comments |-> comments[i].lines])
Last_json_name(m) ==
    IF Carriers(RawLines(m.post), "json_name") # {}
    THEN extract_json_name_value(RawLines(m.post))
    ELSE extract_json_name_value(RawLines(m.pre))
HasCommand(m, cmd) ==
    \E comments \in {m.pre, m.post} : Carriers(RawLines(comments), cmd) # {}

(* The paragraph of the last @brief, without the JSON commands.            *)
Paragraph(lines) ==
    LET text == copy_without_json_cmds(lines)
        b == Max(TagLines(text, "brief"))
    IN  FlattenSeq([k \in DOMAIN text |->
            IF k = b THEN Tail(text[k])
            ELSE IF k > b /\ \A m \in (b + 1)..k : ~StartsTag(text[m])
                 THEN text[k] ELSE <<>>])
HasBrief(lines) == TagLines(copy_without_json_cmds(lines), "brief") # {}

BriefWritten(m) ==
    LET post == RawLines(m.post)   pre == RawLines(m.pre)
        words == FlattenSeq(copy_without_json_cmds(post))
    IN  IF HasBrief(post) THEN Paragraph(post)
        ELSE IF words # <<>> THEN words
        ELSE IF HasBrief(pre) THEN Paragraph(pre) ELSE <<>>

(* One comment at most on each side, and words behind each @brief, other   *)
(* than JSON commands.                                                     *)
PlainComments(m) ==
    /\ Len(m.pre) <= 1 /\ Len(m.post) <= 1
    /\ \A comments \in {m.pre, m.post} :
         LET text == copy_without_json_cmds(RawLines(comments))
         IN  \A b \in TagLines(text, "brief") : Tail(text[b]) # <<>>

(* A field carries the JSON commands of the comments before and behind its *)
(* member, those behind it winning, and its brief is the prose written for *)
(* it, provided it is not spread over several comments.                    *)
DescribedAsWritten ==
    Emitted /\ ~Swallows(p.text) => \A pair \in Pairs :
        \A i \in DOMAIN Says(p.text)[pair[2]].fields :
            LET f == cfile.items[pair[1]].fields[i]
                m == Says(p.text)[pair[2]].fields[i]
            IN  /\ f.name = m.name /\ f.json_name = Last_json_name(m)
                /\ f.json_ignore = HasCommand(m, "json_ignore")
                /\ f.json_required = HasCommand(m, "json_required")
                /\ PlainComments(m) => f.brief = BriefWritten(m)

(* What is built comes from the header as it is, and the identifiers of    *)
(* the .h are those of the table in the .c, unless the last run of the     *)
(* generator ended between its two files or the header was written while   *)
(* it or the compiler ran: make then takes stale files for current, or has *)
(* built from a header that is gone.                                       *)
BuildIsCurrent ==
    phase = "built" /\ ~excused =>
        /\ cfile.of = version /\ hfile.of = version
        /\ cfile.catalog = hfile.catalog
=============================================================================
