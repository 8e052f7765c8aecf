--------------------------- MODULE MCStructMetaGen ---------------------------
(* Headers for TLC: one to three declarations out of the catalogue below,  *)
(* no two of them with one name.                                           *)
EXTENDS StructMetaGen

K(t) == [t |-> t, id |-> "", digits |-> <<>>, doc |-> [style |-> "", lines |-> <<>>]]
Id(n) == [K("IDENT") EXCEPT !.id = n]
Num(digits) == [K("INTEGER") EXCEPT !.digits = digits]
Doc(t, style, lines) == [K(t) EXCEPT !.doc = [style |-> style, lines |-> lines]]
Block(lines) == Doc("DOC_PREFIX", "block", lines)
Slashes(line) == Doc("DOC_PREFIX", "line", <<line>>)
Comment == Doc("COMMENT", "block", <<<<Word("w")>>>>)
Empty == Doc("EMPTY", "block", <<<<>>>>)
Behind(line) == Doc("DOC_POSTFIX", "block", <<line>>)

Docs(tokens) == [i \in DOMAIN tokens |-> tokens[i].doc]

(* A member as tokens and as what it says in C.                            *)
M(pre, types, type, name, size, post) ==
    [tokens |-> pre \o types \o <<Id(name)>>
        \o (IF size = <<>> THEN <<>> ELSE <<K("LBRACKET"), Num(size), K("RBRACKET")>>)
        \o <<K("SEMI")>> \o post,
     says |-> [name |-> name, type |-> type, is_struct |-> types[1].t = "IDENT",
               size |-> size, pre |-> Docs(pre), post |-> Docs(post)]]
IntMember(name) == M(<<>>, <<K("T_INT")>>, "int", name, <<>>, <<>>)
Of(type, name, size) == M(<<>>, <<Id(type)>>, type, name, size, <<>>)

Struct(pre, tag, members, name) ==
    [tokens |-> pre \o <<K("TYPEDEF"), K("STRUCT")>> \o tag \o <<K("LBRACE")>>
        \o FlattenSeq([i \in DOMAIN members |-> members[i].tokens])
        \o <<K("RBRACE"), Id(name), K("SEMI")>>,
     says |-> [name |-> name,
               fields |-> [i \in DOMAIN members |-> members[i].says]]]
Loose(tokens) == [tokens |-> tokens, says |-> [name |-> "", fields |-> <<>>]]

w == Word("w")
brief == Tag("brief")

Declarations == <<
  \* documented on both sides: the comment behind the member wins
  Struct(<<Block(<<<<brief, w>>>>)>>, <<>>,
    <<M(<<Block(<<<<brief, w>>, <<JsonName("k"), Tag("json_required")>>>>)>>,
        <<K("T_INT")>>, "int", "x", <<>>, <<Behind(<<w, w, JsonName("q")>>)>>)>>, "A"),
  \* two lines of slashes before a member
  Struct(<<>>, <<Id("a")>>,
    <<M(<<Slashes(<<brief, w>>), Slashes(<<w, Tag("json_ignore")>>)>>,
        <<K("T_FLOAT")>>, "float", "x", <<2>>, <<>>)>>, "A"),
  \* a second comment behind a member: a syntax error
  Struct(<<>>, <<>>,
    <<M(<<>>, <<K("T_INT")>>, "int", "x", <<>>, <<Behind(<<w>>), Behind(<<w>>)>>),
      IntMember("y")>>, "A"),
  Struct(<<>>, <<>>, <<Of("A", "a", <<2>>), Of("A", "b", <<>>), Of("C", "c", <<>>)>>, "B"),
  Struct(<<Slashes(<<w>>)>>, <<>>,
    <<M(<<Block(<<<<brief>>, <<Tag("param"), w>>>>)>>,
        <<K("T_UNSIGNED"), K("T_INT")>>, "unsigned", "u", <<>>,
        <<Behind(<<JsonName("")>>)>>),
      M(<<>>, <<K("T_CHAR")>>, "char", "s", <<3>>, <<>>), Of("C", "c", <<>>)>>, "B"),
  Struct(<<>>, <<>>,
    <<M(<<>>, <<K("T_CHAR")>>, "char", "c", <<>>, <<>>),
      M(<<>>, <<K("T_DOUBLE")>>, "double", "d", <<>>, <<>>)>>, "C"),
  Struct(<<>>, <<>>, <<Of("D", "d", <<>>)>>, "C"),
  Struct(<<>>, <<>>, <<Of("D", "d", <<>>), IntMember("x")>>, "D"),
  Struct(<<>>, <<>>,
    <<M(<<>>, <<K("T_UNSIGNED")>>, "unsigned", "u", <<>>, <<>>)>>, "D"),
  \* a pointer member
  Struct(<<>>, <<>>, <<M(<<>>, <<K("T_INT"), K("STAR")>>, "int*", "x", <<>>, <<>>)>>, "E"),
  \* a prototype, a lone semicolon, the comment of the file, a stray comment
  Loose(<<K("T_INT"), Id("f"), K("OTHER"), K("OTHER"), K("SEMI")>>),
  Loose(<<K("SEMI")>>),
  Loose(<<Block(<<<<Tag("file")>>, <<brief, w>>>>)>>),
  Loose(<<Block(<<<<w>>>>)>>),
  \* an array sized by a macro
  Struct(<<>>, <<>>,
    <<[IntMember("x") EXCEPT
         !.tokens = <<Block(<<<<brief, w>>>>), K("T_INT"), Id("x"), K("LBRACKET"), Id("N"),
                      K("RBRACKET"), K("SEMI")>>]>>, "F"),
  \* sizes written in octal
  Struct(<<>>, <<>>,
    <<M(<<>>, <<K("T_CHAR")>>, "char", "s", <<0, 1, 0>>, <<>>),
      M(<<>>, <<K("T_INT")>>, "int", "x", <<0, 1, 0>>, <<>>)>>, "G"),
  \* an empty comment, a plain one, and an empty one between members
  Loose(<<Empty>>),
  Loose(<<Comment>>),
  Struct(<<>>, <<>>,
    <<[IntMember("x") EXCEPT !.tokens = <<Empty>> \o @],
      M(<<Slashes(<<JsonName("k")>>), Block(<<<<w>>, <<Tag("json_ignore")>>>>)>>,
        <<K("T_INT")>>, "int", "y", <<>>, <<>>)>>, "H") >>

OneName(h) == \A i, j \in DOMAIN h :
                i # j => h[i].says.name = "" \/ h[i].says.name # h[j].says.name

Picked(picks) == {h \in {[i \in DOMAIN s |-> Declarations[s[i]]] : s \in picks} :
                    OneName(h)}
D == DOMAIN Declarations
WithEmpties == {<<17, 16, 1>>, <<17, 13, 16>>, <<17, 17, 16>>, <<17, 17, 17>>, <<16, 17, 18>>,
                <<16, 18, 17>>, <<1, 17, 19>>}
MCEdits == Picked({<<1, 9>>, <<9, 1>>, <<3, 9>>, <<1, 14>>})
MCHeaders == Picked({<<i>> : i \in D} \cup D \X D \cup ((1..5) \X (3..10) \X (5..9)) \cup WithEmpties)
=============================================================================
