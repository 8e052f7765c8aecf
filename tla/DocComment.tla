----------------------------- MODULE DocComment -----------------------------
(***************************************************************************)
(* What struct-meta-gen takes from Doxygen comments (struct_meta_gen_ast.c)*)
(* A comment is a sequence of lines, a line a sequence of tokens: a tag    *)
(* such as @brief, one of the three JSON commands, or a word.  A block     *)
(* comment has several lines; every /// line is a comment of its own.      *)
(***************************************************************************)
EXTENDS Integers, Sequences, SequencesExt, FiniteSetsExt

Word(w) == [is |-> "word", v |-> w]
Tag(t) == [is |-> t, v |-> ""]
JsonName(n) == [is |-> "json_name", v |-> n]   \* n = "" for the bare command

JsonCommands == {"json_name", "json_ignore", "json_required"}
Tags == {"brief", "file", "param"}
(* What is left of a comment's own delimiters where they are not removed.  *)
Mark == [is |-> "mark", v |-> ""]

None == ""   \* NULL, for a JSON name

(***************************************************************************)
(* struct_meta_gen_doc_concat and strip_doc_text: comments that follow one *)
(* another are joined as they are written, and only the first opening and  *)
(* the last closing delimiter of the joined text are removed.              *)
(***************************************************************************)
JoinedLines(comments, i) ==
    LET lines == comments[i].lines
        opened == IF i = 1 THEN lines
                  ELSE [lines EXCEPT ![1] = <<Mark>> \o @]
    IN  IF i = Len(comments) \/ comments[i].style = "line" THEN opened
        ELSE [opened EXCEPT ![Len(lines)] = Append(@, Mark)]

Stripped(comments) ==
    FlattenSeq([i \in DOMAIN comments |-> JoinedLines(comments, i)])

(* find_doc_tag: a tag counts only at the beginning of a line.             *)
TagLines(text, tag) ==
    {i \in DOMAIN text : text[i] # <<>> /\ text[i][1].is = tag}

(* find_cmd_last: a JSON command counts wherever it is.                    *)
Places(line, cmd) == {j \in DOMAIN line : line[j].is = cmd}
Carriers(text, cmd) == {i \in DOMAIN text : Places(text[i], cmd) # {}}
find_cmd_last(text, cmd) ==
    LET line == text[Max(Carriers(text, cmd))] IN line[Max(Places(line, cmd))]

WithoutCommands(line) ==
    FlattenSeq([j \in DOMAIN line |->
                  IF line[j].is \in JsonCommands THEN <<>> ELSE <<line[j]>>])
copy_without_json_cmds(text) == [i \in DOMAIN text |-> WithoutCommands(text[i])]

StartsTag(line) == line # <<>> /\ line[1].is \in Tags

(* extract_brief_tag: the last @brief up to the next line with a tag.      *)
(* Blanks behind @brief are skipped, line ends included: a bare @brief     *)
(* takes the next line, even one that begins with a tag.                   *)
extract_brief_tag(text) ==
    IF TagLines(text, "brief") = {} THEN <<>>
    ELSE LET i == Max(TagLines(text, "brief"))
             rest == <<Tail(text[i])>> \o SubSeq(text, i + 1, Len(text))
             filled == {k \in DOMAIN rest : rest[k] # <<>>}
             from == IF filled = {} THEN 1 ELSE Min(filled)
             stops == {k \in DOMAIN rest : k > from /\ StartsTag(rest[k])}
             to == IF stops = {} THEN Len(rest) ELSE Min(stops) - 1
         IN  FlattenSeq(SubSeq(rest, from, to))

brief_from_doc(comments, is_postfix) ==
    LET text == copy_without_json_cmds(Stripped(comments))
        brief == extract_brief_tag(text)
    IN  IF brief = <<>> /\ is_postfix THEN FlattenSeq(text) ELSE brief

(* The value of the last @json_name; a bare one has none.                  *)
extract_json_name_value(text) ==
    IF Carriers(text, "json_name") = {} THEN None
    ELSE find_cmd_last(text, "json_name").v

NoAttrs == [brief |-> <<>>, json_name |-> None, has_json_name |-> FALSE,
            json_ignore |-> FALSE, json_required |-> FALSE]

doc_attrs_from_raw(comments, is_postfix) ==
    IF comments = <<>> THEN NoAttrs
    ELSE LET text == Stripped(comments)
         IN  [brief |-> brief_from_doc(comments, is_postfix),
              json_name |-> extract_json_name_value(text),
              has_json_name |-> Carriers(text, "json_name") # {},
              json_ignore |-> Carriers(text, "json_ignore") # {},
              json_required |-> Carriers(text, "json_required") # {}]

(* Mutant: a comment before the member wins over one behind it.            *)
doc_attrs_choose_prefix(prefix, postfix) ==
    [brief |-> IF prefix.brief # <<>> THEN prefix.brief ELSE postfix.brief,
     json_name |-> IF prefix.has_json_name THEN prefix.json_name
                   ELSE postfix.json_name,
     has_json_name |-> prefix.has_json_name \/ postfix.has_json_name,
     json_ignore |-> prefix.json_ignore \/ postfix.json_ignore,
     json_required |-> prefix.json_required \/ postfix.json_required]

doc_attrs_choose(prefix, postfix) ==
    [brief |-> IF postfix.brief # <<>> THEN postfix.brief ELSE prefix.brief,
     json_name |-> IF postfix.has_json_name THEN postfix.json_name
                   ELSE prefix.json_name,
     has_json_name |-> prefix.has_json_name \/ postfix.has_json_name,
     json_ignore |-> prefix.json_ignore \/ postfix.json_ignore,
     json_required |-> prefix.json_required \/ postfix.json_required]

(* struct_meta_gen_doc_has_file_tag                                        *)
doc_has_file_tag(comment) == TagLines(comment.lines, "file") # {}
=============================================================================
