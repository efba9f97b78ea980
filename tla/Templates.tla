----------------------------- MODULE Templates -----------------------------
(***************************************************************************)
(* otemplate, the compiler of templates to C (src/tools/otemplate), and    *)
(* what the C it writes does when a page is answered.                      *)
(*                                                                         *)
(* A template is a sequence of symbols: the braces, %, #, ., ", a blank,   *)
(* and words, each of which stands for some letters.  The compiler goes    *)
(* through it symbol by symbol; what it appends to a C function is an      *)
(* instruction here, one for each statement, or half a statement, of C.    *)
(***************************************************************************)
EXTENDS Integers, Sequences, SequencesExt

CONSTANTS
  WordOrder,    \* the words that values are made of, in strcmp's order
  Plugins       \* the plugins there are, and the tags each one adds

-----------------------------------------------------------------------------
(* functions.c: the functions of C that are being written.                 *)

Op(op, arg) == [op |-> op, arg |-> arg, cond |-> <<>>]
If(cond) == [op |-> "if", arg |-> <<>>, cond |-> cond]

Builtins == {"load", "for", "endfor", "if", "else", "endif", "include", "extends", "block", "endblock"}

Empty(name) ==
  [status |-> 0, name |-> name, stack |-> <<>>, code |-> <<>>, mute |-> {}, count |-> 0,
   tags |-> Builtins]

Id(p, extra) == <<p.name>> \o extra
Top(p) == Last(p.stack)

FunctionNew(p, id) == [p EXCEPT !.stack = Append(@, id), !.code = (id :> <<>>) @@ @]
FunctionAnonymous(p) ==
  [FunctionNew(p, Id(p, <<"f", ToString(p.count)>>)) EXCEPT !.count = @ + 1]
FunctionPop(p) == [p EXCEPT !.stack = Front(@)]

\* Behind {% extends %} the page itself writes nothing any more.
AddCode(p, ops) == IF Top(p) \in p.mute THEN p ELSE [p EXCEPT !.code[Top(p)] = @ \o ops]
AddInit(p, op) == [p EXCEPT !.code[Id(p, <<"blocks_init">>)] = Append(@, op)]

-----------------------------------------------------------------------------
(* variables.c and tags.c: names and tokens. *)

\* a . b . c, the blanks left out, as a list of names.
Parts(data) ==
  FoldLeft(LAMBDA parts, c:
             IF c = "." THEN Append(parts, <<>>)
             ELSE IF c = " " THEN parts
             ELSE [parts EXCEPT ![Len(parts)] = Append(@, c)],
           << <<>> >>, data)

Var(data) == [literal |-> FALSE, path |-> Parts(data), text |-> data]
Literal(data) == [literal |-> TRUE, path |-> <<>>, text |-> data]

\* The tokens of a tag; one in quotes that are not closed is lost.
Tokens(raw) ==
  LET step(t, c) ==
        CASE t.mode = 0 /\ c = " " -> t
          [] t.mode = 0 /\ c = "\"" -> [t EXCEPT !.mode = 2]
          [] t.mode = 0 /\ c \notin {" ", "\""} -> [t EXCEPT !.mode = 1, !.word = <<c>>]
          [] (t.mode = 1 /\ c = " ") \/ (t.mode = 2 /\ c = "\"") ->
               [mode |-> 0, word |-> <<>>,
                list |-> Append(t.list, IF t.mode = 1 THEN Var(t.word) ELSE Literal(t.word))]
          [] OTHER -> [t EXCEPT !.word = Append(@, c)]
      t == FoldLeft(step, [mode |-> 0, word |-> <<>>, list |-> <<>>], raw)
  IN  IF t.mode = 1 THEN Append(t.list, Var(t.word)) ELSE t.list

-----------------------------------------------------------------------------
(* tag_builtins.c *)

Broken(p) == [p EXCEPT !.status = 1]

Operators == {"==", "!=", "<", "<=", ">", ">="}

TagIf(p, l) ==
  LET cond == CASE Len(l) = 2 -> <<l[2]>>
                [] Len(l) = 4 /\ l[3].text \in {<<o>> : o \in Operators} -> <<l[2], l[4], l[3].text[1]>>
                [] OTHER -> <<>>
  IN  FunctionAnonymous(IF cond = <<>> THEN Broken(p) ELSE AddCode(p, <<If(cond)>>))
TagElse(p) == FunctionAnonymous(AddCode(FunctionPop(p), <<Op("call", Top(p)), Op("else", <<>>)>>))
TagEndif(p) == AddCode(FunctionPop(p), <<Op("call", Top(p)), Op("end", <<>>)>>)

\* Two functions: one is called for each value and binds it to the name, in a
\* copy of the context; it calls the other one, the body.
TagFor(p, l) ==
  LET each == FunctionAnonymous(AddCode(p, <<Op("preorder", Parts(l[4].text))>>))
  IN  FunctionAnonymous(AddCode(each, <<Op("bind", l[2].text)>>))
\* A bug: the loop calls the body, which nobody has given its value.
TagEndforSwapped(p) ==
  LET each == AddCode(FunctionPop(p), <<Op("call", Top(p))>>)
  IN  AddCode(FunctionPop(each), <<Op("each", Top(p))>>)
TagEndfor(p) ==
  LET each == AddCode(FunctionPop(p), <<Op("call", Top(p))>>)
  IN  AddCode(FunctionPop(each), <<Op("each", Top(each))>>)

TagInclude(p, l) == AddCode(p, <<Op("call", l[2].text)>>)
TagExtends(p, l) == LET call == TagInclude(p, l) IN [call EXCEPT !.mute = @ \union {Top(p)}]

TagBlock(p, l) ==
  LET name == l[2].text
      id == Id(p, <<"block">> \o name)
      here == AddCode(p, <<Op("block", name)>>)
  IN  AddInit(FunctionNew(here, id), [Op("register", name) EXCEPT !.cond = id])
TagEndblock(p) == FunctionPop(p)

\* A plugin is found along the search path, and adds its tags.
LoadExternal(p, name) ==
  IF name \in DOMAIN Plugins THEN [p EXCEPT !.tags = @ \union Plugins[name]] ELSE Broken(p)
TagLoad(p, l) == FoldLeft(LAMBDA q, token: LoadExternal(q, token.text[1]), p, Tail(l))

\* templatetags/i18n.c: the text, translated to the language of the request.
TagTrans(p, l) == AddCode(p, <<Op("translate", l[2].text)>>)

\* tags.c: the first token is the command.
TagWrite(p, raw) ==
  LET l == Tokens(raw)
      name == l[1].text
  IN  CASE l = <<>> \/ name \notin {<<t>> : t \in p.tags} -> Broken(p)
        [] l # <<>> /\ name = <<"load">> -> TagLoad(p, l)
        [] l # <<>> /\ name = <<"trans">> -> TagTrans(p, l)
        [] l # <<>> /\ name = <<"if">> -> TagIf(p, l)
        [] l # <<>> /\ name = <<"else">> -> TagElse(p)
        [] l # <<>> /\ name = <<"endif">> -> TagEndif(p)
        [] l # <<>> /\ name = <<"for">> -> TagFor(p, l)
        [] l # <<>> /\ name = <<"endfor">> -> TagEndfor(p)
        [] l # <<>> /\ name = <<"include">> -> TagInclude(p, l)
        [] l # <<>> /\ name = <<"extends">> -> TagExtends(p, l)
        [] l # <<>> /\ name = <<"block">> -> TagBlock(p, l)
        [] l # <<>> /\ name = <<"endblock">> -> TagEndblock(p)

-----------------------------------------------------------------------------
(* parser.c *)

VariableWrite(p, raw) == AddCode(p, <<Op("variable", Parts(raw))>>)

WriteBlock(p, b) ==
  CASE b.mode = "TEXT" /\ b.raw = <<>> -> p
    [] b.mode = "TEXT" /\ b.raw # <<>> -> AddCode(p, <<Op("write", b.raw)>>)
    [] b.mode = "VARIABLE" -> VariableWrite(p, b.raw)
    [] b.mode = "TAG" -> TagWrite(p, b.raw)

\* A mode that is not one in between hands over what the last one has
\* collected; blocks is what write_block is called with, in that order.
Transitional == {"BEGIN", "END_VARIABLE", "END_TAG", "COMMENT", "COMMENTHASH"}
SetMode(st, mode) ==
  IF mode \in Transitional THEN [st EXCEPT !.mode = mode]
  ELSE [mode |-> mode, last |-> mode, raw |-> <<>>,
        blocks |-> Append(st.blocks, [mode |-> st.last, raw |-> st.raw])]

AddChars(st, s) == [st EXCEPT !.raw = @ \o s]

\* The mode after the symbol, and what the symbol adds.
Symbol(st, c) ==
  LET next(mode, s) == AddChars(SetMode(st, mode), s)
      until(end, mode) == IF c = end THEN next(mode, <<>>) ELSE AddChars(st, <<c>>)
  IN
  CASE st.mode = "TEXT" -> until("{", "BEGIN")
    [] st.mode = "BEGIN" /\ c = "{" -> next("VARIABLE", <<>>)
    [] st.mode = "BEGIN" /\ c = "%" -> next("TAG", <<>>)
    [] st.mode = "BEGIN" /\ c = "#" -> next("COMMENT", <<>>)
    [] st.mode = "BEGIN" /\ c \notin {"{", "%", "#"} -> next("TEXT", <<"{", c>>)
    [] st.mode = "COMMENT" -> IF c = "#" THEN next("COMMENTHASH", <<>>) ELSE st
    [] st.mode = "COMMENTHASH" -> next(IF c = "}" THEN "TEXT" ELSE "COMMENT", <<>>)
    [] st.mode = "VARIABLE" -> until("}", "END_VARIABLE")
    [] st.mode = "TAG" -> until("%", "END_TAG")
    [] st.mode \in {"END_VARIABLE", "END_TAG"} /\ c = "}" -> next("TEXT", <<>>)
    [] st.mode = "END_VARIABLE" /\ c # "}" -> next("VARIABLE", <<"}", c>>)
    [] st.mode = "END_TAG" /\ c # "}" -> next("END_TAG", <<"%", c>>)

ParseTemplate(p, s) ==
  LET start == [mode |-> "TEXT", last |-> "TEXT", raw |-> <<>>, blocks |-> <<>>]
      end == SetMode(FoldLeft(Symbol, start, s), "END")
  IN  FoldLeft(WriteBlock, p, end.blocks)

\* otemplate.c: the page is a function that first runs blocks_init.
Work(name, s) ==
  LET init == FunctionNew(Empty(name), <<name, "blocks_init">>)
      page == AddCode(FunctionNew(init, <<name>>), <<Op("call", <<name, "blocks_init">>)>>)
  IN  ParseTemplate(page, s)

\* Every function that has code is written; the page is the second function
\* of the stack, and nothing is written after an error.
WriteCode(p) == IF p.status = 0 THEN p.code ELSE <<>>
MainCode(p) == p.stack[2]

-----------------------------------------------------------------------------
(* The pages: what the functions of C do.  The context is a dictionary of  *)
(* texts and dictionaries, and the functions of its blocks.                *)

Text(t) == [text |-> t, dict |-> <<>>]
Dictionary(d) == [text |-> <<"no", "text">>, dict |-> d]
NoText == <<"no", "text">>

Rank(w) == CHOOSE i \in DOMAIN WordOrder : WordOrder[i] = w
Keys(d) == SetToSortSeq(DOMAIN d, LAMBDA a, b: Rank(a[1]) < Rank(b[1]))

\* onion_dict_rget and onion_dict_rget_dict: along the names, to a text or a
\* dictionary that is not there, NoText or an empty one.
RECURSIVE Rget(_, _)
Rget(d, path) ==
  IF Head(path) \notin DOMAIN d THEN Dictionary(<<>>)
  ELSE IF Len(path) = 1 THEN d[Head(path)] ELSE Rget(d[Head(path)].dict, Tail(path))

Value(vars, operand) == IF operand.literal THEN operand.text ELSE Rget(vars, operand.path).text

\* strcmp of texts of words: which is the less, by the first that differs.
StrLess(a, b) ==
  \E n \in 0 .. Len(a) :
    /\ n < Len(b) /\ SubSeq(a, 1, n) = SubSeq(b, 1, n)
    /\ n = Len(a) \/ Rank(a[n + 1]) < Rank(b[n + 1])
Compare(o, a, b) ==
  CASE o = "==" -> a = b [] o = "!=" -> a # b
    [] o = "<" -> StrLess(a, b) [] o = "<=" -> ~StrLess(b, a)
    [] o = ">" -> StrLess(b, a) [] o = ">=" -> ~StrLess(a, b)

\* Two names of one thing, or of nothing, hold in every comparison.
SamePointer(x, y) == ~x.literal /\ ~y.literal /\ x.path = y.path
Holds(vars, cond) ==
  LET a == Value(vars, cond[1])
      b == Value(vars, cond[2])
  IN  IF Len(cond) = 1 THEN a # NoText /\ a # <<"false">>
      ELSE \/ SamePointer(cond[1], cond[2])
           \/ a = NoText /\ b = NoText
           \/ a # NoText /\ b # NoText /\ Compare(cond[3], a, b)

\* onion_response_write_html_safe: a word "<" is written as its entity.
HtmlSafeWords(t) == [i \in DOMAIN t |-> IF t[i] = "<" THEN "&lt;" ELSE t[i]]

\* dgettext, whose catalogues have each word in one other language.
LANG == <<"LANG">>
Translated(language, t) == IF language = <<"C">> THEN t ELSE <<"translated">> \o t

\* A copy of the context has copies of its values; the copy of a function is
\* no function.
NoFunction == <<"no", "function">>
HardDup(blocks) == [b \in DOMAIN blocks |-> NoFunction]

\* s has the context, what is written and the value a loop hands on; code is
\* run from instruction i on.
RECURSIVE RunFrom(_, _, _, _)
Run(prog, id, s) ==
  IF id = NoFunction \/ id \notin DOMAIN prog THEN [s EXCEPT !.out = Append(@, "undefined")]
  ELSE RunFrom(prog, prog[id], 1, s)

RunEach(prog, id, dict, s) ==
  LET one(t, key) == Run(prog, id, [t EXCEPT !.value = dict[key]])
      loop == FoldLeft(one, [s EXCEPT !.blocks = HardDup(@)], Keys(dict))
  IN  [s EXCEPT !.out = loop.out]

RunFrom(prog, code, i, s) ==
  IF i > Len(code) THEN s
  ELSE
  LET c == code[i]
      go(t) == RunFrom(prog, code, i + 1, t)
      skip(n, t) == RunFrom(prog, code, i + n, t)
      value == Rget(s.vars, c.arg)
      alternative == i + 2 <= Len(code) /\ code[i + 2].op = "else"
      width == IF alternative THEN 4 ELSE 2
      chosen == IF Holds(s.vars, c.cond) THEN code[i + 1].arg ELSE code[i + 3].arg
  IN
  CASE c.op = "write" -> go([s EXCEPT !.out = @ \o c.arg])
    [] c.op = "variable" -> go(IF value.text = NoText THEN s ELSE [s EXCEPT !.out = @ \o HtmlSafeWords(value.text)])
    [] c.op = "translate" -> go([s EXCEPT !.out = @ \o Translated(Rget(s.vars, <<LANG>>).text, c.arg)])
    [] c.op = "call" -> go(Run(prog, c.arg, s))
    [] c.op = "if" -> skip(width, IF alternative \/ Holds(s.vars, c.cond) THEN Run(prog, chosen, s) ELSE s)
    [] c.op = "end" -> go(s)
    [] c.op = "preorder" -> skip(2, RunEach(prog, code[i + 1].arg, value.dict, s))
    [] c.op = "bind" -> go([s EXCEPT !.vars = (c.arg :> s.value) @@ @])
    [] c.op = "block" -> go(IF c.arg \in DOMAIN s.blocks THEN Run(prog, s.blocks[c.arg], s) ELSE s)
    [] c.op = "register" -> go([s EXCEPT !.blocks = @ @@ (c.arg :> c.cond)])

NoBlocks == <<>>
\* The page's _template function: the language of the request is put into the
\* context, which is freed when the page is written.
Page(prog, name, context) ==
  LET vars == (LANG :> Text(<<"C">>)) @@ context
  IN  Run(prog, name, [vars |-> vars, blocks |-> NoBlocks, value |-> Text(<<>>), out |-> <<>>]).out

-----------------------------------------------------------------------------
(* What a template says: the tree of its parts, the symbols that write it  *)
(* and the text it stands for.                                             *)

Part(kind, s, path, cond, body, other) ==
  [kind |-> kind, s |-> s, path |-> path, cond |-> cond, body |-> body, other |-> other]
Plain(s) == Part("text", s, <<>>, <<>>, <<>>, <<>>)
Comment(s) == Part("comment", s, <<>>, <<>>, <<>>, <<>>)
Variable(path) == Part("variable", <<>>, path, <<>>, <<>>, <<>>)
IfPart(cond, body) == Part("if", <<>>, <<>>, cond, body, <<>>)
IfElsePart(cond, body, other) == Part("ifelse", <<>>, <<>>, cond, body, other)
ForPart(name, path, body) == Part("for", name, path, <<>>, body, <<>>)
BlockPart(name, body) == Part("block", name, <<>>, <<>>, body, <<>>)
IncludePart(file) == Part("include", file, <<>>, <<>>, <<>>, <<>>)
LoadPart(plugin) == Part("load", plugin, <<>>, <<>>, <<>>, <<>>)
TransPart(s) == Part("trans", s, <<>>, <<>>, <<>>, <<>>)
ExtendsPart(file) == Part("extends", file, <<>>, <<>>, <<>>, <<>>)

Dotted(path) == Tail(FlattenSeq([i \in DOMAIN path |-> <<".">> \o path[i]]))
Operand(o) == IF o.literal THEN <<"\"">> \o o.text \o <<"\"">> ELSE Dotted(o.path)
Condition(cond) ==
  IF Len(cond) = 1 THEN Operand(cond[1])
  ELSE Operand(cond[1]) \o <<" ", cond[3], " ">> \o Operand(cond[2])
Tag(s) == <<"{", "%", " ">> \o s \o <<" ", "%", "}">>

RECURSIVE Source(_)
SourceOf(part) ==
  CASE part.kind = "text" -> part.s
    [] part.kind = "comment" -> <<"{", "#">> \o part.s \o <<"#", "}">>
    [] part.kind = "variable" -> <<"{", "{", " ">> \o Dotted(part.path) \o <<" ", "}", "}">>
    [] part.kind = "if" -> Tag(<<"if", " ">> \o Condition(part.cond)) \o Source(part.body) \o Tag(<<"endif">>)
    [] part.kind = "ifelse" -> Tag(<<"if", " ">> \o Condition(part.cond)) \o Source(part.body)
                             \o Tag(<<"else">>) \o Source(part.other) \o Tag(<<"endif">>)
    [] part.kind = "for" -> Tag(<<"for", " ">> \o part.s \o <<" ", "in", " ">> \o Dotted(part.path))
                          \o Source(part.body) \o Tag(<<"endfor">>)
    [] part.kind = "block" -> Tag(<<"block", " ">> \o part.s) \o Source(part.body) \o Tag(<<"endblock">>)
    [] part.kind = "load" -> Tag(<<"load", " ">> \o part.s)
    [] part.kind \in {"include", "extends", "trans"} -> Tag(<<part.kind, " ", "\"">> \o part.s \o <<"\"">>)
Source(parts) == FlattenSeq([i \in DOMAIN parts |-> SourceOf(parts[i])])

\* A block is the one of the page furthest down that has it; a page that
\* extends another one is that other one with its own blocks.
RECURSIVE Blocks(_)
Blocks(parts) ==
  FoldLeft(LAMBDA f, part: f @@ (IF part.kind = "block" THEN (part.s :> part.body) ELSE <<>>)
                             @@ Blocks(part.body) @@ Blocks(part.other),
           <<>>, parts)

RECURSIVE Render(_, _, _, _)
RenderPart(files, part, vars, blocks) ==
  LET dict == Rget(vars, part.path).dict
      value == Rget(vars, part.path).text
      item(key) == Render(files, part.body, (part.s :> dict[key]) @@ vars, blocks)
      keys == Keys(dict)
  IN  CASE part.kind = "text" -> part.s
        [] part.kind \in {"comment", "load"} -> <<>>
        [] part.kind = "trans" -> Translated(Rget(vars, <<LANG>>).text, part.s)
        [] part.kind = "variable" -> IF value = NoText THEN <<>> ELSE HtmlSafeWords(value)
        [] part.kind \in {"if", "ifelse"} ->
             Render(files, IF Holds(vars, part.cond) THEN part.body ELSE part.other, vars, blocks)
        [] part.kind = "for" -> FlattenSeq([i \in DOMAIN keys |-> item(keys[i])])
        [] part.kind = "block" -> Render(files, blocks[part.s], vars, blocks)
        [] part.kind = "include" -> Render(files, files[part.s], vars, blocks @@ Blocks(files[part.s]))
Render(files, parts, vars, blocks) ==
  IF parts # <<>> /\ parts[1].kind = "extends"
  THEN Render(files, files[parts[1].s], vars, blocks @@ Blocks(files[parts[1].s]))
  ELSE FlattenSeq([i \in DOMAIN parts |-> RenderPart(files, parts[i], vars, blocks)])

\* All the files compiled, each by a run of its own.
Compiled(files, page) ==
  LET one(name) == Work(name[1], Source(files[name]))
  IN  [code |-> FoldSet(LAMBDA name, prog: prog @@ WriteCode(one(name)), <<>>, DOMAIN files),
       status |-> \A name \in DOMAIN files : one(name).status = 0,
       page |-> MainCode(one(<<page>>))]
=============================================================================
