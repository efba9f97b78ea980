------------------------------ MODULE MCValues ------------------------------
EXTENDS Values

MCPieces == {<<>>, <<65, 66>>, <<67, 68, 69>>}

\* Bytes of every kind: letters, quotes, entities, blanks, the two halves of
\* a UTF-8 character.
MCBytes == {1, 8, TAB, LF, CR, SPACE, QUOTE, PERCENT, AMP, APOS, PLUS, 48, 59, LESS, 71,
            BACKSLASH, 110, 117, 127, 195, 255}
Texts(S, n) == UNION {[1 .. k -> S] : k \in 0 .. n}
Few == {LF, QUOTE, PERCENT, AMP, 97, BACKSLASH, 200}

\* Lengths around a group of three bytes and around one and two lines of 57.
Lengths == (1 .. 7) \union (55 .. 60) \union (112 .. 116)
Patterns(n) == {[i \in 1 .. n |-> 255], [i \in 1 .. n |-> 1 + ((37 * i) % 255)], [i \in 1 .. n |-> 97]}

Characters == {1, 34, 127, 128, 2047, 2048, 55295, 57344, 65533, 65535, 65536, 66000, 1114111}

Words == {<<>>, <<97>>, <<QUOTE, 58>>, <<BACKSLASH, LF>>, <<48, 125>>}
\* Dictionaries in the order of their keys, one key twice among them.
Nodes == {TextNode(key, value) : key \in {<<97>>, <<QUOTE>>, <<44, 125>>}, value \in Words}
Flat == {d \in UNION {[1 .. k -> Nodes] : k \in 0 .. 2} : Len(d) = 2 => d[1].key[1] <= d[2].key[1]}
Nested == {<<DictNode(<<98>>, d), TextNode(<<99>>, <<49>>)>> : d \in Flat}
          \union {<<DictNode(<<98>>, <<DictNode(<<>>, d)>>)>> : d \in Flat}

MCCookies == LET one == {Cookie(k, v) : k \in {<<97>>, <<98, 99>>}, v \in {<<49>>, <<EQUALS, 50>>, <<SPACE, 51>>}}
             IN  UNION {[1 .. k -> one] : k \in 1 .. 3}

\* Cookies that fit their buffer.
MCSetCookies == {c \in
                [key : {<<97>>, <<97, 98>>}, value : {<<49>>, <<EQUALS, 50>>, <<49, SPACE>>}, validity : {-1, 0, 60},
                 path : {NULL, <<47>>}, domain : {NULL, <<46, 97>>}, flags : {NULL, <<>>}]
                : ~CookieOverruns(c)}

Mimes == LET types == {[type |-> t, exts |-> e] :
                         t \in {<<97>>, <<97, 47, 98>>},
                         e \in {<<>>, <<<<104>>>>, <<<<106>>, <<106, 115>>>>}}
             apart(l) == \A i, j \in DOMAIN l : i # j => ToSet(l[i].exts) \intersect ToSet(l[j].exts) = {}
         IN  {l \in UNION {[1 .. k -> types] : k \in 1 .. 3} : apart(l)}

\* Templates.
MCPlugins == [i18n |-> {"trans"}]
MCWordOrder == <<"<", "C", "LANG", "a", "b", "false", "k", "l">>
w(x) == <<x>>
Leaves == {Plain(<<"a", "{", "b", "}", "%">>), Comment(<<"#", "a">>), Variable(<<w("a")>>), Variable(<<w("k"), w("l")>>)}
Bodies == {<<>>, <<Variable(<<w("v")>>)>>} \union {<<leaf>> : leaf \in Leaves}
Conditions ==
  {<<Var(w("a"))>>, <<Var(w("b"))>>, <<Var(<<"k", ".", "l">>)>>}
  \union {<<Var(w("a")), Literal(w("b")), o>> : o \in Operators}
  \union {<<Var(w("a")), Var(w("b")), o>> : o \in {"==", "<"}}
Ifs(bodies) == {IfPart(c, b) : c \in Conditions, b \in bodies}
IfElses(bodies) == {IfElsePart(c, b, o) : c \in Conditions, b, o \in bodies}
Fors(bodies) == {ForPart(w("v"), p, b) : p \in {<<w("k")>>, <<w("k"), w("k")>>}, b \in bodies}
Few1 == {<<Plain(w("b"))>>, <<Variable(<<w("v")>>), Comment(<<>>)>>}
Inner == {<<x>> : x \in Ifs(Few1) \union Fors(Few1)}
Pages == {<<leaf, x, Plain(w("b"))>> : leaf \in Leaves, x \in Ifs(Bodies) \union IfElses(Bodies) \union Fors(Bodies)}
         \union {<<x>> : x \in Ifs(Inner) \union Fors(Inner) \union Fors({<<y>> : y \in Fors(Few1)})}
         \union {<<LoadPart(<<"i18n">>), TransPart(w("a")), IfPart(<<Var(w("a"))>>, <<TransPart(w("b"))>>)>>}
         \union {<<IncludePart(w("q")), leaf>> : leaf \in Leaves}

Blocked(name, body) == BlockPart(w(name), <<Plain(w(body))>>)
Base == <<Plain(w("a")), Blocked("k", "k"), IfPart(<<Var(w("a"))>>, <<Blocked("l", "l")>>), IncludePart(w("q"))>>
Children == {<<ExtendsPart(w("p")), Plain(w("b"))>> \o b : b \in
               {<<>>, <<Blocked("k", "a")>>, <<Blocked("l", "b"), Blocked("k", "false")>>}}
Inherited == {[files |-> (w("p") :> Base) @@ (w("q") :> <<Variable(<<w("a")>>)>>) @@ (w("c") :> c) @@ (w("g") :> g),
               page |-> page] :
                c \in Children, page \in {"p", "c", "g"},
                g \in {<<ExtendsPart(w("c"))>>, <<ExtendsPart(w("c")), Blocked("k", "<")>>}}
Alone == {[files |-> (w("p") :> x) @@ (w("q") :> <<Plain(w("k")), ForPart(w("v"), <<w("k")>>, <<Variable(<<w("v")>>)>>)>>),
           page |-> "p"] : x \in Pages}

T1 == Text(w("b"))
Contexts == {<<>>, w("a") :> Text(<<"<", "b">>),
             (w("a") :> Text(w("false"))) @@ (w("b") :> T1) @@ (w("k") :> Dictionary((w("l") :> Text(w("l"))) @@ (w("a") :> T1))),
             (w("a") :> T1) @@ (w("b") :> Text(w("a"))) @@ (w("v") :> T1) @@
               (w("k") :> Dictionary((w("k") :> Dictionary((w("l") :> T1) @@ (w("a") :> Text(w("a"))))) @@ (w("b") :> Text(w("<")))))}
MCTemplates == {[files |-> x.files, page |-> x.page, context |-> c] : x \in Alone \union Inherited, c \in Contexts}

\* Around every limit of the encoding, but no whole number of blocks and nothing
\* from 65535 on.
FrameLengths == {0, 1, 125, 126, 127, 128, 1023, 1025, 2047, 2049, 65534}

Quoted == Texts(MCBytes, 2) \union Texts(Few, 3)
MCTasks ==
  ("set cookie" :> MCSetCookies) @@
  [block |-> {<<>>},
   base64 |-> UNION {Patterns(n) : n \in Lengths},
   url |-> Quoted, c |-> Quoted, html |-> Quoted, json |-> Quoted,
   character |-> {<<uc>> : uc \in Characters},
   dict |-> Flat \union Nested, cookies |-> MCCookies, mime |-> Mimes,
   frame |-> FrameLengths, printf |-> {0, 125, 126, 509, 510},
   language |-> {<<101>>, <<101, 110>>}, template |-> MCTemplates]
=============================================================================
