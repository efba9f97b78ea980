--------------------------- MODULE MCRequestParser ---------------------------
EXTENDS RequestParser

CRLF == <<"CR", "LF">>
Plainly == [method |-> <<"G", "ET">>, path |-> <<"a">>, query |-> <<>>, http |-> HTTP11, eol |-> CRLF,
            headers |-> <<>>, kind |-> "none", fields |-> <<>>, parts |-> <<>>, content |-> <<>>,
            epilogue |-> <<>>, gaps |-> <<<<"SP">>, <<"SP">>>>, mark |-> <<"Q">>, tail |-> <<>>]
Host == <<<<"Host">>, <<<<"h">>>>>>
GetIt == [Plainly EXCEPT !.headers = <<Host>>]
Query == [Plainly EXCEPT !.query = <<<<<<"k", "&">>, <<"SP", "v">>>>, <<<<"e">>, <<>>>>>>, !.eol = <<"LF">>]
Old == [Plainly EXCEPT !.http = <<>>, !.eol = <<"LF">>]
OldKept == [Plainly EXCEPT !.http = <<"HTTP/", "1.0">>, !.headers = <<<<<<"Connection">>, <<<<"Keep-Alive">>>>>>>>]
Last11 == [Plainly EXCEPT !.headers = <<<<<<"Connection">>, <<<<"Close">>>>>>>>]
Lines(eol) == [Plainly EXCEPT !.eol = eol, !.headers = <<<<<<"X">>, <<<<"one">>, <<"two">>>>>>, Host>>]
Unknown == [Plainly EXCEPT !.method = <<"BREW">>]
Broken == [Plainly EXCEPT !.path = <<"a">>, !.http = <<"HTTP/", "1.1", "LF", "junk">>]
Fields == <<<<<<"n">>, <<"v", "&">>>>, <<<<"m">>, <<"w">>>>>>
Post == [Plainly EXCEPT !.method = <<"P", "OST">>, !.kind = "form", !.fields = Fields]
PostBig == [Post EXCEPT !.fields = <<<<<<"n">>, [i \in 1..40 |-> "v"]>>>>]
PostRaw(n) == [Plainly EXCEPT !.method = <<"P", "OST">>, !.kind = "raw", !.content = [i \in 1..n |-> "d"]]
Put(n) == [Plainly EXCEPT !.method = <<"P", "UT">>, !.kind = "raw", !.content = [i \in 1..n |-> "d"]]
Field(name, content) == [name |-> <<name>>, filename |-> Null, content |-> content, typed |-> FALSE]
File(name, content) == [name |-> <<name>>, filename |-> <<"f">>, content |-> content, typed |-> TRUE]
Parts(parts) == [Plainly EXCEPT !.method = <<"P", "OST">>, !.kind = "parts", !.parts = parts]
Almost == <<"x", "LF", "CR", "LF", "-", "CR", "CR", "LF", "-", "-", "B">>

\* How parts are named: without blanks or quotes, with a blank only, with two; and as
\* tests/02-fullserver/segfault-01.txt does it, a file name on a line of its own.
Bare(q) == [q EXCEPT !.gaps = <<<<>>, <<>>>>, !.mark = <<>>]
Unquoted(q) == [q EXCEPT !.mark = <<>>]
NoBlank(q) == [q EXCEPT !.gaps = <<<<>>, <<>>>>]
TwoBlanks(q) == [q EXCEPT !.gaps = <<<<"SP", "SP">>, <<"SP", "SP">>>>]
OwnLine(q) == [q EXCEPT !.gaps = <<<<"SP">>, q.eol>>]
EndsOpen(q) == [q EXCEPT !.tail = <<";">>]
Nameless0 == [File("m", <<"x">>) EXCEPT !.filename = <<>>]

Alone == {GetIt, Query, Old, Last11, Lines(CRLF), Lines(<<"LF">>), Unknown, Broken, Post, PostBig,
          PostRaw(3), PostRaw(40), Put(0), Put(3), Put(40),
          Parts(<<Field("n", <<"v">>), File("m", Almost)>>),
          [Parts(<<File("m", <<"x">>), Field("n", <<>>)>>) EXCEPT !.eol = <<"LF">>],
          Parts(<<Field("n", <<"v", "LF", "w">>)>>),
          Parts(<<File("m", [i \in 1..10 |-> "x"]), File("n", [i \in 1..10 |-> "x"])>>),
          Parts(<<File("m", [i \in 1..30 |-> "x"])>>)}
Named1 == Parts(<<Field("n", <<"v">>), File("m", <<"x">>)>>)
Styles == {Bare(Named1), Unquoted(Named1), NoBlank(Named1), TwoBlanks(Named1), OwnLine(Named1),
           Unquoted(OwnLine(Named1)), EndsOpen(Named1), EndsOpen(Parts(<<File("m", <<"x">>)>>)),
           EndsOpen(Parts(<<Field("n", <<"v">>)>>)), Parts(<<Nameless0>>),
           Parts(<<[Field("n", <<"v">>) EXCEPT !.name = [i \in 1..32 |-> "n"]]>>)}
\* A line end in a field that is followed by one character of the boundary
Lookalikes == {<<Parts(<<Field("n", <<"v", "CR", "LF", "-", "w">>)>>)>>}
Recorded == {<<OwnLine(Parts(<<File("m", <<"x">>)>>))>>}
Epilogue == [Parts(<<File("m", <<"x">>)>>) EXCEPT !.epilogue = CRLF]
Everything ==
  {<<q>> : q \in Alone \union Styles}
  \union {<<GetIt, Post, GetIt>>, <<Put(2), OldKept>>, <<Parts(<<File("m", <<"x">>)>>), Query>>, <<Last11, GetIt>>}

Cuts == 1..8 \union {200}
=============================================================================
