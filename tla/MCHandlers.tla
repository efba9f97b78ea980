------------------------------ MODULE MCHandlers ------------------------------
EXTENDS Handlers

Regexp(words) == [kind |-> "regexp", valid |-> TRUE, anchored |-> TRUE, words |-> words]
Loose(words) == [Regexp(words) EXCEPT !.anchored = FALSE]
Broken == [Regexp({}) EXCEPT !.valid = FALSE]
Is(s) == [kind |-> "strcmp", valid |-> TRUE, text |-> s]
Word(s) == [text |-> s, groups |-> <<>>]
\* ^a/   ^([ab])/   ^a|^a/b   and expressions that match anywhere and always
A == Regexp({Word(<<"a", "/">>)})
AorB == Regexp({[text |-> <<x, "/">>, groups |-> <<x>>] : x \in {"a", "b"}})
Longest == Regexp({Word(<<"a">>), Word(<<"a", "/", "b">>)})
SomeB == Loose({Word(<<"b">>)})
Everything == Regexp({Word(<<>>)})

NewH(name, kind, inside, data) == [op |-> "new", name |-> name, kind |-> kind, inside |-> inside, data |-> data]
User(name, does) == NewH(name, "user", Null, does)
Static(name, n) == NewH(name, "static", Null, [size |-> n, code |-> 200])
Url(name) == NewH(name, "url", Null, Null)
Chain(base, name) == [op |-> "add", base |-> base, name |-> name]
Route1(url, pattern, name) == [op |-> "url_add", url |-> url, pattern |-> pattern, name |-> name]
PathH(name, pattern, inside) == [op |-> "path", name |-> name, pattern |-> pattern, inside |-> inside]
Point(kind, host, port) == [op |-> "listen_point", kind |-> kind, host |-> host, port |-> port]
Port1(port) == [op |-> "port", port |-> port]
Host1(host) == [op |-> "hostname", host |-> host]
Tls == [op |-> "certificate", type |-> "KEY"]
Trust == [Tls EXCEPT !.type = "TRUST"]
Unknown == [Tls EXCEPT !.type = "NONE"]
Data1(frees) == [op |-> "data", frees |-> frees]
Root(name) == [op |-> "root", name |-> name]
OnError(name) == [op |-> "error", name |-> name]

MCPrograms == {
  \* a url with static text, an opack, a nested url, a broken expression, a fallback
  << Url("u"), NewH("s", "url_static", Null, [size |-> 2, code |-> 201]), Route1("u", Is(<<"a">>), "s"),
     Url("v"), NewH("o", "opack", Null, [path |-> <<"b">>, length |-> 0, size |-> 4]), NewH("p", "opack", Null, [path |-> <<>>, length |-> 1, size |-> 1]),
     Chain("o", "p"), Route1("u", AorB, "v"), Route1("v", Is(<<"b">>), "o"), User("x", "skips"), Route1("u", Broken, "x"), Root("u"),
     User("f", "moved"), Chain("u", "f") >>,
  \* path handlers, one of them with an inside where nobody answers, before a fallback
  << User("k", "skips"), User("m", "answers much"), Chain("k", "m"), PathH("q", SomeB, "k"), User("e", "skips"), PathH("r", Longest, "e"),
     Chain("q", "r"), Static("f", 5), Chain("q", "f"), Root("q") >>,
  \* a path handler that could not be made, and the failures of user handlers
  << User("k", "answers"), PathH("q", Broken, "k"), Root("q"), Url("u"), Route1("u", Is(<<"a">>), "q"), User("e", "fails"), User("l", "lacks"), User("n", "no websocket"),
     User("c", "closes"), Route1("u", A, "e"), Route1("u", Is(<<"b">>), "l"), Route1("u", Is(<<>>), "n"), Chain("u", "c"), Root("u") >>,
  \* an area behind a password, and a redirection into it
  << Url("i"), User("j", "json"), User("s", "shortcut"), Route1("i", Is(<<"b">>), "j"), NewH("t", "status", Null, Null), Route1("i", Everything, "t"),
     NewH("w", "auth", "i", Null), Url("u"), Route1("u", A, "w"), NewH("d", "redirect", Null, <<"a", "/", "b">>), Route1("u", Is(<<>>), "d"),
     Route1("u", Is(<<"b">>), "s"), Root("u"), Static("err", 1), OnError("err") >>,
  \* no handler at all
  << >>,
  \* a server that listens at three points, the first of them promoted to HTTPS
  << Port1("80"), Host1("a"), Port1("81"), Unknown, Tls, Trust, Host1("b"), Point("http", Null, "82"), Point(Null, "c", "83"), Point("other", "c", Null),
     Data1(TRUE), Data1(TRUE), Data1(FALSE), Data1(TRUE), [op |-> "sessions"], [op |-> "root_url", name |-> "u"], [op |-> "root_url", name |-> "v"],
     User("m", "answers"), Route1("u", Is(<<>>), "m") >>,
  \* one that speaks HTTPS from the start, and one whose first point is neither
  << Tls, Port1("443"), Static("s", 1), Root("s") >>,
  << Host1("a"), User("c", "closes"), Root("c") >>,
  << Point("other", "a", "1"), Tls >> }

\* The inside of a path handler does not answer, and the next handler looks at the path.
MCProgramsInsideSkips ==
  {<< User("e", "skips"), PathH("r", A, "e"), User("m", "answers"), PathH("q", A, "m"), Chain("r", "q"), Root("r") >>}
\* A redirection to an address that begins with a slash, as fullpath does
MCProgramsSlash ==
  {<< Url("u"), User("m", "answers"), Route1("u", Is(<<"b">>), "m"),
      NewH("d", "redirect", Null, <<"/", "b">>), Route1("u", Is(<<"a">>), "d"), Root("u") >>}
\* Handlers that write and then fail or leave the request to the next one
MCProgramsHalf ==
  {<< User("e", h), User("m", "shortcut"), Chain("e", "m"), Root("e") >> : h \in {"writes and fails", "writes and goes"}}
MCProgramsForbid == {<< User("e", "forbids"), Root("e") >>}

Ask(client, path, auth) == [client |-> client, path |-> <<"/">> \o path, GET |-> {}, auth |-> auth]
MCRequests ==
  {Ask("c", p, a) : p \in {<<>>, <<"a">>, <<"b">>, <<"a", "/", "b">>, <<"a", "/">>}, a \in {Null, <<"ann", "secret">>}}
  \union {Ask("d", p, a) : p \in {<<>>, <<"b", "/", "b">>, <<"a", "/", "b">>}, a \in {Null, <<"ann">>, <<"ann", "guess">>}}
MCAccounts == {<<"ann", "secret">>}
=============================================================================
