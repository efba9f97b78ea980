------------------------------- MODULE MCFiles -------------------------------
EXTENDS Files

A == <<"a">>
C == <<"c">>
CB == <<"c", "b">>
D == <<"d">>
MCPaths == {<<>>, A, C, CB, D}
MCTree == (<<>> :> [dir |-> TRUE, size |-> 0]) @@ (A :> [dir |-> FALSE, size |-> 5]) @@ (C :> [dir |-> TRUE, size |-> 0])
  @@ (D :> [dir |-> FALSE, size |-> 6])
Get(via, path) == [via |-> via, method |-> "GET", path |-> path, range |-> Missing, cached |-> FALSE]
PartOf(p, s, e) == [Get("export", p) EXCEPT !.range = [start |-> s, end |-> e]]
Part(s, e) == PartOf(A, s, e)
Dav(method, path) == [via |-> "webdav", method |-> method, path |-> path]
Upload(path, n) == [via |-> "webdav", method |-> "PUT", path |-> path, size |-> n]
Find(path, depth) == [via |-> "webdav", method |-> "PROPFIND", path |-> path, depth |-> depth,
                     props |-> IF depth = 0 THEN Missing ELSE KnownProps \union {"unknown"}]
MCRequests ==
  {Get("export", p) : p \in {<<>>, A, C}} \union {Get("webdav", p) : p \in {A, CB}}
  \union {Part(0, 1), Part(1, Missing), Part(0, 4), Part(2, 1), Part(6, Missing), Part(Missing, Missing), Part(0, 7),
          [Get("export", A) EXCEPT !.method = "HEAD"], [Get("webdav", A) EXCEPT !.cached = TRUE]}
  \union {Get("export", D), PartOf(D, 1, 4), PartOf(D, 3, 8), Upload(D, 3)}
  \union {Upload(A, 1), Upload(A, 6), Upload(CB, 2), Upload(C, 1), Upload(A, 0)}
  \union {Dav("DELETE", A), Dav("DELETE", C), Dav("DELETE", CB), Dav("MKCOL", CB), Dav("MKCOL", A), Dav("OPTIONS", A), Dav("COPY", A)}
  \union {Find(<<>>, 1), Find(A, 0), Find(CB, 1), Find(C, 1), Find(C, Missing)}
  \union {[via |-> "webdav", method |-> "MOVE", path |-> A, dest |-> d] : d \in {CB, Missing}}
  \union {[via |-> "webdav", method |-> "PROPPATCH", path |-> A, executable |-> e] : e \in {TRUE, Missing}}
=============================================================================
