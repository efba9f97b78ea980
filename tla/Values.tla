------------------------------- MODULE Values -------------------------------
(***************************************************************************)
(* How values get into texts and back: the growing block all texts are     *)
(* written to (block.c), the codecs, dictionaries as JSON (dict.c), the    *)
(* cookies and the language of a request (request.c), the file of mime     *)
(* types (mime.c) and the frames of a websocket (websocket.c).             *)
(*                                                                         *)
(* A run has one task.  The task "block" is a program that writes to a     *)
(* block, in any order; every other one gives a value to an encoder and    *)
(* its text to the decoder.                                                *)
(***************************************************************************)
EXTENDS Codecs, Templates

F == INSTANCE Frames

CONSTANTS
  GrowMin,          \* ONION_BLOCK_GROW_MIN_BLOCK
  GrowLimit,        \* ONION_BLOCK_GROW_EXPONENTIAL_LIMIT
  MimeTypeSize,     \* the buffers of onion_mime_fill
  ExtensionSize,
  CookieSize,       \* the buffer of onion_response_add_cookie
  Tasks,            \* the values each codec is given
  Pieces,           \* what the program adds to its block
  MaxText           \* bound: bytes in the block

ASSUME SizesAssumption ==
  /\ {GrowMin, GrowLimit, MimeTypeSize, ExtensionSize, CookieSize} \subseteq Nat \ {0}
  /\ MaxText \in Nat

VARIABLES
  mem,        \* bl->data: maxsize bytes
  size,       \* bl->size
  text,       \* what the program has put in and not taken back
  overrun,    \* something was written or read outside of the block's memory
  task,
  stage,      \* "new", "encoded" or "decoded"
  out,        \* what the encoder made
  room,       \* the memory it had for it, 0 when it writes to a block
  back        \* what the decoder made of it

block == <<mem, size, text, overrun>>
vars == <<mem, size, text, overrun, task, stage, out, room, back>>

Junk(n) == [i \in 1 .. n |-> Past]
Least(a, b) == IF a < b THEN a ELSE b
Most(a, b) == IF a < b THEN b ELSE a

Init ==
  /\ mem = Junk(GrowMin) /\ size = 0
  /\ text = <<>> /\ overrun = FALSE
  /\ \E codec \in DOMAIN Tasks : \E v \in Tasks[codec] : task = [codec |-> codec, value |-> v]
  /\ stage = "new" /\ out = <<>> /\ room = 0 /\ back = <<>>

-----------------------------------------------------------------------------
(* block.c *)

Written(m, at, s) ==
  [i \in DOMAIN m |-> IF i - at \in DOMAIN s THEN s[i - at] ELSE m[i]]
Realloc(m, n) == [i \in 1 .. n |-> IF i <= Len(m) THEN m[i] ELSE Past]

Grown == IF size >= Len(mem) THEN Realloc(mem, Len(mem) + Least(Len(mem), GrowLimit)) ELSE mem

\* Room for what is added and no more: the memory is new, and the old one is
\* freed when the data, which may be in it, has been copied.
RoomFor(l) == IF size + l > Len(mem) THEN Realloc(mem, size + Most(l, GrowMin)) ELSE mem

Store(m, s) ==
  /\ mem' = Written(m, size, s)
  /\ overrun' = (overrun \/ size + Len(s) > Len(m))

AddChar(c) ==
  /\ Store(Grown, <<c>>)
  /\ size' = size + 1
  /\ text' = Append(text, c)

AddData(s) ==
  /\ Store(RoomFor(Len(s)), s)
  /\ size' = size + Len(s)
  /\ text' = text \o s

\* With its NUL, which is then no longer counted.
AddStr(s) ==
  /\ Store(RoomFor(Len(s) + 1), s \o <<0>>)
  /\ size' = size + Len(s)
  /\ text' = text \o s

AddBlock ==    \* the block to itself
  /\ Store(RoomFor(size), SubSeq(mem, 1, size))
  /\ size' = size + size
  /\ text' = text \o text

\* The NUL of onion_block_data, counted when there is room for it and not left.
Data ==
  /\ IF size = Len(mem) THEN Store(Grown, <<0>>) ELSE Store(mem, <<0>>)
  /\ UNCHANGED <<size, text>>

Rewind(n) ==
  /\ size' = IF size < n THEN 0 ELSE size - n
  /\ text' = SubSeq(text, 1, size')
  /\ UNCHANGED <<mem, overrun>>

Clear == size' = 0 /\ text' = <<>> /\ UNCHANGED <<mem, overrun>>

MinMaxsize(n) ==
  /\ Len(mem) < n
  /\ mem' = Realloc(mem, n)
  /\ UNCHANGED <<size, text, overrun>>

ProgramWrites ==
  /\ task.codec = "block"
  /\ \/ \E s \in Pieces : Len(text) + Len(s) <= MaxText /\ (AddData(s) \/ AddStr(s))
     \/ Len(text) < MaxText /\ AddChar(97)
     \/ 2 * size <= MaxText /\ AddBlock
     \/ Data \/ Clear
     \/ \E n \in 1 .. 2 : Rewind(n)
     \/ MinMaxsize(GrowMin + 1)
  /\ UNCHANGED <<task, stage, out, room, back>>

-----------------------------------------------------------------------------
(* dict.c: a dictionary as JSON.  It is the sequence of its nodes in the  *)
(* order of their keys; a node's value is a text or a dictionary.          *)

TextNode(key, value) == [key |-> key, text |-> value, dict |-> <<>>, sub |-> FALSE]
DictNode(key, dict) == [key |-> key, text |-> <<>>, dict |-> dict, sub |-> TRUE]

RECURSIVE ToJson(_)
JsonPair(n) ==
  <<QUOTE>> \o JsonQuote(n.key) \o <<QUOTE, 58>> \o
  (IF n.sub THEN ToJson(n.dict) ELSE <<QUOTE>> \o JsonQuote(n.text) \o <<QUOTE>>) \o <<44, SPACE>>
ToJson(d) ==
  LET pairs == <<123>> \o MapText(d, JsonPair)
  IN  (IF Len(pairs) = 1 THEN pairs ELSE SubSeq(pairs, 1, Len(pairs) - 2)) \o <<125>>

At(s, d) == IF d <= Len(s) THEN s[d] ELSE IF d = Len(s) + 1 THEN 0 ELSE Past
JsonSpace == {TAB, LF, CR, SPACE}
Skip(s, d) ==
  IF d > Len(s) THEN d
  ELSE CHOOSE e \in d .. Len(s) + 1 :
         At(s, e) \notin JsonSpace /\ \A f \in d .. e - 1 : At(s, f) \in JsonSpace
Digits(s, d) ==
  CHOOSE e \in d .. Len(s) + 1 : At(s, e) \notin Digit /\ \A f \in d .. e - 1 : At(s, f) \in Digit

NoDict == [ok |-> FALSE, dict |-> <<>>, next |-> 0]

RECURSIVE JsonPairs(_, _, _)
JsonObject(s, d) ==
  LET open == Skip(s, d)
  IN  IF At(s, open) # 123 THEN NoDict ELSE JsonPairs(s, Skip(s, open + 1), <<>>)

\* The value that starts at v, as a node and where it ends; a number is a text.
JsonValue(s, v, key) ==
  LET sub == JsonObject(s, v)
      string == JsonUnquote(s, v)
  IN  CASE At(s, v) = 123 -> [ok |-> sub.ok, node |-> DictNode(key, sub.dict), next |-> sub.next]
        [] At(s, v) \in Digit -> [ok |-> TRUE, node |-> TextNode(key, SubSeq(s, v, Digits(s, v) - 1)),
                                  next |-> Digits(s, v)]
        [] At(s, v) = QUOTE -> [ok |-> string.ok, node |-> TextNode(key, string.text), next |-> string.next]
        [] OTHER -> [ok |-> FALSE, node |-> TextNode(key, <<>>), next |-> v]

JsonPairs(s, d, dict) ==
  IF At(s, d) = 125 THEN [ok |-> TRUE, dict |-> dict, next |-> d + 1]
  ELSE LET key == JsonUnquote(s, d)
           colon == Skip(s, key.next)
           value == JsonValue(s, Skip(s, colon + 1), key.text)
           comma == Skip(s, value.next)
       IN  IF ~key.ok \/ At(s, colon) # 58 \/ ~value.ok THEN NoDict
           ELSE CASE At(s, comma) = 125 -> [ok |-> TRUE, dict |-> Append(dict, value.node), next |-> comma + 1]
                  [] At(s, comma) = 44 -> JsonPairs(s, Skip(s, comma + 1), Append(dict, value.node))
                  [] OTHER -> NoDict

\* Nothing may be left behind the dictionary.
FromJson(s) ==
  LET read == JsonObject(s, 1)
  IN  IF read.ok /\ At(s, Skip(s, read.next)) = 0 THEN read.dict ELSE NULL

-----------------------------------------------------------------------------
(* request.c: cookies and language. *)

Cookie(key, value) == [key |-> key, value |-> value]
NoCookie == [in |-> "none", lead |-> <<>>, key |-> <<>>, val |-> <<>>, cookies |-> <<>>]

\* The first one has the whole text for its key, the blanks before it too.
CookieEnds(s) ==
  [NoCookie EXCEPT !.cookies = Append(s.cookies,
     Cookie(IF s.cookies = <<>> THEN s.lead \o s.key ELSE s.key, s.val))]

CookieByte(s, c) ==
  CASE s.in = "none" /\ c = SPACE -> [s EXCEPT !.lead = Append(@, c)]
    [] s.in = "none" /\ c # SPACE -> [s EXCEPT !.in = "key", !.key = <<c>>]
    [] s.in = "key" /\ c = EQUALS -> [s EXCEPT !.in = "val"]
    [] s.in = "key" /\ c # EQUALS -> [s EXCEPT !.key = Append(@, c)]
    [] s.in = "val" /\ c = 59 -> CookieEnds(s)
    [] s.in = "val" /\ c # 59 -> [s EXCEPT !.val = Append(@, c)]

Cookies(s) ==
  LET last == FoldLeft(CookieByte, NoCookie, s)
  IN  IF last.in = "val" /\ last.val # <<>> THEN CookieEnds(last).cookies ELSE last.cookies

CookieHeader(cookies) ==
  LET all == MapText(cookies, LAMBDA k: k.key \o <<EQUALS>> \o k.value \o <<59, SPACE>>)
  IN  SubSeq(all, 1, Len(all) - 2)

\* onion_response_add_cookie: name and value, then each attribute there is, a letter here,
\* wherever the last one has ended; what is longer than the buffer is not added.
Attribute(letter, value) == IF value = NULL THEN <<>> ELSE <<59, SPACE, letter>> \o value
Expires(validity) ==
  CASE validity = 0 -> Attribute(101, <<49>>) [] validity > 0 -> Attribute(101, <<50>>) [] OTHER -> <<>>
CookieParts(c) ==
  << c.key \o <<EQUALS>> \o c.value, Expires(c.validity), Attribute(112, c.path),
     Attribute(100, c.domain), Attribute(104, c.flags) >>
SetCookie(c) ==
  LET data == FlattenSeq(CookieParts(c)) IN IF Len(data) >= CookieSize THEN <<>> ELSE data
\* What is left of the buffer is no longer counted right when one of them did not fit.
CookieOverruns(c) ==
  \E i \in 2 .. 5 : /\ CookieParts(c)[i] # <<>>
                    /\ Len(FlattenSeq(SubSeq(CookieParts(c), 1, i - 1))) > CookieSize

\* What a client keeps of it and sends with its next request; one that expires in
\* 1970 it forgets.
SentBack(header) ==
  LET ends == {i \in DOMAIN header : header[i] = 59}
      first == IF ends = {} THEN Len(header) + 1 ELSE CHOOSE i \in ends : \A j \in ends : i <= j
  IN  IF IsPrefix(Expires(0), SubSeq(header, first, Len(header))) THEN <<>> ELSE SubSeq(header, 1, first - 1)

\* The first part of Accept-Language, or C.
LanguageEnd == {45, 59, 44}
Language(s) ==
  IF s = NULL THEN <<67>>
  ELSE LET ends == {i \in DOMAIN s : s[i] \in LanguageEnd}
       IN  SubSeq(s, 1, (IF ends = {} THEN Len(s) + 1 ELSE CHOOSE i \in ends : \A j \in ends : i <= j) - 1)

-----------------------------------------------------------------------------
(* mime.c *)

MimeEntry(ext, type) == [ext |-> ext, type |-> type]
NoMime == [mode |-> "type", skip |-> "no", word |-> <<>>, type |-> <<>>, dict |-> <<>>]
HASH == 35
DOT == 46

MimeAdd(m) == [m EXCEPT !.dict = Append(@, MimeEntry(m.word, m.type)), !.word = <<>>]
MimeEndWord(m) == IF m.mode = "ext" /\ m.word # <<>> THEN MimeAdd(m) ELSE m
MimeNewline(m) == [MimeEndWord(m) EXCEPT !.mode = "type", !.word = <<>>, !.skip = "no"]

\* A word that fills its buffer loses the rest of its line, and its newline.
MimeLetter(m, c) ==
  CASE m.mode = "type" /\ Len(m.word) >= MimeTypeSize - 1 -> [m EXCEPT !.skip = "rest"]
    [] m.mode = "ext" /\ Len(m.word) >= ExtensionSize - 1 ->
         [MimeAdd(m) EXCEPT !.skip = "rest", !.mode = "type"]
    [] OTHER -> [m EXCEPT !.word = Append(@, c)]

MimeByte(m, c) ==
  CASE m.skip = "rest" -> IF c = LF THEN [m EXCEPT !.skip = "no"] ELSE m
    [] m.skip = "comment" /\ c # LF -> m
    [] m.skip # "rest" /\ c = LF -> MimeNewline(m)
    [] m.skip = "no" /\ c = HASH -> [m EXCEPT !.skip = "comment"]
    [] m.skip = "no" /\ c \in JsonSpace \ {LF} ->
         IF m.mode = "type" THEN [m EXCEPT !.type = m.word, !.mode = "ext", !.word = <<>>]
         ELSE MimeEndWord(m)
    [] OTHER -> MimeLetter(m, c)

MimeFill(file) == FoldLeft(MimeByte, NoMime, file).dict

TextPlain == <<116, 101, 120, 116, 47, 112, 108, 97, 105, 110>>
Extension(name) ==
  LET dots == {i \in DOMAIN name : name[i] = DOT}
  IN  IF dots = {} THEN name
      ELSE SubSeq(name, (CHOOSE i \in dots : \A j \in dots : j <= i) + 1, Len(name))
MimeGet(dict, name) ==
  LET found == SelectSeq(dict, LAMBDA e: e.ext = Extension(name))
  IN  IF found = <<>> THEN TextPlain ELSE found[1].type

\* The file a list of types makes: a comment and one line for each type.
MimeFile(types) ==
  <<HASH, 97, LF>> \o MapText(types, LAMBDA t: t.type \o MapText(t.exts, LAMBDA e: <<TAB>> \o e) \o <<LF>>)
-----------------------------------------------------------------------------
(* The tasks. *)

\* What a C compiler reads in a literal, and a browser in an HTML text.
RECURSIVE CLiteral(_)
CLiteral(s) ==
  LET octal == 64 * (s[2] - 48) + 8 * (s[3] - 48) + s[4] - 48
      after == SubSeq(s, 3, Len(s))
  IN  CASE s = <<>> -> <<>>
        [] s # <<>> /\ s[1] \in {QUOTE, LF} -> CLiteral(Tail(s))
        [] s # <<>> /\ s[1] = BACKSLASH ->
             CASE s[2] = 110 -> <<LF>> \o CLiteral(after)
               [] s[2] = 116 -> <<TAB>> \o CLiteral(after)
               [] s[2] \in {QUOTE, BACKSLASH} -> <<s[2]>> \o CLiteral(after)
               [] OTHER -> <<octal>> \o CLiteral(SubSeq(s, 5, Len(s)))
        [] OTHER -> <<s[1]>> \o CLiteral(Tail(s))

Entities == {LESS, GREATER, QUOTE, AMP, APOS}
RECURSIVE HtmlText(_)
HtmlText(s) ==
  IF s = <<>> THEN <<>>
  ELSE LET entity == {c \in Entities : s[1] = AMP /\ IsPrefix(HtmlByte(c), s)}
           c == IF entity = {} THEN s[1] ELSE CHOOSE e \in entity : TRUE
           w == IF entity = {} THEN 1 ELSE Len(HtmlByte(c))
       IN  <<c>> \o HtmlText(SubSeq(s, w + 1, Len(s)))

\* The \u escapes of a character, and the character of its UTF-8.
U4(v) == Escaped(117) \o <<Hex(v \div 4096), Hex((v \div 256) % 16), Hex((v \div 16) % 16), Hex(v % 16)>>
JsonEscaped(uc) ==
  IF uc < 65536 THEN U4(uc)
  ELSE U4(55296 + (uc - 65536) \div 1024) \o U4(56320 + ((uc - 65536) % 1024))
CodePoint(s) ==
  CASE Len(s) = 1 -> s[1]
    [] Len(s) = 2 -> (s[1] % 32) * 64 + (s[2] % 64)
    [] Len(s) = 3 -> (s[1] % 16) * 4096 + (s[2] % 64) * 64 + (s[3] % 64)
    [] OTHER -> (s[1] % 8) * 262144 + (s[2] % 64) * 4096 + (s[3] % 64) * 64 + (s[4] % 64)

Encoded(codec, v) ==
  CASE codec = "base64" -> Base64Encode(v)
    [] codec = "url" -> QuoteNew(v)
    [] codec = "c" -> CQuoteNew(v)
    [] codec = "html" -> HtmlSafe(v)
    [] codec = "json" -> <<QUOTE>> \o JsonQuote(v) \o <<QUOTE>>
    [] codec = "character" -> JsonEscaped(v[1])
    [] codec = "dict" -> ToJson(v)
    [] codec = "cookies" -> CookieHeader(v)
    [] codec = "set cookie" -> SetCookie(v)
    [] codec = "mime" -> MimeFile(v)
    [] codec = "language" -> v \o <<45, 65, 44>>
    [] codec = "template" -> Compiled(v.files, v.page)
    [] codec = "frame" -> F!Frame(1, v)
    [] codec = "printf" -> [F!Frame(1, v) EXCEPT !.bytes = IF F!Printed(v) < v THEN F!Printed(v) ELSE @]

\* What the encoder allocates.
Room(codec, v) ==
  CASE codec = "base64" -> EncodeSize(Len(v))
    [] codec = "url" -> QuoteSize(v)
    [] codec = "c" -> CQuoteSize(v)
    [] codec = "html" /\ HtmlQuote(v) # NULL -> HtmlSize(v) + 1
    [] codec = "set cookie" -> CookieSize
    [] OTHER -> 0

Decoded(codec, s) ==
  CASE codec = "base64" -> Base64Decode(s)
    [] codec = "url" -> Unquote(s)
    [] codec = "c" -> CLiteral(s)
    [] codec = "html" -> HtmlText(s)
    [] codec = "json" -> JsonUnquote(s, 1).text
    [] codec = "character" -> <<CodePoint(JsonUnquote(s, 1).text)>>
    [] codec = "dict" -> FromJson(s)
    [] codec = "cookies" -> Cookies(s)
    [] codec = "set cookie" -> Cookies(SentBack(s))
    [] codec = "mime" ->
         LET dict == MimeFill(s)
         IN  [i \in DOMAIN dict |-> MimeEntry(dict[i].ext, MimeGet(dict, <<97, DOT>> \o dict[i].ext))]
    [] codec = "language" -> Language(s)
    [] codec = "template" -> Page(s.code, s.page, task.value.context)
    [] codec \in {"frame", "printf"} -> F!FrameRead(s)

Encode ==
  /\ task.codec # "block" /\ stage = "new"
  /\ stage' = "encoded"
  /\ out' = Encoded(task.codec, task.value)
  /\ room' = Room(task.codec, task.value)
  /\ overrun' = (task.codec = "set cookie" /\ CookieOverruns(task.value))
  /\ UNCHANGED <<mem, size, text, task, back>>

Decode ==
  /\ stage = "encoded"
  /\ stage' = "decoded"
  /\ back' = Decoded(task.codec, out)
  /\ UNCHANGED <<block, task, out, room>>

Next == ProgramWrites \/ Encode \/ Decode
Spec == Init /\ [][Next]_vars

-----------------------------------------------------------------------------
\* What should come back: the C literal has a newline for a carriage return,
\* the mime types come as their extensions.
Expected ==
  CASE task.codec = "c" -> [i \in DOMAIN task.value |-> IF task.value[i] = CR THEN LF ELSE task.value[i]]
    [] task.codec = "mime" ->
         MapText(task.value, LAMBDA t: [i \in DOMAIN t.exts |-> MimeEntry(t.exts[i], t.type)])
    [] task.codec = "set cookie" ->
         IF out = <<>> \/ task.value.validity = 0 THEN <<>> ELSE <<Cookie(task.value.key, task.value.value)>>
    [] task.codec = "template" ->
         LET files == task.value.files
             page == <<task.value.page>>
         IN  Render(files, files[page], (LANG :> Text(<<"C">>)) @@ task.value.context, Blocks(files[page]))
    [] OTHER -> task.value

\* A value that was encoded is decoded to itself: base64 (codecs.c:87-245),
\* url, C and HTML quoting (codecs.c:253-515), the strings and dictionaries
\* of JSON ("dicts created by onion are ensured to be readable by onion",
\* dict.c:717), the cookies a client sends back, the file of mime types, and the
\* messages written to a websocket (websocket.c:178-353).
RoundTrips == stage = "decoded" /\ task.codec # "template" => back = Expected

\* A template that is written as it should be compiles, and the page it was
\* compiled to writes what the template says: its conditions, its loops over
\* dictionaries, its includes and the blocks of the pages that extend it
\* (parser.c, tags.c, tag_builtins.c, functions.c of src/tools/otemplate).
PagesAsWritten ==
  task.codec = "template" =>
    /\ stage # "new" => out.status
    /\ stage = "decoded" => back = Expected

\* No encoder writes more than it has allocated, its NUL included, and no
\* write to a block, not even of the block to itself, leaves its memory; the
\* block has what was put in (block.c:60-176, the sizes of codecs.c).
BuffersSuffice ==
  /\ room > 0 => Len(out) + 1 <= room
  /\ stage = "decoded" /\ task.codec = "base64" => Len(back) + 1 <= DecodeSize(out)
  /\ ~overrun
  /\ size <= Len(mem)
  /\ SubSeq(mem, 1, size) = text
=============================================================================
