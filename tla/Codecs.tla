------------------------------- MODULE Codecs -------------------------------
(***************************************************************************)
(* The codecs of src/src/onion/codecs.c as operators: base64, url quoting, *)
(* C and HTML quoting and the strings of JSON.  A text is a sequence of    *)
(* bytes 1 .. 255 and its end is the NUL the code looks for.  A codec that *)
(* reads past that NUL gets what is in memory there: the byte Past, which  *)
(* no text has, and nothing more is said about its result.                 *)
(***************************************************************************)
EXTENDS Integers, Sequences, SequencesExt

Past == -1

TAB == 9
LF == 10
CR == 13
SPACE == 32
QUOTE == 34
PERCENT == 37
AMP == 38
APOS == 39
PLUS == 43
LESS == 60
EQUALS == 61
GREATER == 62
BACKSLASH == 92

Digit == 48 .. 57
Upper == 65 .. 90
Lower == 97 .. 122
is_alnum(c) == c \in Digit \union Upper \union Lower

\* The text that f makes of each byte of s, one after the other.
MapText(s, f(_)) == FlattenSeq([i \in DOMAIN s |-> f(s[i])])
Width(s, w(_)) == FoldLeft(LAMBDA sum, c: sum + w(c), 0, s)

-----------------------------------------------------------------------------
(* Base64. *)

LineBytes == 57     \* bytes of a line of 76 characters

cb64(v) == CASE v < 26 -> 65 + v [] v \in 26 .. 51 -> 71 + v
             [] v \in 52 .. 61 -> v - 4 [] v = 62 -> PLUS [] OTHER -> 47

db64 == [c \in 0 .. 127 |->
           IF \E v \in 0 .. 63 : cb64(v) = c THEN CHOOSE v \in 0 .. 63 : cb64(v) = c ELSE 255]

\* Three bytes as four of six bits.
Sextets(a, b, c) ==
  <<a \div 4, (a % 4) * 16 + b \div 16, (b % 16) * 4 + c \div 64, c % 64>>

\* A line: its last group is filled up with zeros and the filling marked.
EncodeLine(s) ==
  LET n == Len(s)
      byte(i) == IF i <= n THEN s[i] ELSE 0
      group(g) == Sextets(byte(3 * g - 2), byte(3 * g - 1), byte(3 * g))
      fill == (3 - (n % 3)) % 3
      text == FlattenSeq([g \in 1 .. (n + 2) \div 3 |-> group(g)])
  IN  [i \in DOMAIN text |-> IF i > Len(text) - fill THEN EQUALS ELSE cb64(text[i])] \o <<LF>>

Base64Lines(s) ==
  [l \in 1 .. (Len(s) + LineBytes - 1) \div LineBytes |->
     SubSeq(s, (l - 1) * LineBytes + 1,
            IF l * LineBytes < Len(s) THEN l * LineBytes ELSE Len(s))]

Base64Encode(s) == FlattenSeq([l \in DOMAIN Base64Lines(s) |-> EncodeLine(Base64Lines(s)[l])])

\* A bug: no room for the =, which two bytes need.
EncodeSizeTight(n) == (n * 4) \div 3 + n \div LineBytes + 2
EncodeSize(n) == (n * 4) \div 3 + n \div LineBytes + 2 + 3

Blank == {LF, CR, SPACE}

\* What the decoder sees: its table's value of each byte that is no blank.
Sixes(s) == LET codes == SelectSeq(s, LAMBDA c: c \notin Blank)
            IN  [i \in DOMAIN codes |-> db64[codes[i]]]

\* The decoder stops at the last byte: blanks before it make it read on.
DecodesOn(s) == Len(s) > 1 /\ s[Len(s)] \in Blank /\ s[Len(s) - 1] \in Blank

DecodeGroup(c1, c2, c3, c4) ==
  <<(c1 % 64) * 4 + ((c2 \div 16) % 4),
    (c2 % 16) * 16 + ((c3 \div 4) % 16),
    ((c3 % 4) * 64 + c4) % 256>>

\* The filling is looked for behind the last group read, blanks or not.
DecodeFill(s) ==
  LET last == IF s[Len(s)] \in Blank THEN Len(s) - 1 ELSE Len(s)
  IN  IF s[last - 1] = EQUALS THEN 2 ELSE IF s[last] = EQUALS THEN 1 ELSE 0

NULL == <<0>>    \* no text at all

Base64Decode(s) ==
  LET six == Sixes(s)
      bytes == FlattenSeq([g \in 1 .. Len(six) \div 4 |->
                 DecodeGroup(six[4 * g - 3], six[4 * g - 2], six[4 * g - 1], six[4 * g])])
  IN  IF Len(s) < 2 \/ Len(six) % 4 # 0 THEN NULL
      ELSE IF DecodesOn(s) THEN <<Past>>
      ELSE SubSeq(bytes, 1, Len(bytes) - DecodeFill(s))

DecodeSize(s) == (Len(Sixes(s)) * 3) \div 4 + 4
-----------------------------------------------------------------------------
(* Url quoting. *)

Hex(v) == IF v < 10 THEN 48 + v ELSE 55 + v
HexValue(c) == CASE c \in Digit -> c - 48 [] c \in 65 .. 70 -> c - 55 [] c \in 97 .. 102 -> c - 87
                 [] OTHER -> 16

QuoteByte(c) == IF is_alnum(c) THEN <<c>> ELSE <<PERCENT, Hex(c \div 16), Hex(c % 16)>>

\* onion_quote into a buffer: the limit is compared with the bytes read, not
\* with those written.
RECURSIVE QuoteFrom(_, _, _)
QuoteFrom(s, i, maxlength) ==
  IF i > Len(s) \/ i - 1 >= maxlength \/ (~is_alnum(s[i]) /\ i + 1 >= maxlength) THEN <<>>
  ELSE QuoteByte(s[i]) \o QuoteFrom(s, i + 1, maxlength)
Quote(s, maxlength) == QuoteFrom(s, 1, maxlength)

QuoteSize(s) == 1 + Width(s, LAMBDA c: IF is_alnum(c) THEN 1 ELSE 3)
QuoteNew(s) == Quote(s, QuoteSize(s))

\* The number that strtol finds in two characters: the hex digits it starts with.
Strtol(a, b) == CASE HexValue(a) = 16 -> 0 [] HexValue(b) = 16 -> HexValue(a)
                  [] OTHER -> 16 * HexValue(a) + HexValue(b)

RECURSIVE UnquoteFrom(_, _)
UnquoteFrom(s, r) ==
  LET at(i) == IF i <= Len(s) THEN s[i] ELSE 0
  IN  IF r > Len(s) THEN <<>>
      ELSE IF s[r] # PERCENT THEN <<IF s[r] = PLUS THEN SPACE ELSE s[r]>> \o UnquoteFrom(s, r + 1)
      ELSE <<Strtol(at(r + 1), at(r + 2))>> \o
             (IF r + 2 > Len(s) THEN <<Past>> ELSE UnquoteFrom(s, r + 3))
Unquote(s) == UnquoteFrom(s, 1)

-----------------------------------------------------------------------------
(* C quoting: a text as a literal of C, a new literal after each newline. *)

Escaped(c) == <<BACKSLASH, c>>

CQuoteByte(c) ==
  CASE c = LF -> Escaped(110) \o <<QUOTE, LF, QUOTE>>
    [] c = CR -> Escaped(110)
    [] c \in {QUOTE, BACKSLASH} -> Escaped(c)
    [] c = TAB -> Escaped(116)
    [] c > 127 -> <<BACKSLASH, 48 + c \div 64, 48 + ((c \div 8) % 8), 48 + (c % 8)>>
    [] OTHER -> <<c>>

CWidth(c) == CASE c \in {CR, QUOTE, BACKSLASH, TAB} -> 2 [] c = LF \/ c > 127 -> 5 [] OTHER -> 1
CQuoteSize(s) == 3 + Width(s, CWidth)

\* onion_c_quote: the room left is counted in bytes of the source; at its end
\* the literal is closed.  A byte above 127 that has no room leaves it open.
RECURSIVE CQuoteFrom(_, _, _)
CQuoteFrom(s, i, l) ==
  IF i > Len(s) THEN <<QUOTE>>
  ELSE IF s[i] > 127 /\ l < 4 THEN <<>>
  ELSE CQuoteByte(s[i]) \o (IF l - 1 <= 0 THEN <<QUOTE>> ELSE CQuoteFrom(s, i + 1, l - 1))
CQuote(s, l) == <<QUOTE>> \o CQuoteFrom(s, 1, l - 3)
CQuoteNew(s) == CQuote(s, CQuoteSize(s))

-----------------------------------------------------------------------------
(* HTML quoting. *)

HtmlByte(c) ==
  CASE c = LESS -> <<AMP, 108, 116, 59>>
    [] c = GREATER -> <<AMP, 103, 116, 59>>
    [] c = QUOTE -> <<AMP, 113, 117, 111, 116, 59>>
    [] c = AMP -> <<AMP, 97, 109, 112, 59>>
    [] c = APOS -> <<AMP, 35, 51, 57, 59>>
    [] OTHER -> <<c>>

HtmlWidth(c) == CASE c \in {LESS, GREATER} -> 4 [] c \in {AMP, APOS} -> 5 [] c = QUOTE -> 6 [] OTHER -> 1
HtmlSize(s) == Width(s, HtmlWidth)

\* Nothing to quote: no text is made, and onion_html_quote_dup copies nothing.
HtmlQuote(s) == IF HtmlSize(s) = Len(s) THEN NULL ELSE MapText(s, HtmlByte)

\* onion_response_write_html_safe writes the text itself when nothing is quoted.
HtmlSafe(s) == IF HtmlQuote(s) = NULL THEN s ELSE HtmlQuote(s)

-----------------------------------------------------------------------------
(* The strings of JSON. *)

JsonLetter == [c \in {8, 9, LF, 12, CR} |->
                 CASE c = 8 -> 98 [] c = 12 -> 102 [] c = LF -> 110 [] c = CR -> 114 [] c = 9 -> 116]

JsonByte(c) ==
  IF c \in DOMAIN JsonLetter THEN Escaped(JsonLetter[c])
  ELSE IF c \in {QUOTE, BACKSLASH} THEN Escaped(c)
  ELSE IF c < 32 \/ c = 127 THEN Escaped(117) \o <<48, 48, Hex(c \div 16), Hex(c % 16)>>
  ELSE <<c>>
JsonQuote(s) == MapText(s, JsonByte)

Hex4(s, at) ==
  LET digit(i) == IF at + i <= Len(s) THEN HexValue(s[at + i]) ELSE 16
  IN  IF \E i \in 0 .. 3 : digit(i) = 16 THEN 0
      ELSE 4096 * digit(0) + 256 * digit(1) + 16 * digit(2) + digit(3)

Utf8(uc) ==
  LET tail(n) == [i \in 1 .. n |-> 128 + ((uc \div (64 ^ (n - i))) % 64)]
  IN  IF uc < 128 THEN <<uc>>
      ELSE IF uc < 2048 THEN <<192 + uc \div 64>> \o tail(1)
      ELSE IF uc < 65536 THEN <<224 + uc \div 4096>> \o tail(2)
      ELSE <<240 + uc \div 262144>> \o tail(3)

HighSurrogate == 55296 .. 56319
LowSurrogate == 56320 .. 57343

\* A bug: the first half counts from d800, the offset is forgotten.
PairedFromD800(high, low) == (high - 55296) * 1024 + (low % 1024)
\* A surrogate pair as one character: 55232 is d7c0, the first one less its offset.
Paired(high, low) == (high - 55232) * 1024 + (low % 1024)

Failed == [ok |-> FALSE, text |-> <<>>, next |-> 0]
Read(text, next) == [ok |-> TRUE, text |-> text, next |-> next]
After(text, rest) == IF rest.ok THEN Read(text \o rest.text, rest.next) ELSE Failed

\* onion_json_unquote_add from the byte at d on: the text it adds and where it
\* stops.  Inside quotes it looks for the quote only, and runs past the NUL.
RECURSIVE JsonFrom(_, _, _)
JsonEscape(s, d, quoted) ==      \* s[d] is the byte behind the backslash
  LET uc == Hex4(s, d + 1)
      pair == d + 6 <= Len(s) /\ s[d + 5] = BACKSLASH /\ s[d + 6] = 117
      low == Hex4(s, d + 7)
      letter == {c \in DOMAIN JsonLetter : JsonLetter[c] = s[d]}
  IN  IF s[d] # 117
      THEN After(<<IF letter = {} THEN s[d] ELSE CHOOSE c \in letter : TRUE>>, JsonFrom(s, d + 1, quoted))
      ELSE IF uc = 0 \/ uc \in LowSurrogate THEN Failed
      ELSE IF uc \notin HighSurrogate THEN After(Utf8(uc), JsonFrom(s, d + 5, quoted))
      ELSE IF pair /\ low \in LowSurrogate THEN After(Utf8(Paired(uc, low)), JsonFrom(s, d + 11, quoted))
      ELSE Failed

JsonFrom(s, d, quoted) ==
  CASE d > Len(s) /\ quoted -> Read(<<Past>>, d + 1)
    [] d > Len(s) /\ ~quoted -> Read(<<>>, d + 1)
    [] d <= Len(s) /\ quoted /\ s[d] = QUOTE -> Read(<<>>, d + 1)
    [] d <= Len(s) /\ s[d] = BACKSLASH ->
         IF d < Len(s) THEN JsonEscape(s, d + 1, quoted)
         ELSE IF quoted THEN Read(<<Past>>, d + 2) ELSE Failed
    [] OTHER -> After(<<s[d]>>, JsonFrom(s, d + 1, quoted))

JsonUnquote(s, d) ==
  IF d <= Len(s) /\ s[d] = QUOTE THEN JsonFrom(s, d + 1, TRUE) ELSE JsonFrom(s, d, FALSE)
=============================================================================
