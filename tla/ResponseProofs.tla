-------------------------- MODULE ResponseProofs --------------------------
(***************************************************************************)
(* What a client gets for one response is what the handler has written,    *)
(* for every size of the buffer, the headers, the writes and the socket.   *)
(***************************************************************************)
EXTENDS Response, FiniteSetTheorems, TLAPS

\* Induction on the numbers up to N, for a property given as a set: were there one without
\* it, the intervals up to such numbers would have a smallest, as finite sets do.
LEMMA Climb ==
  ASSUME NEW N \in Nat, NEW P, 0 \in P, \A i \in 1..N : i - 1 \in P => i \in P
  PROVE  0..N \subseteq P
<1> DEFINE Bad == (0..N) \ P
           Family == {0..i : i \in Bad}
<1> SUFFICES ASSUME Bad # {} PROVE FALSE
  OBVIOUS
<1>1. Family # {} /\ Family \subseteq FiniteSubsetsOf(Nat)
  <2>1. ASSUME NEW i \in Bad PROVE 0..i \in FiniteSubsetsOf(Nat)
    <3>1. i \in Int /\ 0 \in Int /\ 0..i \in SUBSET Nat
      OBVIOUS
    <3>2. IsFiniteSet(0..i)
      BY <3>1, FS_Interval
    <3> QED
      BY <3>1, <3>2 DEF FiniteSubsetsOf
  <2> QED
    BY <2>1
<1>2. PICK M \in Family : \A U \in Family : ~(<<U, M>> \in StrictSubsetOrdering(Nat))
  <2>1. IsWellFoundedOn(StrictSubsetOrdering(Nat), FiniteSubsetsOf(Nat))
    BY FS_StrictSubsetOrderingWellFounded
  <2> HIDE DEF Family
  <2> QED
    BY <1>1, <2>1, WFMin
<1>3. PICK m \in Bad : M = 0..m
  BY <1>2
<1>4. m \in 1..N
  BY <1>3
<1>5. m - 1 \in Bad
  <2>1. m - 1 \in 0..N /\ m \notin P
    BY <1>4
  <2> QED
    BY <1>4, <2>1
<1>6. 0..(m - 1) \in SUBSET Nat /\ 0..m \in SUBSET Nat /\ 0..(m - 1) \subseteq 0..m /\ m \in 0..m
      /\ m \notin 0..(m - 1)
  BY <1>4
<1>7. <<0..(m - 1), 0..m>> \in StrictSubsetOrdering(Nat)
  BY <1>6 DEF StrictSubsetOrdering
<1> QED
  BY <1>2, <1>3, <1>5, <1>7

\* A run of n units of a kind is a sequence of n units, and they are numbered.
LEMMA UnitsAre ==
  ASSUME NEW kind, NEW m \in Nat, NEW n \in Nat
  PROVE  /\ Units(kind, m, n) \in Seq([kind : {kind}, v : Nat])
         /\ Len(Units(kind, m, n)) = n
         /\ \A i \in 1..n : /\ Units(kind, m, n)[i].kind = kind
                            /\ Units(kind, m, n)[i].v = m + i
<1>1. \A i \in 1..n : [kind |-> kind, v |-> m + i] \in [kind : {kind}, v : Nat]
  OBVIOUS
<1> QED
  BY <1>1 DEF Units

\* They are units of the model when the kind is one.
LEMMA UnitsTyped ==
  ASSUME NEW kind \in {"header", "body", "size", "crlf", "last"}, NEW m \in Nat, NEW n \in Nat
  PROVE  Units(kind, m, n) \in Seq(AUnit)
<1>1. \A i \in 1..n : [kind |-> kind, v |-> m + i] \in AUnit
  BY DEF AUnit
<1> QED
  BY <1>1 DEF Units

\* A sequence over a set is one over a larger set.
LEMMA SeqWidens ==
  ASSUME NEW S, NEW T, S \subseteq T, NEW s \in Seq(S)
  PROVE  s \in Seq(T)
OBVIOUS

\* Two sequences of the same length with the same elements are the same.
LEMMA SeqSame ==
  ASSUME NEW S, NEW s \in Seq(S), NEW t \in Seq(S), Len(s) = Len(t),
         \A i \in 1..Len(s) : s[i] = t[i]
  PROVE  s = t
OBVIOUS

\* Appending is associative.
LEMMA ConcatAssoc ==
  ASSUME NEW S, NEW s \in Seq(S), NEW t \in Seq(S), NEW u \in Seq(S)
  PROVE  /\ (s \o t) \o u = s \o (t \o u)
         /\ s \o t \in Seq(S) /\ t \o u \in Seq(S)
<1>1. /\ s \o t \in Seq(S) /\ t \o u \in Seq(S)
      /\ (s \o t) \o u \in Seq(S) /\ s \o (t \o u) \in Seq(S)
  OBVIOUS
<1>2. Len((s \o t) \o u) = Len(s \o (t \o u))
  OBVIOUS
<1>3. \A i \in 1..Len((s \o t) \o u) : ((s \o t) \o u)[i] = (s \o (t \o u))[i]
  OBVIOUS
<1> QED
  BY ONLY <1>1, <1>2, <1>3, SeqSame

\* The length of two sequences.
LEMMA ConcatLen ==
  ASSUME NEW S, NEW s \in Seq(S), NEW t \in Seq(S)
  PROVE  /\ s \o t \in Seq(S) /\ Len(s \o t) = Len(s) + Len(t)
         /\ Len(s) \in Nat /\ Len(t) \in Nat
OBVIOUS

\* The empty sequence adds nothing.
LEMMA ConcatEmpty ==
  ASSUME NEW S, NEW s \in Seq(S)
  PROVE  s \o <<>> = s /\ <<>> \o s = s
OBVIOUS

\* A part of a sequence: its length, its type, its elements.
LEMMA PartIs ==
  ASSUME NEW S, NEW s \in Seq(S), NEW a \in Nat, NEW b \in Nat, a <= b, b <= Len(s)
  PROVE  /\ SubSeq(s, a + 1, b) \in Seq(S)
         /\ Len(SubSeq(s, a + 1, b)) = b - a
         /\ \A i \in 1..b - a : SubSeq(s, a + 1, b)[i] = s[a + i]
OBVIOUS

\* Two parts that meet.
LEMMA PartsJoin ==
  ASSUME NEW S, NEW s \in Seq(S), NEW a \in Nat, NEW b \in Nat, NEW c \in Nat,
         a <= b, b <= c, c <= Len(s)
  PROVE  SubSeq(s, a + 1, b) \o SubSeq(s, b + 1, c) = SubSeq(s, a + 1, c)
<1> DEFINE x == SubSeq(s, a + 1, b)
           y == SubSeq(s, b + 1, c)
           z == SubSeq(s, a + 1, c)
<1>1. x \in Seq(S) /\ Len(x) = b - a /\ \A i \in 1..b - a : x[i] = s[a + i]
  BY PartIs
<1>2. y \in Seq(S) /\ Len(y) = c - b /\ \A i \in 1..c - b : y[i] = s[b + i]
  BY PartIs
<1>3. z \in Seq(S) /\ Len(z) = c - a /\ \A i \in 1..c - a : z[i] = s[a + i]
  BY PartIs
<1> HIDE DEF x, y, z
<1>4. x \o y \in Seq(S) /\ Len(x \o y) = Len(z)
  BY <1>1, <1>2, <1>3
<1>5. ASSUME NEW i \in 1..Len(x \o y) PROVE (x \o y)[i] = z[i]
  <2>1. CASE i <= b - a
    BY <1>1, <1>2, <1>3, <2>1
  <2>2. CASE i > b - a
    <3>1. i - (b - a) \in 1..c - b /\ i \in 1..c - a /\ b + (i - (b - a)) = a + i
      BY <1>1, <1>2, <2>2
    <3>2. (x \o y)[i] = y[i - (b - a)]
      BY <1>1, <1>2, <2>2
    <3> QED
      BY <1>2, <1>3, <3>1, <3>2
  <2> QED
    BY <1>1, <1>2, <2>1, <2>2
<1>6. x \o y = z
  BY <1>3, <1>4, <1>5, SeqSame
<1> QED
  BY <1>6 DEF x, y, z

\* The whole is a part, and what stands behind a prefix is the rest.
LEMMA PartWhole ==
  ASSUME NEW S, NEW s \in Seq(S), NEW t \in Seq(S)
  PROVE  /\ SubSeq(s, 1, Len(s)) = s
         /\ SubSeq(s \o t, Len(s) + 1, Len(s \o t)) = t
<1>1. SubSeq(s, 1, Len(s)) = s
  OBVIOUS
<1> DEFINE z == SubSeq(s \o t, Len(s) + 1, Len(s \o t))
<1>2. s \o t \in Seq(S) /\ Len(s \o t) = Len(s) + Len(t)
  OBVIOUS
<1>3. z \in Seq(S) /\ Len(z) = Len(t) /\ \A i \in 1..Len(t) : z[i] = (s \o t)[Len(s) + i]
  <2>1. Len(s) \in Nat /\ Len(t) \in Nat
    OBVIOUS
  <2> DEFINE w == s \o t
             a == Len(s)
             b == Len(s \o t)
  <2>2. w \in Seq(S) /\ a \in Nat /\ b \in Nat /\ a <= b /\ b <= Len(w) /\ b - a = Len(t)
    BY <1>2, <2>1
  <2> HIDE DEF w, a, b
  <2>3. /\ SubSeq(w, a + 1, b) \in Seq(S) /\ Len(SubSeq(w, a + 1, b)) = b - a
        /\ \A i \in 1..b - a : SubSeq(w, a + 1, b)[i] = w[a + i]
    BY ONLY <2>2, PartIs
  <2> QED
    BY <2>2, <2>3 DEF w, a, b
<1>4. \A i \in 1..Len(t) : (s \o t)[Len(s) + i] = t[i]
  OBVIOUS
<1> HIDE DEF z
<1>5. z = t
  BY <1>3, <1>4, SeqSame
<1> QED
  BY <1>1, <1>5 DEF z

\* What stands behind the first units.
LEMMA RestTyped ==
  ASSUME NEW S, NEW s \in Seq(S), NEW h \in Nat
  PROVE  SubSeq(s, h + 1, Len(s)) \in Seq(S)
OBVIOUS

\* A run continues where the one before it ends.
LEMMA UnitsContinue ==
  ASSUME NEW kind, NEW m \in Nat, NEW n \in Nat, NEW k \in Nat
  PROVE  Units(kind, m, n) \o Units(kind, m + n, k) = Units(kind, m, n + k)
<1> DEFINE x == Units(kind, m, n)
           y == Units(kind, m + n, k)
           z == Units(kind, m, n + k)
<1>1. x = [i \in 1..n |-> [kind |-> kind, v |-> m + i]] /\ x \in Seq([kind : {kind}, v : Nat])
      /\ Len(x) = n
  BY UnitsAre DEF Units
<1>2. y = [i \in 1..k |-> [kind |-> kind, v |-> (m + n) + i]]
      /\ y \in Seq([kind : {kind}, v : Nat]) /\ Len(y) = k
  BY UnitsAre DEF Units
<1>3. z = [i \in 1..n + k |-> [kind |-> kind, v |-> m + i]]
      /\ z \in Seq([kind : {kind}, v : Nat]) /\ Len(z) = n + k
  BY UnitsAre DEF Units
<1> HIDE DEF x, y, z
<1>4. x \o y \in Seq([kind : {kind}, v : Nat]) /\ Len(x \o y) = Len(z)
  BY <1>1, <1>2, <1>3
<1>5. ASSUME NEW i \in 1..Len(x \o y) PROVE (x \o y)[i] = z[i]
  <2>1. CASE i <= n
    BY <1>1, <1>2, <1>3, <2>1
  <2>2. CASE i > n
    <3>1. i - n \in 1..k /\ i \in 1..n + k /\ (m + n) + (i - n) = m + i
      BY <1>1, <1>2, <2>2
    <3>2. (x \o y)[i] = y[i - n]
      BY <1>1, <1>2, <2>2
    <3> QED
      BY <1>2, <1>3, <3>1, <3>2
  <2> QED
    BY <1>1, <1>2, <2>1, <2>2
<1>6. x \o y = z
  BY <1>3, <1>4, <1>5, SeqSame
<1> QED
  BY <1>6 DEF x, y, z

\* No units are the empty sequence.
LEMMA NoUnits ==
  ASSUME NEW kind, NEW m
  PROVE  Units(kind, m, 0) = <<>>
BY DEF Units
-----------------------------------------------------------------------------
(* The content among units *)

\* What is appended continues the content.
LEMMA WrittenOn ==
  ASSUME NEW S, NEW s \in Seq(S), NEW t \in Seq(S),
         NEW m \in Nat, NEW n \in Nat, NEW k \in Nat,
         Written(s, m, n), Written(t, m + n, k)
  PROVE  Written(s \o t, m, n + k)
<1> DEFINE st == s \o t
           ls == Len(s)
           lt == Len(t)
           Cs == Contents(s)
           Ct == Contents(t)
           C == Contents(st)
<1>1. /\ ls \in Nat /\ lt \in Nat /\ Len(st) = ls + lt
      /\ \A i \in 1..ls : st[i] = s[i]
      /\ \A i \in 1..lt : st[ls + i] = t[i]
  OBVIOUS
<1>2. /\ Cs = {i \in 1..ls : s[i].kind = "body"}
      /\ Ct = {i \in 1..lt : t[i].kind = "body"}
      /\ C = {i \in 1..Len(st) : st[i].kind = "body"}
  BY DEF Contents
<1>3. /\ {s[i].v : i \in Cs} = m + 1..m + n
      /\ \A i, j \in Cs : i < j => s[i].v < s[j].v
      /\ {t[i].v : i \in Ct} = (m + n) + 1..(m + n) + k
      /\ \A i, j \in Ct : i < j => t[i].v < t[j].v
  BY DEF Written
<1> HIDE DEF st, ls, lt, Cs, Ct, C
<1>4. ASSUME NEW i \in C
      PROVE  \/ i \in Cs /\ st[i] = s[i]
             \/ i - ls \in Ct /\ st[i] = t[i - ls] /\ i > ls
  <2>1. i \in 1..ls + lt /\ st[i].kind = "body"
    BY <1>1, <1>2
  <2>2. CASE i <= ls
    BY <1>1, <1>2, <2>1, <2>2
  <2>3. CASE i > ls
    <3>1. i - ls \in 1..lt /\ ls + (i - ls) = i
      BY <1>1, <2>1, <2>3
    <3>2. st[i] = t[i - ls]
      BY <1>1, <3>1
    <3> QED
      BY <1>2, <2>1, <2>3, <3>1, <3>2
  <2> QED
    BY <1>1, <2>1, <2>2, <2>3
<1>5. /\ \A i \in Cs : i \in C /\ st[i] = s[i] /\ i <= ls
      /\ \A i \in Ct : ls + i \in C /\ st[ls + i] = t[i]
  BY <1>1, <1>2
<1>6. /\ \A i \in Cs : s[i].v \in m + 1..m + n
      /\ \A i \in Ct : t[i].v \in (m + n) + 1..(m + n) + k
      /\ \A x \in m + 1..m + n : \E i \in Cs : x = s[i].v
      /\ \A x \in (m + n) + 1..(m + n) + k : \E i \in Ct : x = t[i].v
  BY <1>3
<1>7. {st[i].v : i \in C} = m + 1..m + (n + k)
  <2>1. ASSUME NEW i \in C PROVE st[i].v \in m + 1..m + (n + k)
    <3>1. CASE i \in Cs /\ st[i] = s[i]
      BY <1>6, <3>1
    <3>2. CASE i - ls \in Ct /\ st[i] = t[i - ls]
      BY <1>6, <3>2
    <3> QED
      BY <1>4, <3>1, <3>2
  <2>2. ASSUME NEW x \in m + 1..m + (n + k) PROVE \E i \in C : x = st[i].v
    <3>1. CASE x <= m + n
      <4>1. PICK i \in Cs : x = s[i].v
        BY <1>6, <3>1
      <4> QED
        BY <1>5, <4>1
    <3>2. CASE x > m + n
      <4>1. x \in (m + n) + 1..(m + n) + k
        BY <3>2
      <4>2. PICK i \in Ct : x = t[i].v
        BY <1>6, <4>1
      <4> QED
        BY <1>5, <4>2
    <3> QED
      BY <3>1, <3>2
  <2> QED
    BY <2>1, <2>2
<1>8. ASSUME NEW i \in C, NEW j \in C, i < j PROVE st[i].v < st[j].v
  <2>1. i \in Int /\ j \in Int /\ ls \in Nat
    BY <1>1, <1>2
  <2>2. CASE i \in Cs /\ st[i] = s[i] /\ j \in Cs /\ st[j] = s[j]
    BY <1>3, <1>8, <2>2
  <2>3. CASE i \in Cs /\ st[i] = s[i] /\ j - ls \in Ct /\ st[j] = t[j - ls]
    <3>1. st[i].v \in m + 1..m + n /\ st[j].v \in (m + n) + 1..(m + n) + k
      BY <1>6, <2>3
    <3> QED
      BY <3>1
  <2>4. CASE i - ls \in Ct /\ st[i] = t[i - ls] /\ i > ls /\ j - ls \in Ct /\ st[j] = t[j - ls]
    <3>1. i - ls < j - ls
      BY <1>8, <2>1
    <3> QED
      BY <1>3, <2>4, <3>1
  <2>5. CASE i > ls /\ j \in Cs
    <3>1. j <= ls
      BY <1>5, <2>5
    <3> QED
      BY <1>8, <2>1, <2>5, <3>1
  <2> QED
    BY <1>4, <2>2, <2>3, <2>4, <2>5
<1>9. Written(st, m, n + k)
  BY <1>2, <1>7, <1>8 DEF Written, C
<1> QED
  BY <1>9 DEF st

\* A run of content is content, and other units are none.
LEMMA WrittenRun ==
  ASSUME NEW m \in Nat, NEW n \in Nat
  PROVE  Written(Units("body", m, n), m, n)
<1> DEFINE u == Units("body", m, n)
<1>1. Len(u) = n /\ \A i \in 1..n : u[i].kind = "body" /\ u[i].v = m + i
  BY DEF Units
<1> HIDE DEF u
<1>2. Contents(u) = 1..n
  BY <1>1 DEF Contents
<1>3. ASSUME NEW x \in m + 1..m + n PROVE \E i \in 1..n : x = u[i].v
  <2>1. x - m \in 1..n /\ m + (x - m) = x
    OBVIOUS
  <2> QED
    BY <1>1, <2>1
<1>4. \A i \in 1..n : u[i].v \in m + 1..m + n
  BY <1>1
<1>5. {u[i].v : i \in 1..n} = m + 1..m + n
  BY <1>3, <1>4
<1>6. \A i, j \in 1..n : i < j => u[i].v < u[j].v
  BY <1>1
<1> QED
  BY <1>2, <1>5, <1>6 DEF Written, u

\* A sequence without content holds the content of no write.
LEMMA WrittenNone ==
  ASSUME NEW s, NEW m \in Nat, \A i \in 1..Len(s) : s[i].kind # "body"
  PROVE  Written(s, m, 0)
<1>1. Contents(s) = {}
  BY DEF Contents
<1>2. m + 1..m + 0 = {}
  OBVIOUS
<1> QED
  BY <1>1, <1>2 DEF Written
-----------------------------------------------------------------------------
(* The reader of chunks *)

\* The definition of Readers by recursion has a solution, and it is the one.
LEMMA ReadersAre ==
  ASSUME NEW S, NEW units \in Seq(S)
  PROVE  /\ Readers(units)[0] = ChunkReader
         /\ \A i \in 1..Len(units) :
              Readers(units)[i] = ReadChunked(Readers(units)[i - 1], units[i])
<1> DEFINE N == Len(units)
           First == ChunkReader
           Then(x, i) == ReadChunked(x, units[i])
           Run(g, n) == g = [i \in 0..n |-> IF i = 0 THEN First ELSE Then(g[i - 1], i)]
<1>1. N \in Nat
  OBVIOUS
<1>2. Readers(units) = CHOOSE g : Run(g, N)
  BY DEF Readers
<1> HIDE DEF N, First, Then
<1> DEFINE P == {n \in 0..N : \E g : Run(g, n)}
<1>3. 0 \in P
  <2> DEFINE g == [i \in 0..0 |-> First]
  <2>1. Run(g, 0)
    OBVIOUS
  <2>2. 0 \in 0..N
    BY <1>1
  <2> HIDE DEF g, Run
  <2> QED
    BY <2>1, <2>2
<1>4. ASSUME NEW n \in 1..N, n - 1 \in P PROVE n \in P
  <2>1. PICK g : Run(g, n - 1)
    BY <1>4
  <2> DEFINE h == [i \in 0..n |-> IF i = n THEN Then(g[n - 1], n) ELSE g[i]]
  <2>2. ASSUME NEW i \in 0..n PROVE h[i] = IF i = 0 THEN First ELSE Then(h[i - 1], i)
    <3>1. CASE i = 0
      <4>1. 0 \in 0..n - 1 /\ 0 # n /\ 0 \in 0..n
        BY <1>1
      <4>2. g[0] = First
        BY <2>1, <4>1
      <4> QED
        BY <3>1, <4>1, <4>2
    <3>2. CASE i = n
      <4>1. i - 1 \in 0..n /\ i - 1 # n /\ i # 0
        BY <1>1, <3>2
      <4> QED
        BY <3>2, <4>1
    <3>3. CASE i # 0 /\ i # n
      <4>1. i \in 0..n - 1 /\ i - 1 \in 0..n /\ i - 1 # n
        BY <1>1, <3>3
      <4>2. h[i] = g[i] /\ h[i - 1] = g[i - 1]
        BY <3>3, <4>1
      <4>3. g[i] = Then(g[i - 1], i)
        BY <2>1, <3>3, <4>1
      <4> QED
        BY <3>3, <4>2, <4>3
    <3> QED
      BY <3>1, <3>2, <3>3
  <2>3. h = [i \in 0..n |-> h[i]]
    OBVIOUS
  <2> HIDE DEF h
  <2>4. Run(h, n)
    BY <2>2, <2>3
  <2>5. n \in 0..N
    BY <1>1
  <2> HIDE DEF Run
  <2> QED
    BY <2>4, <2>5
<1>5. N \in P
  <2>1. 0..N \subseteq P
    <3> HIDE DEF P
    <3> QED
      BY <1>1, <1>3, <1>4, Climb
  <2>2. N \in 0..N
    BY <1>1
  <2> QED
    BY <2>1, <2>2
<1>6. Run(Readers(units), N)
  <2> HIDE DEF Run
  <2> QED
    BY <1>2, <1>5
<1> DEFINE R == Readers(units)
<1>7. R[0] = First /\ \A i \in 1..N : R[i] = Then(R[i - 1], i)
  <2>1. 0 \in 0..N
    BY <1>1
  <2>2. ASSUME NEW i \in 1..N PROVE i \in 0..N /\ i # 0
    BY <1>1
  <2> HIDE DEF R
  <2>3. R = [i \in 0..N |-> IF i = 0 THEN First ELSE Then(R[i - 1], i)]
    BY <1>6 DEF R
  <2> QED
    BY <2>1, <2>2, <2>3
<1> QED
  BY <1>7 DEF N, First, Then, R

\* What is appended does not change what was read before.
LEMMA ReadersOn ==
  ASSUME NEW S, NEW s \in Seq(S), NEW t \in Seq(S)
  PROVE  \A i \in 0..Len(s) : Readers(s \o t)[i] = Readers(s)[i]
<1> DEFINE R == Readers(s)
           Q == Readers(s \o t)
           n == Len(s)
           P == {i \in 0..n : Q[i] = R[i]}
<1>1. n \in Nat /\ s \o t \in Seq(S) /\ \A i \in 1..n : i \in 1..Len(s \o t) /\ (s \o t)[i] = s[i]
  OBVIOUS
<1>2. R[0] = ChunkReader /\ \A i \in 1..n : R[i] = ReadChunked(R[i - 1], s[i])
  BY ReadersAre
<1>3. Q[0] = ChunkReader /\ \A i \in 1..n : Q[i] = ReadChunked(Q[i - 1], s[i])
  <2>1. Q[0] = ChunkReader /\ \A i \in 1..Len(s \o t) : Q[i] = ReadChunked(Q[i - 1], (s \o t)[i])
    BY <1>1, ReadersAre
  <2> QED
    BY <1>1, <2>1
<1> HIDE DEF R, Q, n
<1>4. 0 \in P
  BY <1>1, <1>2, <1>3
<1>5. ASSUME NEW i \in 1..n, i - 1 \in P PROVE i \in P
  <2>1. i \in 0..n
    BY <1>1
  <2>2. Q[i - 1] = R[i - 1]
    BY <1>5
  <2> QED
    BY <1>2, <1>3, <2>1, <2>2
<1>6. 0..n \subseteq P
  <2> HIDE DEF P
  <2> QED
    BY <1>1, <1>4, <1>5, Climb
<1> QED
  BY <1>6 DEF n, R, Q

\* One more unit is read.
LEMMA ReadersAppend ==
  ASSUME NEW S, NEW s \in Seq(S), NEW u \in S
  PROVE  Readers(s \o <<u>>)[Len(s \o <<u>>)] = ReadChunked(Readers(s)[Len(s)], u)
<1> DEFINE su == s \o <<u>>
<1>1. su \in Seq(S) /\ Len(s) \in Nat /\ Len(su) = Len(s) + 1 /\ su[Len(s) + 1] = u
      /\ <<u>> \in Seq(S)
  OBVIOUS
<1>2. \A i \in 0..Len(s) : Readers(su)[i] = Readers(s)[i]
  BY <1>1, ReadersOn
<1>3. \A i \in 1..Len(su) : Readers(su)[i] = ReadChunked(Readers(su)[i - 1], su[i])
  BY <1>1, ReadersAre
<1> HIDE DEF su
<1>4. Len(s) + 1 \in 1..Len(su) /\ (Len(s) + 1) - 1 = Len(s) /\ Len(s) \in 0..Len(s)
  BY <1>1
<1>5. Readers(su)[Len(s) + 1] = ReadChunked(Readers(su)[(Len(s) + 1) - 1], su[Len(s) + 1])
  BY <1>3, <1>4
<1>6. Readers(su)[(Len(s) + 1) - 1] = Readers(s)[Len(s)]
  BY <1>2, <1>4
<1> QED
  BY <1>1, <1>5, <1>6 DEF su
-----------------------------------------------------------------------------
(* The buffer and the socket *)

\* What the assumptions on the constants say of one request.
LEMMA SizesFit ==
  ASSUME request \in Requests
  PROVE  /\ BufferSize \in Nat /\ BufferSize > 0 /\ MaxBody \in Nat /\ Word \in Nat
         /\ request.header \in Nat /\ request.header > 0
         /\ request.header + MaxBody + BufferSize < Word
<1>1. request.header \in HeaderSizes
  BY DEF Requests
<1> DEFINE h == request.header
<1> HIDE DEF h
<1>2. h \in HeaderSizes
  BY <1>1 DEF h
<1>3. h \in Nat /\ h > 0 /\ h + MaxBody + BufferSize < Word
  BY <1>2, ResponseAssumption
<1> QED
  BY <1>3, ResponseAssumption DEF h

\* The flushes of a write: each takes a full buffer, and what is left fits.
LEMMA BlocksAre ==
  ASSUME NEW S, NEW all \in Seq(S), BufferSize \in Nat, BufferSize > 0
  PROVE  /\ Blocks(all) \in Nat
         /\ Blocks(all) * BufferSize \in Nat
         /\ Blocks(all) * BufferSize <= Len(all)
         /\ Len(all) - Blocks(all) * BufferSize <= BufferSize
         /\ \A i \in 1..Blocks(all) :
              /\ (i - 1) * BufferSize \in Nat /\ i * BufferSize \in Nat
              /\ (i - 1) * BufferSize + BufferSize = i * BufferSize
              /\ i * BufferSize <= Len(all)
<1> DEFINE N == Len(all)
           B == BufferSize
           K == Blocks(all)
<1>1. N \in Nat /\ B \in Nat /\ B > 0 /\ (all = <<>> <=> N = 0)
  OBVIOUS
<1>2. CASE N = 0
  <2>1. K = 0
    BY <1>1, <1>2 DEF Blocks
  <2> HIDE DEF N, K, B
  <2>2. K * B = 0 /\ 1..K = {}
    BY <1>1, <2>1
  <2>3. /\ K \in Nat /\ K * B \in Nat /\ K * B <= N /\ N - K * B <= B
        /\ \A i \in 1..K : FALSE
    BY <1>1, <1>2, <2>1, <2>2
  <2> QED
    BY <2>3 DEF N, K, B
<1>3. CASE N # 0
  <2>1. K = (N - 1) \div B
    BY <1>1, <1>3 DEF Blocks
  <2> HIDE DEF N, K, B
  <2> DEFINE M == N - 1
  <2>2. M \in Nat /\ K = M \div B
    BY <1>1, <1>3, <2>1
  <2> HIDE DEF M
  <2>3. K \in Nat /\ K * B \in Nat /\ K * B <= M /\ M < K * B + B
    BY <1>1, <2>2
  <2>4. K * B <= N /\ N - K * B <= B
    BY <1>1, <2>3 DEF M
  <2>5. ASSUME NEW i \in 1..K
        PROVE  (i - 1) * B \in Nat /\ i * B \in Nat /\ (i - 1) * B + B = i * B /\ i * B <= N
    <3>1. i \in Nat /\ i - 1 \in Nat /\ i <= K
      BY <2>3
    <3>2. (i - 1) * B \in Nat /\ i * B \in Nat
      BY <1>1, <3>1
    <3>3. (i - 1) * B + B = i * B
      BY <1>1, <3>1
    <3>4. i * B <= K * B
      BY <1>1, <2>3, <3>1
    <3> QED
      BY <1>1, <2>3, <2>4, <3>2, <3>3, <3>4
  <2> QED
    BY <2>3, <2>4, <2>5 DEF N, K, B
<1> QED
  BY <1>2, <1>3

\* A write that fits is not flushed, and one of less than two buffers once.
LEMMA FewBlocks ==
  ASSUME NEW S, NEW all \in Seq(S), BufferSize \in Nat, BufferSize > 0
  PROVE  /\ Len(all) <= BufferSize => Blocks(all) = 0
         /\ Len(all) > BufferSize /\ Len(all) <= 2 * BufferSize => Blocks(all) = 1
<1> DEFINE N == Len(all)
           B == BufferSize
           K == Blocks(all)
<1>1. N \in Nat /\ B \in Nat /\ B > 0 /\ (all = <<>> <=> N = 0)
  OBVIOUS
<1>2. CASE N = 0
  BY <1>1, <1>2 DEF Blocks
<1>3. CASE N # 0
  <2>1. K = (N - 1) \div B
    BY <1>1, <1>3 DEF Blocks
  <2> HIDE DEF N, K, B
  <2>2. N <= B => (N - 1) \div B = 0
    BY <1>1, <1>3
  <2>3. N > B /\ N <= 2 * B => (N - 1) \div B = 1
    BY <1>1
  <2> QED
    BY <2>1, <2>2, <2>3 DEF N, K, B
<1> QED
  BY <1>2, <1>3

\* What the socket does not look at stays: a response with these parts changed.
SameBut(r, s) ==
  /\ s.length = r.length /\ s.set = r.set /\ s.header = r.header
  /\ s.skip = r.skip /\ s.chunked = r.chunked /\ s.announced = r.announced

\* A socket that works takes everything; one that has failed stays so.
LEMMA SendIs ==
  ASSUME NEW K, NEW r \in Responses(K), NEW units \in Seq(K)
  PROVE  /\ Send(r, units) \in Responses(K)
         /\ SameBut(r, Send(r, units))
         /\ Send(r, units).buffer = r.buffer /\ Send(r, units).sent = r.sent
         /\ r.failed => Send(r, units).failed
         /\ ~Send(r, units).failed => Send(r, units).wire = r.wire \o units
         /\ r.room = 0 /\ units # <<>> => Send(r, units).failed
<1>1. units \in Seq(K) /\ Len(units) \in Nat /\ r.room \in Nat
  BY DEF Responses
<1>2. CASE r.room >= Len(units)
  <2>1. Send(r, units) = [r EXCEPT !.wire = @ \o units, !.room = @ - Len(units)]
    BY <1>2 DEF Send
  <2>2. r.wire \o units \in Seq(K) /\ r.room - Len(units) \in Nat
    BY <1>1, <1>2 DEF Responses
  <2>3. r.room = 0 => Len(units) = 0
    BY <1>1, <1>2
  <2>4. Len(units) = 0 => units = <<>>
    BY <1>1
  <2>5. Send(r, units) \in Responses(K)
    BY <2>1, <2>2 DEF Responses
  <2>6. /\ SameBut(r, Send(r, units))
        /\ Send(r, units).buffer = r.buffer /\ Send(r, units).sent = r.sent
        /\ Send(r, units).failed = r.failed
        /\ Send(r, units).wire = r.wire \o units
    BY <2>1 DEF Responses, SameBut
  <2> QED
    BY <2>3, <2>4, <2>5, <2>6
<1>3. CASE ~(r.room >= Len(units))
  <2> DEFINE w == r.wire \o SubSeq(units, 1, r.room)
  <2>1. Send(r, units) = [r EXCEPT !.wire = w, !.room = 0, !.failed = TRUE]
    BY <1>3 DEF Send
  <2>2. SubSeq(units, 1, r.room) \in Seq(K)
    BY <1>1, <1>3
  <2>3. w \in Seq(K)
    BY <2>2 DEF Responses
  <2> HIDE DEF w
  <2>4. Send(r, units) \in Responses(K)
    <3>1. [r EXCEPT !.wire = w, !.room = 0] \in Responses(K)
      BY <2>3 DEF Responses
    <3>2. [[r EXCEPT !.wire = w, !.room = 0] EXCEPT !.failed = TRUE] \in Responses(K)
      BY <3>1 DEF Responses
    <3>3. [[r EXCEPT !.wire = w, !.room = 0] EXCEPT !.failed = TRUE]
            = [r EXCEPT !.wire = w, !.room = 0, !.failed = TRUE]
      OBVIOUS
    <3> QED
      BY <2>1, <3>2, <3>3
  <2>5. /\ SameBut(r, Send(r, units))
        /\ Send(r, units).buffer = r.buffer /\ Send(r, units).sent = r.sent
        /\ Send(r, units).failed
    BY <2>1 DEF Responses, SameBut
  <2> QED
    BY <2>4, <2>5
<1> QED
  BY <1>2, <1>3

\* A chunk: its size, the units, and the end of the line.
AChunk(units) == Mark("size", Len(units)) \o units \o Mark("crlf", 0)

\* A chunk has units of the model.
LEMMA ChunkTyped ==
  ASSUME NEW units \in Seq(AUnit)
  PROVE  AChunk(units) \in Seq(AUnit) /\ AChunk(units) # <<>>
<1>1. Mark("size", Len(units)) \in Seq(AUnit) /\ Len(Mark("size", Len(units))) = 1
  BY DEF Mark, AUnit
<1>2. Mark("crlf", 0) \in Seq(AUnit) /\ Len(Mark("crlf", 0)) = 1
  BY DEF Mark, AUnit
<1>3. Mark("size", Len(units)) \o units \in Seq(AUnit)
  BY <1>1
<1>4. /\ Mark("size", Len(units)) \o units \o Mark("crlf", 0) \in Seq(AUnit)
      /\ Len(Mark("size", Len(units)) \o units \o Mark("crlf", 0)) # 0
  BY <1>1, <1>2, <1>3
<1> QED
  BY <1>4 DEF AChunk

\* A flush counts the buffer, and sends it unless nothing is to be sent.
LEMMA FlushSentIs ==
  ASSUME NEW K, NEW r \in Responses(K), BufferSize \in Nat, Word \in Nat, Word > 0,
         r.chunked => K = AUnit
  PROVE  LET f == FlushSent(r) IN
         /\ f \in Responses(K)
         /\ SameBut(r, f)
         /\ f.sent = (r.sent + Len(r.buffer)) % Word
         /\ r.failed => f.failed
         /\ f.buffer \in {<<>>, r.buffer}
         /\ r.skip => f.buffer = r.buffer /\ f.wire = r.wire /\ f.failed = r.failed
         /\ ~r.skip /\ ~r.chunked => /\ f.buffer = <<>>
                                     /\ ~f.failed => f.wire = r.wire \o r.buffer
         /\ ~r.skip /\ r.chunked /\ ~f.failed =>
              /\ f.buffer = <<>>
              /\ f.wire = IF r.buffer = <<>> THEN r.wire ELSE r.wire \o AChunk(r.buffer)
<1> DEFINE n == (r.sent + Len(r.buffer)) % Word
           counted == [r EXCEPT !.sent = n]
           out == IF r.chunked THEN AChunk(r.buffer) ELSE r.buffer
           f == FlushSent(r)
<1>1. r.sent \in Nat /\ Len(r.buffer) \in Nat /\ r.wire \in Seq(K) /\ r.buffer \in Seq(K)
  BY DEF Responses
<1>2. n \in 0..Word - 1
  <2> DEFINE x == r.sent + Len(r.buffer)
  <2>1. x \in Nat
    BY <1>1
  <2> HIDE DEF x
  <2>2. x % Word \in 0..Word - 1
    BY <2>1
  <2> QED
    BY <2>2 DEF x
<1> HIDE DEF n
<1>3. /\ counted \in Responses(K) /\ SameBut(r, counted) /\ counted.sent = n
      /\ counted.buffer = r.buffer /\ counted.wire = r.wire /\ counted.failed = r.failed
      /\ counted.room = r.room
  BY <1>2 DEF Responses, SameBut
<1>4. f = IF r.buffer = <<>> \/ r.skip
            THEN counted
            ELSE [Send(counted, out) EXCEPT
                    !.buffer = IF r.chunked /\ r.room = 0 THEN @ ELSE <<>>]
  BY DEF FlushSent, n, AChunk
<1>5. out \in Seq(K) /\ (r.buffer # <<>> => out # <<>>)
  <2>1. CASE r.chunked
    BY <1>1, <2>1, ChunkTyped
  <2>2. CASE ~r.chunked
    BY <1>1, <2>2
  <2> QED
    BY <2>1, <2>2
<1> HIDE DEF counted, f
<1>6. CASE r.buffer = <<>> \/ r.skip
  <2>1. f = counted
    BY <1>4, <1>6
  <2>2. r.wire \o <<>> = r.wire
    BY <1>1
  <2> QED
    BY <1>3, <1>6, <2>1, <2>2 DEF n, f
<1>7. CASE ~(r.buffer = <<>> \/ r.skip)
  <2> DEFINE s == Send(counted, out)
  <2> HIDE DEF out
  <2>1. f = [s EXCEPT !.buffer = IF r.chunked /\ r.room = 0 THEN @ ELSE <<>>]
    BY <1>4, <1>7 DEF out
  <2>2. /\ s \in Responses(K) /\ SameBut(counted, s)
        /\ s.buffer = r.buffer /\ s.sent = n
        /\ r.failed => s.failed
        /\ ~s.failed => s.wire = r.wire \o out
        /\ r.room = 0 => s.failed
    <3>1. out \in Seq(K) /\ out # <<>>
      BY <1>5, <1>7 DEF out
    <3> HIDE DEF s
    <3>2. /\ s \in Responses(K) /\ SameBut(counted, s)
          /\ s.buffer = counted.buffer /\ s.sent = counted.sent
          /\ counted.failed => s.failed
          /\ ~s.failed => s.wire = counted.wire \o out
          /\ counted.room = 0 /\ out # <<>> => s.failed
      BY <1>3, <3>1, SendIs DEF s
    <3> QED
      BY <1>3, <3>1, <3>2
  <2> HIDE DEF s
  <2>3. /\ f.buffer = IF r.chunked /\ r.room = 0 THEN r.buffer ELSE <<>>
        /\ f.wire = s.wire /\ f.failed = s.failed /\ f.sent = s.sent /\ SameBut(s, f)
        /\ f \in Responses(K)
    <3>1. s \in Responses(K) /\ s.buffer = r.buffer /\ r.buffer \in Seq(K) /\ <<>> \in Seq(K)
      BY <1>1, <2>2
    <3>2. f \in Responses(K)
      BY <2>1, <3>1 DEF Responses
    <3>3. /\ f.buffer = IF r.chunked /\ r.room = 0 THEN r.buffer ELSE <<>>
          /\ f.wire = s.wire /\ f.failed = s.failed /\ f.sent = s.sent /\ SameBut(s, f)
      BY <2>1, <3>1 DEF Responses, SameBut
    <3> QED
      BY <3>2, <3>3
  <2>4. SameBut(r, f)
    BY <1>3, <2>2, <2>3 DEF SameBut
  <2> QED
    BY <1>7, <2>2, <2>3, <2>4 DEF n, f, out
<1> QED
  BY <1>6, <1>7

\* One full buffer goes out.
FlushBlock(x, all, i) ==
  FlushSent([x EXCEPT !.buffer = SubSeq(all, (i - 1) * BufferSize + 1, i * BufferSize)])

\* The definition of Flushed by recursion has a solution, and it is the one.
LEMMA FlushedIs ==
  ASSUME NEW r, NEW all, Blocks(all) \in Nat
  PROVE  /\ Flushed(r, all)[0] = r
         /\ \A i \in 1..Blocks(all) :
              Flushed(r, all)[i] = FlushBlock(Flushed(r, all)[i - 1], all, i)
<1> DEFINE N == Blocks(all)
           First == r
           Then(x, i) == FlushBlock(x, all, i)
           Run(g, n) == g = [i \in 0..n |-> IF i = 0 THEN First ELSE Then(g[i - 1], i)]
<1>1. N \in Nat
  OBVIOUS
<1>2. Flushed(r, all) = CHOOSE g : Run(g, N)
  BY DEF Flushed, FlushBlock
<1> HIDE DEF N, First, Then
<1> DEFINE P == {n \in 0..N : \E g : Run(g, n)}
<1>3. 0 \in P
  <2> DEFINE g == [i \in 0..0 |-> First]
  <2>1. Run(g, 0)
    OBVIOUS
  <2>2. 0 \in 0..N
    BY <1>1
  <2> HIDE DEF g, Run
  <2> QED
    BY <2>1, <2>2
<1>4. ASSUME NEW n \in 1..N, n - 1 \in P PROVE n \in P
  <2>1. PICK g : Run(g, n - 1)
    BY <1>4
  <2> DEFINE h == [i \in 0..n |-> IF i = n THEN Then(g[n - 1], n) ELSE g[i]]
  <2>2. ASSUME NEW i \in 0..n PROVE h[i] = IF i = 0 THEN First ELSE Then(h[i - 1], i)
    <3>1. CASE i = 0
      <4>1. 0 \in 0..n - 1 /\ 0 # n /\ 0 \in 0..n
        BY <1>1
      <4>2. g[0] = First
        BY <2>1, <4>1
      <4> QED
        BY <3>1, <4>1, <4>2
    <3>2. CASE i = n
      <4>1. i - 1 \in 0..n /\ i - 1 # n /\ i # 0
        BY <1>1, <3>2
      <4> QED
        BY <3>2, <4>1
    <3>3. CASE i # 0 /\ i # n
      <4>1. i \in 0..n - 1 /\ i - 1 \in 0..n /\ i - 1 # n
        BY <1>1, <3>3
      <4>2. h[i] = g[i] /\ h[i - 1] = g[i - 1]
        BY <3>3, <4>1
      <4>3. g[i] = Then(g[i - 1], i)
        BY <2>1, <3>3, <4>1
      <4> QED
        BY <3>3, <4>2, <4>3
    <3> QED
      BY <3>1, <3>2, <3>3
  <2>3. h = [i \in 0..n |-> h[i]]
    OBVIOUS
  <2> HIDE DEF h
  <2>4. Run(h, n)
    BY <2>2, <2>3
  <2>5. n \in 0..N
    BY <1>1
  <2> HIDE DEF Run
  <2> QED
    BY <2>4, <2>5
<1>5. N \in P
  <2>1. 0..N \subseteq P
    <3> HIDE DEF P
    <3> QED
      BY <1>1, <1>3, <1>4, Climb
  <2>2. N \in 0..N
    BY <1>1
  <2> QED
    BY <2>1, <2>2
<1>6. Run(Flushed(r, all), N)
  <2> HIDE DEF Run
  <2> QED
    BY <1>2, <1>5
<1> DEFINE R == Flushed(r, all)
<1>7. R[0] = First /\ \A i \in 1..N : R[i] = Then(R[i - 1], i)
  <2>1. 0 \in 0..N
    BY <1>1
  <2>2. ASSUME NEW i \in 1..N PROVE i \in 0..N /\ i # 0
    BY <1>1
  <2> HIDE DEF R
  <2>3. R = [i \in 0..N |-> IF i = 0 THEN First ELSE Then(R[i - 1], i)]
    BY <1>6 DEF R
  <2> QED
    BY <2>1, <2>2, <2>3
<1> QED
  BY <1>7 DEF N, First, Then, R

\* On the way through a write: from r to x these units went out.
OnWay(K, r, x, units) ==
  /\ x \in Responses(K) /\ Len(x.buffer) <= BufferSize
  /\ SameBut(r, x)
  /\ r.failed => x.failed
  /\ ~x.failed => x.wire = r.wire \o units

\* One full buffer more.
LEMMA BlockOnWay ==
  ASSUME NEW K, NEW r \in Responses(K), NEW x, NEW units \in Seq(K), NEW block \in Seq(K),
         BufferSize \in Nat, Word \in Nat, Word > 0,
         ~r.skip, ~r.chunked, OnWay(K, r, x, units)
  PROVE  OnWay(K, r, FlushSent([x EXCEPT !.buffer = block]), units \o block)
<1> DEFINE y == [x EXCEPT !.buffer = block]
           f == FlushSent(y)
<1>1. /\ x \in Responses(K) /\ SameBut(r, x) /\ (r.failed => x.failed)
      /\ ~x.failed => x.wire = r.wire \o units
  BY DEF OnWay
<1>2. /\ y \in Responses(K) /\ SameBut(x, y) /\ y.buffer = block
      /\ y.wire = x.wire /\ y.failed = x.failed
  BY <1>1 DEF Responses, SameBut
<1> HIDE DEF y
<1>3. ~y.skip /\ ~y.chunked
  BY <1>1, <1>2 DEF SameBut
<1>4. /\ f \in Responses(K) /\ SameBut(y, f) /\ (y.failed => f.failed)
      /\ (~y.skip /\ ~y.chunked =>
            f.buffer = <<>> /\ (~f.failed => f.wire = y.wire \o y.buffer))
  BY <1>2, <1>3, FlushSentIs
<1> HIDE DEF f
<1>5. SameBut(r, f) /\ (r.failed => f.failed)
  BY <1>1, <1>2, <1>4 DEF SameBut
<1>6. ~f.failed => f.wire = r.wire \o (units \o block)
  <2>1. (r.wire \o units) \o block = r.wire \o (units \o block)
    <3> DEFINE s == r.wire
    <3>1. s \in Seq(K)
      BY DEF Responses
    <3> HIDE DEF s
    <3>2. (s \o units) \o block = s \o (units \o block)
      BY <3>1, ConcatAssoc
    <3> QED
      BY <3>2 DEF s
  <2> QED
    BY <1>1, <1>2, <1>3, <1>4, <2>1
<1>7. Len(<<>>) <= BufferSize
  OBVIOUS
<1> QED
  BY <1>3, <1>4, <1>5, <1>6, <1>7 DEF OnWay, f, y

\* A write over a socket that nothing is kept from: all that was in the buffer, and
\* the units, go out in order, up to what fits the buffer.  K is any set of units
\* that they are taken from.
LEMMA PutPlain ==
  ASSUME NEW K, NEW r \in Responses(K), NEW units \in Seq(K),
         BufferSize \in Nat, BufferSize > 0, Word \in Nat, Word > 0,
         ~r.skip, ~r.chunked, Len(r.buffer) <= BufferSize
  PROVE  LET p == Put(r, units) IN
         /\ p \in Responses(K) /\ Len(p.buffer) <= BufferSize
         /\ SameBut(r, p)
         /\ r.failed => p.failed
         /\ ~p.failed => p.wire \o p.buffer = r.wire \o (r.buffer \o units)
<1> DEFINE all == r.buffer \o units
           n == Blocks(all)
           B == BufferSize
           F == Flushed(r, all)
           Done(i) == SubSeq(all, 0 * B + 1, i * B)
           Block(i) == SubSeq(all, (i - 1) * B + 1, i * B)
<1>1. r.buffer \in Seq(K) /\ r.wire \in Seq(K) /\ all \in Seq(K)
  BY DEF Responses
<1>2. /\ n \in Nat /\ n * B \in Nat /\ n * B <= Len(all) /\ Len(all) - n * B <= B
      /\ \A i \in 1..n : /\ (i - 1) * B \in Nat /\ i * B \in Nat
                         /\ (i - 1) * B + B = i * B /\ i * B <= Len(all)
  <2> HIDE DEF all
  <2> QED
    BY ONLY <1>1, BufferSize \in Nat, BufferSize > 0, BlocksAre
<1>3. /\ F[0] = r
      /\ \A i \in 1..n : F[i] = FlushBlock(F[i - 1], all, i)
  <2> HIDE DEF all
  <2>1. Blocks(all) \in Nat
    BY <1>2
  <2> QED
    BY <2>1, FlushedIs
<1> HIDE DEF all, n, F, B
<1> DEFINE Good(i) == OnWay(K, r, F[i], Done(i))
           P == {i \in 0..n : Good(i)}
<1>4. 0 \in P
  <2>1. Done(0) = <<>> /\ r.wire \o <<>> = r.wire
    <3>1. 0 * B = 0 /\ 0 \in Nat /\ 0 <= Len(all)
      BY <1>1 DEF B
    <3>2. SubSeq(all, 0 + 1, 0) \in Seq(K) /\ Len(SubSeq(all, 0 + 1, 0)) = 0 - 0
      BY ONLY <1>1, <3>1, PartIs
    <3> QED
      BY <1>1, <3>1, <3>2
  <2>2. 0 \in 0..n
    BY <1>2
  <2>3. SameBut(r, r)
    BY DEF SameBut
  <2> HIDE DEF Done, Block
  <2>4. Good(0)
    BY <1>3, <2>1, <2>3 DEF OnWay
  <2> QED
    BY <2>2, <2>4
<1>5. ASSUME NEW i \in 1..n, i - 1 \in P PROVE i \in P
  <2>1. Good(i - 1) /\ i \in 0..n
    <3>1. i \in 0..n
      BY <1>2
    <3> HIDE DEF Good
    <3>2. Good(i - 1)
      BY <1>5
    <3> QED
      BY <3>1, <3>2 DEF Good
  <2> DEFINE x == F[i - 1]
             j == i - 1
  <2>2. /\ j * B \in Nat /\ i * B \in Nat /\ j * B + B = i * B /\ i * B <= Len(all)
    BY <1>2
  <2>3. Block(i) \in Seq(K) /\ Len(Block(i)) = B
    <3> DEFINE a == j * B
               b == i * B
    <3>1. a \in Nat /\ b \in Nat /\ a <= b /\ b <= Len(all) /\ b - a = B
      BY <2>2 DEF B
    <3>2. Block(i) = SubSeq(all, a + 1, b)
      OBVIOUS
    <3> HIDE DEF a, b, Block
    <3>3. SubSeq(all, a + 1, b) \in Seq(K) /\ Len(SubSeq(all, a + 1, b)) = b - a
      BY ONLY <1>1, <3>1, PartIs
    <3> QED
      BY <3>1, <3>2, <3>3
  <2>4. Done(j) \o Block(i) = Done(i) /\ Done(j) \in Seq(K)
    <3> DEFINE a == 0 * B
               b == j * B
               c == i * B
    <3>1. a \in Nat /\ b \in Nat /\ c \in Nat /\ a <= b /\ b <= c /\ c <= Len(all)
      BY <2>2 DEF B
    <3>2. Done(j) = SubSeq(all, a + 1, b) /\ Block(i) = SubSeq(all, b + 1, c)
          /\ Done(i) = SubSeq(all, a + 1, c)
      OBVIOUS
    <3> HIDE DEF a, b, c, Done, Block
    <3>3. SubSeq(all, a + 1, b) \o SubSeq(all, b + 1, c) = SubSeq(all, a + 1, c)
      BY ONLY <1>1, <3>1, PartsJoin
    <3>4. b <= Len(all)
      BY <1>1, <3>1
    <3>5. SubSeq(all, a + 1, b) \in Seq(K)
      BY ONLY <1>1, <3>1, <3>4, PartIs
    <3> QED
      BY <3>2, <3>3, <3>5
  <2>5. FlushBlock(x, all, i) = FlushSent([x EXCEPT !.buffer = Block(i)])
    BY DEF FlushBlock, B
  <2>6. F[i] = FlushBlock(x, all, i)
    BY <1>3
  <2> HIDE DEF Done, Block
  <2>7. OnWay(K, r, FlushSent([x EXCEPT !.buffer = Block(i)]), Done(j) \o Block(i))
    <3> DEFINE t == Done(j)
               u == Block(i)
    <3>1. t \in Seq(K) /\ u \in Seq(K) /\ OnWay(K, r, x, t)
      BY <2>1, <2>3, <2>4
    <3> HIDE DEF t, u, x
    <3>2. OnWay(K, r, FlushSent([x EXCEPT !.buffer = u]), t \o u)
      BY <3>1, BlockOnWay
    <3> QED
      BY <3>2 DEF t, u
  <2>8. Good(i)
    BY <2>4, <2>5, <2>6, <2>7
  <2> QED
    BY <2>1, <2>8
<1>6. n \in P
  <2>1. 0..n \subseteq P
    <3> HIDE DEF P
    <3> QED
      BY <1>2, <1>4, <1>5, Climb
  <2>2. n \in 0..n
    BY <1>2
  <2> QED
    BY <2>1, <2>2
<1> DEFINE x == F[n]
           rest == SubSeq(all, n * B + 1, Len(all))
           p == Put(r, units)
<1>7. Good(n)
  BY <1>6
<1>8. p = [x EXCEPT !.buffer = IF x.failed THEN @ ELSE rest]
  BY DEF Put, all, n, F, B
<1>9. /\ rest \in Seq(K) /\ Len(rest) <= B
      /\ Done(n) \in Seq(K) /\ Done(n) \o rest = all
  <2> DEFINE a == 0 * B
             b == n * B
             c == Len(all)
  <2>1. a \in Nat /\ b \in Nat /\ c \in Nat /\ a <= b /\ b <= c /\ c - b <= B /\ a = 0
    BY <1>1, <1>2 DEF B
  <2>2. c <= Len(all) /\ b <= Len(all)
    BY <2>1
  <2>3. Done(n) = SubSeq(all, a + 1, b) /\ rest = SubSeq(all, b + 1, c)
    OBVIOUS
  <2>4. SubSeq(all, 1, c) = all
    BY ONLY <1>1, PartWhole
  <2> HIDE DEF a, b, c, Done, rest
  <2>5. SubSeq(all, a + 1, b) \o SubSeq(all, b + 1, c) = SubSeq(all, a + 1, c)
    BY ONLY <1>1, <2>1, <2>2, PartsJoin
  <2>6. SubSeq(all, a + 1, b) \in Seq(K)
    BY ONLY <1>1, <2>1, <2>2, PartIs
  <2>7. SubSeq(all, b + 1, c) \in Seq(K) /\ Len(SubSeq(all, b + 1, c)) = c - b
    BY ONLY <1>1, <2>1, <2>2, PartIs
  <2>8. a + 1 = 1
    BY <2>1
  <2> QED
    BY <2>1, <2>3, <2>4, <2>5, <2>6, <2>7, <2>8
<1> HIDE DEF Done, Block, rest, x, p
<1>10. p \in Responses(K) /\ p.buffer = (IF x.failed THEN x.buffer ELSE rest)
       /\ SameBut(x, p) /\ p.wire = x.wire /\ p.failed = x.failed
  <2>1. x \in Responses(K) /\ rest \in Seq(K) /\ x.buffer \in Seq(K)
    BY <1>7, <1>9 DEF Responses, OnWay, x
  <2> QED
    BY <1>8, <2>1 DEF Responses, SameBut
<1>11. SameBut(r, p) /\ (r.failed => p.failed) /\ Len(p.buffer) <= B
  BY <1>7, <1>9, <1>10 DEF SameBut, OnWay, x, B
<1>12. ~p.failed => p.wire \o p.buffer = r.wire \o all
  <2>1. (r.wire \o Done(n)) \o rest = r.wire \o (Done(n) \o rest)
    <3> DEFINE s == r.wire
               t == Done(n)
    <3>1. s \in Seq(K) /\ t \in Seq(K) /\ rest \in Seq(K)
      BY <1>1, <1>9
    <3> HIDE DEF s, t
    <3>2. (s \o t) \o rest = s \o (t \o rest)
      BY ONLY <3>1, ConcatAssoc
    <3> QED
      BY <3>2 DEF s, t
  <2> QED
    BY <1>7, <1>9, <1>10, <2>1 DEF x, OnWay
<1> QED
  BY <1>10, <1>11, <1>12 DEF p, all, B

\* What fits the buffer is only put there.
LEMMA PutFits ==
  ASSUME NEW K, NEW r \in Responses(K), NEW units \in Seq(K),
         BufferSize \in Nat, BufferSize > 0, Len(r.buffer) + Len(units) <= BufferSize
  PROVE  Put(r, units) = [r EXCEPT !.buffer = IF r.failed THEN @ ELSE r.buffer \o units]
<1> DEFINE all == r.buffer \o units
<1>1. all \in Seq(K) /\ Len(all) <= BufferSize
  BY DEF Responses
<1>2. Blocks(all) = 0
  <2> HIDE DEF all
  <2> QED
    BY <1>1, FewBlocks
<1>3. Flushed(r, all)[0] = r
  <2> HIDE DEF all
  <2>1. Blocks(all) \in Nat
    BY <1>2
  <2> QED
    BY <2>1, FlushedIs
<1>4. SubSeq(all, 0 * BufferSize + 1, Len(all)) = all
  <2> HIDE DEF all
  <2>1. 0 * BufferSize + 1 = 1
    OBVIOUS
  <2> QED
    BY <1>1, <2>1, PartWhole
<1> HIDE DEF all
<1>5. Put(r, units) = [r EXCEPT !.buffer = IF r.failed THEN @ ELSE all]
  BY <1>2, <1>3, <1>4 DEF Put, all
<1> QED
  BY <1>5 DEF all

\* Content that is written behind the headers is counted from zero.
LEMMA PutCounts ==
  ASSUME NEW K, NEW r \in Responses(K), NEW units \in Seq(K),
         BufferSize \in Nat, BufferSize > 0, Word \in Nat, BufferSize < Word,
         ~r.skip, ~r.chunked, Len(r.buffer) <= BufferSize, Len(units) <= BufferSize,
         r.sent + Len(r.buffer) \in {0, Word}, ~Put(r, units).failed
  PROVE  Put(r, units).sent + Len(Put(r, units).buffer) \in {Len(units), Len(units) + Word}
<1> DEFINE all == r.buffer \o units
           l == Len(r.buffer)
           n == Len(units)
           B == BufferSize
           q == r.sent
<1>1. /\ r.buffer \in Seq(K) /\ all \in Seq(K) /\ Len(all) = l + n /\ l \in Nat /\ n \in Nat
      /\ r.sent \in Nat /\ r.sent < Word /\ Word > 0 /\ Word \in Nat /\ B \in Nat /\ B > 0
      /\ l <= B /\ n <= B /\ B < Word
  BY DEF Responses
<1> HIDE DEF all, l, n, q, B
<1>4. /\ l \in Nat /\ n \in Nat /\ q \in Nat /\ B \in Nat /\ Word \in Nat
      /\ q < Word /\ l <= B /\ n <= B /\ B < Word /\ q + l \in {0, Word}
  BY <1>1 DEF q, l
<1>2. CASE Len(all) <= B
  <2>1. Len(r.buffer) + Len(units) <= BufferSize
    BY <1>1, <1>2 DEF l, n, B
  <2>2. Put(r, units) = [r EXCEPT !.buffer = IF r.failed THEN @ ELSE all]
    BY <2>1, PutFits DEF all
  <2>3. Put(r, units).buffer = all /\ Put(r, units).sent = r.sent
    BY <2>2 DEF Responses
  <2>4. q + (l + n) \in {n, n + Word}
    BY <1>4
  <2> QED
    BY <1>1, <2>3, <2>4 DEF n, q
<1>3. CASE Len(all) > B
  <2>1. Blocks(all) = 1
    <3>1. Len(all) > BufferSize /\ Len(all) <= 2 * BufferSize
      BY <1>1, <1>3 DEF B
    <3> QED
      BY <1>1, <3>1, FewBlocks
  <2> DEFINE block == SubSeq(all, (1 - 1) * B + 1, 1 * B)
             y == [r EXCEPT !.buffer = block]
             f == FlushSent(y)
             rest == SubSeq(all, 1 * B + 1, Len(all))
             p == Put(r, units)
  <2>2. Flushed(r, all)[0] = r /\ Flushed(r, all)[1] = FlushBlock(Flushed(r, all)[1 - 1], all, 1)
    <3>1. 1 \in 1..Blocks(all) /\ Blocks(all) \in Nat
      BY <2>1
    <3> QED
      BY <3>1, FlushedIs
  <2>3. Flushed(r, all)[1] = f
    <3>1. 1 - 1 = 0
      OBVIOUS
    <3> QED
      BY <2>2, <3>1 DEF FlushBlock, B
  <2>4. p = [f EXCEPT !.buffer = IF f.failed THEN @ ELSE rest]
    BY <2>1, <2>3 DEF Put, all, B
  <2>5. block \in Seq(K) /\ Len(block) = B
    <3>1. (1 - 1) * B + 1 = 0 + 1 /\ 1 * B = B /\ B - 0 = B
      BY <1>1
    <3>2. 0 \in Nat /\ 0 <= B /\ B <= Len(all)
      BY <1>1, <1>3
    <3>3. SubSeq(all, 0 + 1, B) \in Seq(K) /\ Len(SubSeq(all, 0 + 1, B)) = B - 0
      BY <1>1, <3>2, PartIs
    <3> QED
      BY <3>1, <3>3
  <2>6. Len(rest) = l + n - B
    <3> DEFINE N == Len(all)
    <3>1. N \in Nat /\ 1 * B = B /\ B <= N /\ N <= Len(all)
      BY <1>1, <1>3
    <3> HIDE DEF N
    <3>2. Len(SubSeq(all, B + 1, N)) = N - B
      BY <1>1, <3>1, PartIs
    <3> QED
      BY <1>1, <3>1, <3>2 DEF N
  <2> HIDE DEF block, rest
  <2>7. y \in Responses(K) /\ y.sent = r.sent /\ y.buffer = block
    BY <2>5 DEF Responses
  <2>8. y.chunked = r.chunked
    BY DEF Responses
  <2> HIDE DEF y
  <2>9. f \in Responses(K) /\ f.sent = (y.sent + Len(y.buffer)) % Word
    BY <1>1, <2>7, <2>8, FlushSentIs
  <2> HIDE DEF f
  <2>10. p.failed = f.failed /\ p.sent = f.sent
    BY <2>4, <2>9 DEF Responses
  <2>11. p.buffer = rest
    BY <2>4, <2>9, <2>10 DEF Responses
  <2>12. p.sent = (q + B) % Word
    BY <2>5, <2>7, <2>9, <2>10 DEF q
  <2> HIDE DEF p
  <2>13. ((q + B) % Word) + (l + n - B) = n
    <3>1. CASE q + l = 0
      <4>1. q = 0 /\ l = 0
        BY <1>4, <3>1
      <4>2. B % Word = B
        BY <1>4
      <4>3. q + B = B
        BY <1>4, <4>1
      <4> QED
        BY <1>4, <4>1, <4>2, <4>3
    <3>2. CASE q + l = Word
      <4> DEFINE x == B - l
      <4>1. x \in Nat /\ x < Word /\ q + B = Word + x
        BY <1>4, <3>2
      <4> HIDE DEF x
      <4>2. (Word + x) % Word = x
        BY <1>4, <4>1
      <4> QED
        BY <1>4, <4>1, <4>2 DEF x
    <3> QED
      BY <1>4, <3>1, <3>2
  <2> QED
    BY <2>6, <2>11, <2>12, <2>13 DEF n, p
<1> QED
  BY <1>1, <1>2, <1>3
-----------------------------------------------------------------------------
(* Chunks *)

\* A mark is one unit, and no content.
LEMMA MarkIs ==
  ASSUME NEW kind \in {"size", "crlf", "last"}, NEW v \in Nat
  PROVE  /\ [kind |-> kind, v |-> v] \in AUnit
         /\ Mark(kind, v) = <<[kind |-> kind, v |-> v]>>
         /\ Mark(kind, v) \in Seq(AUnit) /\ Len(Mark(kind, v)) = 1
         /\ Mark(kind, v)[1].kind = kind
<1>1. [kind |-> kind, v |-> v] \in AUnit
  BY DEF AUnit
<1> QED
  BY <1>1 DEF Mark

\* One unit of content more is a run of one.
LEMMA OneMore ==
  ASSUME NEW m \in Nat
  PROVE  /\ [kind |-> "body", v |-> m + 1] \in AUnit
         /\ Units("body", m, 1) = <<[kind |-> "body", v |-> m + 1]>>
<1>1. [kind |-> "body", v |-> m + 1] \in AUnit
  BY DEF AUnit
<1>2. Units("body", m, 1) = [i \in 1..1 |-> [kind |-> "body", v |-> m + i]]
  BY DEF Units
<1>3. [i \in 1..1 |-> [kind |-> "body", v |-> m + i]] = <<[kind |-> "body", v |-> m + 1]>>
  OBVIOUS
<1> QED
  BY <1>1, <1>2, <1>3

\* Inside a chunk: i of its k units of content are read.
LEMMA ChunkInside ==
  ASSUME NEW s \in Seq(AUnit), NEW m \in Nat, NEW k \in Nat, k > 0,
         Readers(s)[Len(s)] = [waits |-> "data", left |-> k, got |-> Whole(m)]
  PROVE  \A i \in 0..k :
           LET t == s \o Units("body", m, i) IN
           Readers(t)[Len(t)] = [waits |-> IF i = k THEN "crlf" ELSE "data",
                                 left |-> k - i, got |-> Whole(m + i)]
<1> DEFINE t(i) == s \o Units("body", m, i)
           Read(i) == [waits |-> IF i = k THEN "crlf" ELSE "data",
                       left |-> k - i, got |-> Whole(m + i)]
           P == {i \in 0..k : Readers(t(i))[Len(t(i))] = Read(i)}
<1>1. 0 \in P
  <2>1. t(0) = s
    BY NoUnits, ConcatEmpty
  <2>2. Read(0) = [waits |-> "data", left |-> k, got |-> Whole(m)]
    <3>1. 0 # k /\ k - 0 = k /\ m + 0 = m
      OBVIOUS
    <3> QED
      BY <3>1
  <2>3. 0 \in 0..k
    OBVIOUS
  <2> HIDE DEF t, Read
  <2> QED
    BY <2>1, <2>2, <2>3
<1>2. ASSUME NEW i \in 1..k, i - 1 \in P PROVE i \in P
  <2> DEFINE j == i - 1
             u == [kind |-> "body", v |-> (m + j) + 1]
  <2>1. /\ j \in Nat /\ j + 1 = i /\ m + j \in Nat /\ (m + j) + 1 = m + i /\ j # k
        /\ i \in Nat /\ i \in 0..k /\ k - j - 1 = k - i /\ (k - j = 1 <=> i = k)
    OBVIOUS
  <2>2. u \in AUnit /\ Units("body", m + j, 1) = <<u>>
    BY <2>1, OneMore
  <2>3. t(i) = t(j) \o <<u>>
    <3>1. Units("body", m, j) \o Units("body", m + j, 1) = Units("body", m, j + 1)
      <4>1. j \in Nat /\ 1 \in Nat
        BY <2>1
      <4> HIDE DEF j
      <4> QED
        BY <4>1, UnitsContinue, Zenon
    <3>2. Units("body", m, j) \in Seq(AUnit) /\ <<u>> \in Seq(AUnit)
      BY <2>1, <2>2, UnitsTyped
    <3> DEFINE a == Units("body", m, j)
               b == <<u>>
    <3>3. a \o b = Units("body", m, i)
      BY <2>1, <2>2, <3>1
    <3> HIDE DEF a, b, u
    <3>4. (s \o a) \o b = s \o (a \o b)
      BY <3>2, ConcatAssoc DEF a, b
    <3> QED
      BY <3>3, <3>4 DEF a, b
  <2>4. t(j) \in Seq(AUnit)
    <3>1. Units("body", m, j) \in Seq(AUnit)
      BY <2>1, UnitsTyped
    <3> QED
      BY <3>1
  <2>5. Readers(t(j))[Len(t(j))] = Read(j)
    BY <1>2
  <2> DEFINE x == Read(j)
  <2>6. x.waits = "data" /\ x.left = k - j /\ x.got = Whole(m + j)
    BY <2>1
  <2>7. ReadChunked(x, u) = [x EXCEPT !.waits = IF x.left = 1 THEN "crlf" ELSE "data",
                                      !.left = @ - 1, !.got = Append(@, u)]
    <3> HIDE DEF x
    <3>1. u.kind = "body" /\ u.kind # "size"
      OBVIOUS
    <3> HIDE DEF u
    <3> QED
      BY <2>6, <3>1 DEF ReadChunked
  <2>8. Append(Whole(m + j), u) = Whole(m + i)
    <3>1. Units("body", 0, m + j) \o Units("body", 0 + (m + j), 1) = Units("body", 0, (m + j) + 1)
      <4> DEFINE n == m + j
      <4>1. n \in Nat /\ 1 \in Nat /\ 0 \in Nat
        BY <2>1
      <4> HIDE DEF n
      <4>2. Units("body", 0, n) \o Units("body", 0 + n, 1) = Units("body", 0, n + 1)
        BY <4>1, UnitsContinue, Zenon
      <4> QED
        BY <4>2 DEF n
    <3>2. 0 + (m + j) = m + j
      BY <2>1
    <3>3. Whole(m + j) \o <<u>> = Whole(m + i)
      BY <2>1, <2>2, <3>1, <3>2 DEF Whole
    <3>4. Whole(m + j) \in Seq(AUnit)
      BY <2>1, UnitsTyped DEF Whole
    <3> HIDE DEF u
    <3> DEFINE w == Whole(m + j)
    <3> HIDE DEF w
    <3>5. w \in Seq(AUnit)
      BY <3>4 DEF w
    <3>6. Append(w, u) = w \o <<u>>
      BY <2>2, <3>5
    <3> QED
      BY <3>3, <3>6 DEF w
  <2>9. ReadChunked(x, u) = Read(i)
    <3>1. ReadChunked(x, u) = [waits |-> IF x.left = 1 THEN "crlf" ELSE "data",
                               left |-> x.left - 1, got |-> Append(x.got, u)]
      <4> HIDE DEF u
      <4> QED
        BY <2>7
    <3> HIDE DEF x, u
    <3>2. (IF x.left = 1 THEN "crlf" ELSE "data") = (IF i = k THEN "crlf" ELSE "data")
      BY <2>1, <2>6
    <3>3. x.left - 1 = k - i
      BY <2>1, <2>6
    <3>4. Append(x.got, u) = Whole(m + i)
      BY <2>6, <2>8
    <3> QED
      BY <3>1, <3>2, <3>3, <3>4
  <2> HIDE DEF t, Read, u
  <2>10. Readers(t(j) \o <<u>>)[Len(t(j) \o <<u>>)] = ReadChunked(Readers(t(j))[Len(t(j))], u)
    <3> DEFINE w == t(j)
    <3>1. w \in Seq(AUnit)
      BY <2>4
    <3> HIDE DEF w
    <3>2. Readers(w \o <<u>>)[Len(w \o <<u>>)] = ReadChunked(Readers(w)[Len(w)], u)
      BY <2>2, <3>1, ReadersAppend
    <3> QED
      BY <3>2 DEF w
  <2> QED
    BY <2>1, <2>3, <2>5, <2>9, <2>10
<1>3. 0..k \subseteq P
  <2> HIDE DEF P
  <2> QED
    BY <1>1, <1>2, Climb
<1> QED
  BY <1>3

\* A chunk of the next k units of content is read to its end.
LEMMA ChunkRead ==
  ASSUME NEW s \in Seq(AUnit), NEW m \in Nat, NEW k \in Nat, k > 0, InChunks(s, m)
  PROVE  /\ s \o AChunk(Units("body", m, k)) \in Seq(AUnit)
         /\ InChunks(s \o AChunk(Units("body", m, k)), m + k)
<1> DEFINE b == Units("body", m, k)
           size == Mark("size", k)
           crlf == Mark("crlf", 0)
           us == [kind |-> "size", v |-> k]
           uc == [kind |-> "crlf", v |-> 0]
           c == AChunk(b)
<1>1. /\ Readers(s)[Len(s)] = [waits |-> "size", left |-> 0, got |-> Whole(m)]
      /\ \A i \in 1..Len(s) : s[i].kind # "header"
      /\ Written(s, 0, m)
  BY DEF InChunks
<1>2. /\ b \in Seq(AUnit) /\ Len(b) = k /\ \A i \in 1..k : b[i].kind = "body"
  <2>1. b \in Seq(AUnit)
    BY UnitsTyped
  <2> QED
    BY <2>1 DEF Units
<1>3. /\ size = <<us>> /\ us \in AUnit /\ size \in Seq(AUnit)
      /\ Len(size) = 1 /\ size[1].kind = "size"
  BY MarkIs
<1>4. /\ crlf = <<uc>> /\ uc \in AUnit /\ crlf \in Seq(AUnit)
      /\ Len(crlf) = 1 /\ crlf[1].kind = "crlf"
  BY MarkIs
<1>5. c = (size \o b) \o crlf
  BY <1>2 DEF AChunk
<1> HIDE DEF b, size, crlf, us, uc, c
<1>6. size \o b \in Seq(AUnit) /\ c \in Seq(AUnit) /\ s \o size \in Seq(AUnit)
      /\ s \o c \in Seq(AUnit) /\ (s \o size) \o b \in Seq(AUnit)
  BY <1>2, <1>3, <1>4, <1>5
<1>7. s \o c = ((s \o size) \o b) \o crlf
  <2>1. s \o ((size \o b) \o crlf) = (s \o (size \o b)) \o crlf
    <3> DEFINE sb == size \o b
    <3>1. sb \in Seq(AUnit)
      BY <1>6
    <3> HIDE DEF sb
    <3>2. s \o (sb \o crlf) = (s \o sb) \o crlf
      BY <1>4, <3>1, ConcatAssoc
    <3> QED
      BY <3>2 DEF sb
  <2>2. s \o (size \o b) = (s \o size) \o b
    BY <1>2, <1>3, ConcatAssoc
  <2> QED
    BY <1>5, <2>1, <2>2
<1> DEFINE s1 == s \o size
           s2 == s1 \o b
           s3 == s2 \o crlf
<1>8. Readers(s1)[Len(s1)] = [waits |-> "data", left |-> k, got |-> Whole(m)]
  <2> DEFINE x == [waits |-> "size", left |-> 0, got |-> Whole(m)]
  <2>1. Readers(s1)[Len(s1)] = ReadChunked(x, us)
    BY <1>1, <1>3, ReadersAppend
  <2>2. us.kind = "size" /\ us.v > 0 /\ us.v = k
    BY DEF us
  <2>3. ReadChunked(x, us) = [x EXCEPT !.waits = "data", !.left = us.v]
    BY <2>2 DEF ReadChunked
  <2> QED
    BY <2>1, <2>2, <2>3
<1>9. Readers(s2)[Len(s2)] = [waits |-> "crlf", left |-> 0, got |-> Whole(m + k)]
  <2>1. \A i \in 0..k :
           LET t == s1 \o Units("body", m, i) IN
           Readers(t)[Len(t)] = [waits |-> IF i = k THEN "crlf" ELSE "data",
                                 left |-> k - i, got |-> Whole(m + i)]
    <3> HIDE DEF s1
    <3>1. s1 \in Seq(AUnit)
      BY <1>6 DEF s1
    <3> QED
      BY <1>8, <3>1, ChunkInside
  <2>2. k \in 0..k /\ k - k = 0
    OBVIOUS
  <2> HIDE DEF s1
  <2>3. LET t == s1 \o Units("body", m, k) IN
           Readers(t)[Len(t)] = [waits |-> "crlf", left |-> k - k, got |-> Whole(m + k)]
    BY <2>1, <2>2
  <2> QED
    BY <2>2, <2>3 DEF b
<1>10. Readers(s3)[Len(s3)] = [waits |-> "size", left |-> 0, got |-> Whole(m + k)]
  <2> DEFINE x == [waits |-> "crlf", left |-> 0, got |-> Whole(m + k)]
  <2>1. s2 \in Seq(AUnit)
    BY <1>6
  <2> HIDE DEF s2
  <2>2. Readers(s3)[Len(s3)] = ReadChunked(x, uc)
    BY <1>4, <1>9, <2>1, ReadersAppend
  <2>3. uc.kind = "crlf"
    BY DEF uc
  <2>4. ReadChunked(x, uc) = [x EXCEPT !.waits = "size"]
    BY <2>3 DEF ReadChunked
  <2> QED
    BY <2>2, <2>4
<1>11. Written(s3, 0, m + k)
  <2>1. Written(size, m, 0) /\ Written(crlf, m + k, 0)
    <3>1. \A i \in 1..Len(size) : size[i].kind # "body"
      BY <1>3
    <3>2. \A i \in 1..Len(crlf) : crlf[i].kind # "body"
      BY <1>4
    <3> QED
      BY <3>1, <3>2, WrittenNone
  <2>2. Written(b, m, k)
    BY WrittenRun DEF b
  <2>3. 0 + m = m /\ m + 0 = m /\ 0 + (m + k) = m + k /\ (m + k) + 0 = m + k /\ m + k \in Nat
        /\ 0 \in Nat
    OBVIOUS
  <2>4. Written(s1, 0, m)
    <3>1. Written(size, 0 + m, 0)
      BY <2>1, <2>3
    <3>2. Written(s \o size, 0, m + 0)
      BY <1>1, <1>3, <2>3, <3>1, WrittenOn
    <3> QED
      BY <2>3, <3>2
  <2>5. Written(s2, 0, m + k)
    <3> HIDE DEF s1
    <3>1. s1 \in Seq(AUnit)
      BY <1>6 DEF s1
    <3>2. Written(b, 0 + m, k)
      BY <2>2, <2>3
    <3> QED
      BY <1>2, <2>3, <2>4, <3>1, <3>2, WrittenOn
  <2> HIDE DEF s2
  <2>6. s2 \in Seq(AUnit)
    BY <1>6 DEF s2
  <2>7. Written(crlf, 0 + (m + k), 0)
    BY <2>1, <2>3
  <2>8. Written(s2 \o crlf, 0, (m + k) + 0)
    <3> DEFINE n == m + k
    <3>1. n \in Nat /\ Written(s2, 0, n) /\ Written(crlf, 0 + n, 0)
      BY <2>3, <2>5, <2>7
    <3> HIDE DEF n
    <3>2. Written(s2 \o crlf, 0, n + 0)
      BY <1>4, <2>3, <2>6, <3>1, WrittenOn
    <3> QED
      BY <3>2 DEF n
  <2> QED
    BY <2>3, <2>8
<1>12. \A i \in 1..Len(s3) : s3[i].kind # "header"
  <2>1. \A i \in 1..Len(s1) : s1[i].kind # "header"
    BY <1>1, <1>3
  <2>2. \A i \in 1..Len(s2) : s2[i].kind # "header"
    <3> HIDE DEF s1
    <3>1. s1 \in Seq(AUnit)
      BY <1>6 DEF s1
    <3> QED
      BY <1>2, <2>1, <3>1
  <2> HIDE DEF s2
  <2>3. s2 \in Seq(AUnit)
    BY <1>6 DEF s2
  <2> QED
    BY <1>4, <2>2, <2>3
<1>13. InChunks(s3, m + k)
  BY <1>10, <1>11, <1>12 DEF InChunks
<1>14. s \o c = s3
  BY <1>7
<1> HIDE DEF s3
<1> QED
  BY <1>6, <1>13, <1>14 DEF c, b
-----------------------------------------------------------------------------
(* The shape of a response, kept by each operation *)

\* The units of headers alone.
HUnit == [kind : {"header"}, v : Nat]

\* Headers are units, and this many.
LEMMA HeadersAre ==
  ASSUME request \in Requests
  PROVE  /\ HeaderUnits \in Seq(HUnit) /\ HeaderUnits \in Seq(AUnit)
         /\ Len(HeaderUnits) = request.header
         /\ \A i \in 1..Len(HeaderUnits) : HeaderUnits[i].kind = "header"
<1> DEFINE h == request.header
<1>1. h \in Nat
  BY SizesFit
<1> HIDE DEF h
<1>2. HeaderUnits = [i \in 1..h |-> [kind |-> "header", v |-> 0 + i]]
  BY DEF HeaderUnits, Units, h
<1>3. \A i \in 1..h : [kind |-> "header", v |-> 0 + i] \in HUnit
  BY <1>1 DEF HUnit
<1>4. \A i \in 1..h : [kind |-> "header", v |-> 0 + i] \in AUnit
  BY <1>1 DEF AUnit
<1>5. HeaderUnits \in Seq(HUnit) /\ HeaderUnits \in Seq(AUnit) /\ Len(HeaderUnits) = h
  BY <1>1, <1>2, <1>3, <1>4
<1>6. \A i \in 1..h : HeaderUnits[i].kind = "header"
  BY <1>2
<1> QED
  BY <1>5, <1>6 DEF h

\* A response with units of headers is a response.
LEMMA HeadersWiden ==
  ASSUME NEW r \in Responses(HUnit)
  PROVE  r \in Responses(AUnit)
<1>1. HUnit \subseteq AUnit
  BY DEF HUnit, AUnit
<1> DEFINE H == HUnit
           A == AUnit
<1> HIDE DEF H, A
<1>2. H \subseteq A
  BY <1>1 DEF H, A
<1>3. r.buffer \in Seq(H) /\ r.wire \in Seq(H)
  BY DEF Responses, H
<1>4. r.buffer \in Seq(A) /\ r.wire \in Seq(A)
  BY <1>2, <1>3
<1> QED
  BY <1>4 DEF Responses, A

\* Before any content is written nothing is lost when only headers are there.
LEMMA IntactFirst ==
  ASSUME request \in Requests, NEW r \in Responses(AUnit),
         r.chunked => r.buffer = <<>> /\ r.wire = HeaderUnits,
         ~r.chunked => r.wire \o r.buffer = HeaderUnits,
         r.sent + Len(r.buffer) \in {0, Word}
  PROVE  Intact(r, 0)
<1>1. /\ HeaderUnits \in Seq(AUnit) /\ Len(HeaderUnits) = request.header
      /\ request.header \in Nat /\ Word \in Nat
  BY HeadersAre, SizesFit
<1>2. Whole(0) = <<>>
  BY NoUnits DEF Whole
<1>3. 0 + Word = Word
  BY <1>1
<1>4. CASE r.chunked
  <2> DEFINE m == 0 - Len(r.buffer)
             after == SubSeq(r.wire, request.header + 1, Len(r.wire))
  <2>1. m = 0 /\ Len(r.buffer) = 0
    BY <1>4
  <2>2. after = <<>>
    <3> DEFINE h == HeaderUnits
    <3>1. h \in Seq(AUnit) /\ r.wire = h /\ Len(h) = request.header
      BY <1>1, <1>4
    <3> HIDE DEF h
    <3>2. SubSeq(h, Len(h) + 1, Len(h)) = <<>>
      BY <3>1
    <3> QED
      BY <3>1, <3>2
  <2>3. HeaderUnits \o <<>> = HeaderUnits
    <3> DEFINE h == HeaderUnits
    <3>1. h \in Seq(AUnit)
      BY <1>1
    <3> HIDE DEF h
    <3> QED
      BY <3>1, ConcatEmpty DEF h
  <2>4. Readers(<<>>)[0] = ChunkReader
    <3>1. <<>> \in Seq(AUnit)
      OBVIOUS
    <3> QED
      BY <3>1, ReadersAre
  <2>5. InChunks(<<>>, 0)
    <3>1. Len(<<>>) = 0 /\ \A i \in 1..0 : FALSE
      OBVIOUS
    <3>2. Written(<<>>, 0, 0)
      BY <3>1, WrittenNone
    <3> QED
      BY <1>2, <2>4, <3>1, <3>2 DEF InChunks, ChunkReader
  <2>6. r.buffer = Units("body", m, Len(r.buffer))
    BY <1>4, <2>1, NoUnits
  <2>7. m \in Nat
    BY <2>1
  <2>8. r.sent + Len(r.buffer) \in {0, 0 + Word}
    BY <1>3
  <2> HIDE DEF m, after
  <2> QED
    BY <1>4, <2>1, <2>2, <2>3, <2>5, <2>6, <2>7, <2>8 DEF Intact, m, after
<1>5. CASE ~r.chunked
  <2>1. HeaderUnits \o Whole(0) = HeaderUnits
    <3> DEFINE h == HeaderUnits
    <3>1. h \in Seq(AUnit)
      BY <1>1
    <3> HIDE DEF h
    <3> QED
      BY <1>2, <3>1, ConcatEmpty DEF h
  <2> QED
    BY <1>3, <1>5, <2>1 DEF Intact
<1> QED
  BY <1>4, <1>5

\* The headers are written before any content.
LEMMA WriteHeadersShape ==
  ASSUME request \in Requests, NEW r \in Responses(AUnit),
         ~r.header, Unheaded(r, 0)
  PROVE  LET w == WriteHeaders(r) IN
         /\ w \in Responses(AUnit) /\ Len(w.buffer) <= BufferSize
         /\ w.header /\ w.set = r.set /\ w.length = r.length
         /\ Headed(w, 0)
         /\ w.chunked => w.buffer = <<>>
<1> DEFINE B == BufferSize
           h0 == [r EXCEPT !.header = TRUE, !.announced = Announce(r)]
           lines == Put(h0, HeaderUnits)
           l == Len(lines.buffer)
           written == [lines EXCEPT !.sent = (Word - Len(lines.buffer)) % Word]
           w == WriteHeaders(r)
<1>1. /\ B \in Nat /\ B > 0 /\ Word \in Nat /\ B < Word /\ Word > 0
  BY SizesFit
<1>2. /\ HeaderUnits \in Seq(HUnit) /\ HeaderUnits \in Seq(AUnit)
  BY HeadersAre
<1>3. /\ r.buffer = <<>> /\ r.wire = <<>> /\ r.sent = 0 /\ ~r.failed /\ ~r.skip /\ ~r.chunked
  BY NoUnits DEF Unheaded, Whole
<1>4. Announce(r) \in [length : Nat \cup {None}, chunked : BOOLEAN, close : BOOLEAN]
  <2>1. r.length \in Nat /\ r.set \in BOOLEAN
    BY <1>1 DEF Responses
  <2>2. request.http11 \in BOOLEAN /\ request.keep \in BOOLEAN
    BY DEF Requests
  <2> QED
    BY <2>1, <2>2 DEF Announce
<1>5. /\ h0 \in Responses(HUnit) /\ h0.header /\ h0.set = r.set /\ h0.length = r.length
      /\ h0.announced = Announce(r) /\ ~h0.skip /\ ~h0.chunked /\ ~h0.failed
      /\ h0.buffer = <<>> /\ h0.wire = <<>>
  <2> DEFINE a == Announce(r)
  <2>1. a \in [length : Nat \cup {None}, chunked : BOOLEAN, close : BOOLEAN]
    BY <1>4
  <2> HIDE DEF a
  <2>2. r \in Responses(HUnit)
    <3>1. <<>> \in Seq(HUnit)
      OBVIOUS
    <3> QED
      BY <1>3, <3>1 DEF Responses
  <2> DEFINE x == [r EXCEPT !.header = TRUE]
  <2>3. /\ x \in Responses(HUnit) /\ x.header /\ x.set = r.set /\ x.length = r.length
        /\ ~x.skip /\ ~x.chunked /\ ~x.failed /\ x.buffer = <<>> /\ x.wire = <<>>
    BY <1>3, <2>2 DEF Responses
  <2>4. h0 = [x EXCEPT !.announced = a]
    BY DEF a
  <2> HIDE DEF x, h0
  <2> QED
    BY <2>1, <2>3, <2>4 DEF Responses, a
<1> HIDE DEF h0
<1>6. /\ lines \in Responses(HUnit) /\ l <= B
      /\ SameBut(h0, lines)
      /\ ~lines.failed => lines.wire \o lines.buffer = HeaderUnits
  <2>1. Len(h0.buffer) <= BufferSize
    BY <1>1, <1>5
  <2>2. /\ lines \in Responses(HUnit) /\ Len(lines.buffer) <= BufferSize
        /\ SameBut(h0, lines)
        /\ ~lines.failed => lines.wire \o lines.buffer = h0.wire \o (h0.buffer \o HeaderUnits)
    BY <1>1, <1>2, <1>5, <2>1, PutPlain
  <2>3. <<>> \o (<<>> \o HeaderUnits) = HeaderUnits
    <3> DEFINE s == HeaderUnits
    <3>1. s \in Seq(HUnit)
      BY <1>2
    <3> HIDE DEF s
    <3>2. <<>> \o s = s
      BY <3>1, ConcatEmpty
    <3> QED
      BY <3>2 DEF s
  <2> QED
    BY <1>5, <2>2, <2>3
<1>7. w = IF request.head
            THEN [FlushSent(written) EXCEPT !.skip = TRUE]
            ELSE IF Announce(r).chunked THEN [FlushSent(written) EXCEPT !.chunked = TRUE]
                                        ELSE written
  BY DEF WriteHeaders, h0, HeaderUnits
<1> HIDE DEF lines, l, w
<1>8. l \in Nat /\ l < Word /\ l = Len(lines.buffer)
  <2>1. lines.buffer \in Seq(HUnit)
    BY <1>6 DEF Responses
  <2> QED
    BY <1>1, <1>6, <2>1 DEF l
<1> DEFINE n == (Word - l) % Word
<1>9. n \in 0..Word - 1 /\ n + l \in {0, Word} /\ (n + l) % Word = 0
  <2>1. CASE l = 0
    <3>1. Word % Word = 0 /\ 0 % Word = 0
      BY <1>1
    <3> QED
      BY <1>1, <2>1, <3>1
  <2>2. CASE l # 0
    <3> DEFINE x == Word - l
    <3>1. x \in 0..Word - 1 /\ x + l = Word
      BY <1>1, <1>8, <2>2
    <3> HIDE DEF x
    <3>2. x % Word = x /\ Word % Word = 0
      BY <1>1, <3>1
    <3> QED
      BY <3>1, <3>2 DEF x
  <2> QED
    BY <2>1, <2>2
<1> HIDE DEF n
<1>10. written = [lines EXCEPT !.sent = n]
  BY <1>8 DEF n
<1>11. /\ written \in Responses(HUnit) /\ SameBut(lines, written)
       /\ written.buffer = lines.buffer /\ written.wire = lines.wire
       /\ written.failed = lines.failed /\ written.sent = n
  <2> HIDE DEF written
  <2> QED
    BY <1>6, <1>9, <1>10 DEF Responses, SameBut
<1> HIDE DEF written
<1>12. /\ written.header /\ written.set = r.set /\ written.length = r.length
       /\ written.announced = Announce(r) /\ ~written.skip /\ ~written.chunked
  BY <1>5, <1>6, <1>11 DEF SameBut
<1> DEFINE f == FlushSent(written)
<1>13. /\ f \in Responses(HUnit) /\ SameBut(written, f)
       /\ f.sent = (written.sent + Len(written.buffer)) % Word
       /\ f.buffer = <<>>
       /\ ~f.failed => ~written.failed /\ f.wire = written.wire \o written.buffer
  <2>1. /\ f \in Responses(HUnit) /\ SameBut(written, f)
        /\ f.sent = (written.sent + Len(written.buffer)) % Word
        /\ written.failed => f.failed
        /\ ~written.skip /\ ~written.chunked =>
             f.buffer = <<>> /\ (~f.failed => f.wire = written.wire \o written.buffer)
    BY <1>1, <1>11, <1>12, FlushSentIs
  <2> QED
    BY <1>12, <2>1
<1> HIDE DEF f
<1>14. f.sent = 0 /\ (~f.failed => f.wire = HeaderUnits)
  <2>1. f.sent = (n + l) % Word
    BY <1>8, <1>11, <1>13
  <2> QED
    BY <1>6, <1>9, <1>11, <1>13, <2>1
<1>15. /\ f.header /\ f.set = r.set /\ f.length = r.length
       /\ f.announced = Announce(r) /\ ~f.skip /\ ~f.chunked
  BY <1>12, <1>13 DEF SameBut
<1>16. ASSUME NEW x, x.set = r.set, x.length = r.length PROVE Announce(x) = Announce(r)
  BY <1>16 DEF Announce
<1>17. CASE request.head
  <2>1. w = [f EXCEPT !.skip = TRUE]
    BY <1>7, <1>17 DEF f
  <2>2. /\ w \in Responses(HUnit) /\ w.header /\ w.set = r.set /\ w.length = r.length
        /\ w.announced = Announce(r) /\ w.skip /\ ~w.chunked /\ w.buffer = <<>>
        /\ ~w.failed => w.wire = HeaderUnits
    BY <1>13, <1>14, <1>15, <2>1 DEF Responses
  <2>3. w.wire \in Seq(HUnit) /\ Len(w.buffer) <= B
    BY <1>1, <2>2 DEF Responses
  <2>4. w \in Responses(AUnit)
    BY <2>2, HeadersWiden
  <2>5. w.announced = Announce(w)
    BY <1>16, <2>2
  <2>6. w.skip = request.head /\ w.chunked = (~request.head /\ w.announced.chunked)
    <3>1. request.head \in BOOLEAN /\ w.skip \in BOOLEAN /\ w.chunked \in BOOLEAN
      BY <1>17, <2>2 DEF Responses
    <3> QED
      BY <1>17, <2>2, <3>1
  <2>7. Headed(w, 0)
    BY <1>17, <2>2, <2>3, <2>5, <2>6 DEF Headed, HUnit
  <2> QED
    BY <2>2, <2>3, <2>4, <2>7 DEF w
<1>18. CASE ~request.head /\ Announce(r).chunked
  <2>1. w = [f EXCEPT !.chunked = TRUE]
    BY <1>7, <1>18 DEF f
  <2>2. /\ w \in Responses(HUnit) /\ w.header /\ w.set = r.set /\ w.length = r.length
        /\ w.announced = Announce(r) /\ ~w.skip /\ w.chunked /\ w.buffer = <<>>
        /\ ~w.failed => w.wire = HeaderUnits
        /\ w.sent = 0
    BY <1>13, <1>14, <1>15, <2>1 DEF Responses
  <2>3. w \in Responses(AUnit) /\ Len(w.buffer) <= B /\ Len(w.buffer) = 0
    BY <1>1, <2>2, HeadersWiden
  <2>4. w.announced = Announce(w)
    BY <1>16, <2>2
  <2>5. ~w.failed => Intact(w, 0)
    <3>1. w.sent + Len(w.buffer) \in {0, Word}
      BY <2>2, <2>3
    <3> QED
      BY <2>2, <2>3, <3>1, IntactFirst
  <2>6. w.skip = request.head /\ w.chunked = (~request.head /\ w.announced.chunked)
    <3>1. request.head \in BOOLEAN /\ w.skip \in BOOLEAN /\ w.chunked \in BOOLEAN
      <4>1. request.head \in Heads
        BY DEF Requests
      <4> QED
        BY <2>2, <4>1, ResponseAssumption DEF Responses
    <3>2. w.announced.chunked
      BY <1>18, <2>2
    <3> QED
      BY <1>18, <2>2, <3>1, <3>2
  <2>7. Headed(w, 0)
    BY <1>18, <2>4, <2>5, <2>6 DEF Headed
  <2> QED
    BY <2>2, <2>3, <2>7 DEF w
<1>19. CASE ~request.head /\ ~Announce(r).chunked
  <2>1. w = written
    BY <1>7, <1>19
  <2>2. w \in Responses(AUnit) /\ Len(w.buffer) <= B /\ Len(w.buffer) = l
    BY <1>6, <1>8, <1>11, <2>1, HeadersWiden
  <2>3. w.announced = Announce(w)
    BY <1>12, <1>16, <2>1
  <2>4. ~w.failed => Intact(w, 0)
    <3>1. w.sent + Len(w.buffer) \in {0, Word}
      BY <1>9, <1>11, <2>1, <2>2
    <3>2. ~w.failed => w.wire \o w.buffer = HeaderUnits
      BY <1>6, <1>11, <2>1
    <3>3. ~w.chunked
      BY <1>12, <2>1
    <3> QED
      BY <2>2, <3>1, <3>2, <3>3, IntactFirst
  <2>5. w.skip = request.head /\ w.chunked = (~request.head /\ w.announced.chunked)
    <3>1. request.head \in BOOLEAN /\ w.skip \in BOOLEAN /\ w.chunked \in BOOLEAN
      <4>1. request.head \in Heads
        BY DEF Requests
      <4> QED
        BY <2>2, <4>1, ResponseAssumption DEF Responses
    <3>2. ~w.announced.chunked /\ ~w.skip /\ ~w.chunked
      BY <1>12, <1>19, <2>1
    <3> QED
      BY <1>19, <3>1, <3>2
  <2>6. Headed(w, 0)
    BY <1>19, <2>3, <2>4, <2>5 DEF Headed
  <2> QED
    BY <1>12, <2>1, <2>2, <2>6 DEF w
<1> QED
  BY <1>17, <1>18, <1>19

\* What the shape says of a response depends on nothing else.
LEMMA SameAnnounced ==
  ASSUME NEW r, NEW s, s.set = r.set, s.length = r.length
  PROVE  Announce(s) = Announce(r)
BY DEF Announce

\* The count of what was sent does not reach the width of the counter.
LEMMA CountIs ==
  ASSUME NEW q \in Nat, NEW l \in Nat, NEW n \in Nat, Word \in Nat, n < Word,
         q + l \in {n, n + Word}
  PROVE  (q + l) % Word = n
<1>1. n % Word = n
  OBVIOUS
<1>2. (n + Word) % Word = n
  <2>1. (Word + n) % Word = n /\ Word + n = n + Word
    OBVIOUS
  <2> QED
    BY <2>1
<1> QED
  BY <1>1, <1>2

\* A flush sends what is in the buffer behind what was sent.
LEMMA FlushSentIntact ==
  ASSUME request \in Requests, NEW n \in Nat, n <= MaxBody,
         NEW r \in Responses(AUnit), ~r.skip, ~r.failed, Intact(r, n),
         ~FlushSent(r).failed
  PROVE  Intact(FlushSent(r), n) /\ FlushSent(r).buffer = <<>>
<1> DEFINE f == FlushSent(r)
           b == r.buffer
           l == Len(r.buffer)
           h == request.header
<1>1. Word \in Nat /\ n < Word /\ BufferSize \in Nat /\ h \in Nat /\ 0 < Word
  BY SizesFit
<1>2. /\ f \in Responses(AUnit) /\ SameBut(r, f)
      /\ f.sent = (r.sent + Len(b)) % Word
      /\ ~r.chunked => f.buffer = <<>> /\ f.wire = r.wire \o b
      /\ r.chunked => /\ f.buffer = <<>>
                      /\ f.wire = IF b = <<>> THEN r.wire ELSE r.wire \o AChunk(b)
  BY <1>1, FlushSentIs
<1>3. b \in Seq(AUnit) /\ r.wire \in Seq(AUnit) /\ l \in Nat /\ r.sent \in Nat
  BY <1>1 DEF Responses
<1> HIDE DEF f
<1>4. f.sent + Len(f.buffer) \in {n, n + Word} /\ f.buffer = <<>>
  <2>1. r.sent + l \in {n, n + Word}
    BY DEF Intact
  <2> DEFINE q == r.sent
  <2>2. q \in Nat /\ q + l \in {n, n + Word}
    BY <1>3, <2>1
  <2> HIDE DEF q, l
  <2>3. (q + l) % Word = n
    BY <1>1, <1>3, <2>2, CountIs
  <2>4. f.buffer = <<>>
    BY <1>2
  <2>5. f.sent = n /\ Len(<<>>) = 0
    BY <1>2, <2>3 DEF q, l
  <2> QED
    BY <2>4, <2>5
<1>5. f.chunked = r.chunked
  BY <1>2 DEF SameBut
<1>6. CASE ~r.chunked
  <2>1. f.wire = r.wire \o b /\ r.wire \o b = HeaderUnits \o Whole(n)
    BY <1>2, <1>6 DEF Intact
  <2>2. f.wire \in Seq(AUnit)
    BY <1>2 DEF Responses
  <2>3. f.wire \o <<>> = f.wire
    BY <2>2, ConcatEmpty
  <2> QED
    BY <1>4, <1>5, <1>6, <2>1, <2>3 DEF Intact, f
<1>7. CASE r.chunked
  <2> DEFINE m == n - l
             w == r.wire
             after == SubSeq(r.wire, request.header + 1, Len(r.wire))
  <2>1. m \in Nat /\ b = Units("body", m, l) /\ w = HeaderUnits \o after /\ InChunks(after, m)
    BY <1>7 DEF Intact
  <2>2. HeaderUnits \in Seq(AUnit) /\ Len(HeaderUnits) = h
    BY HeadersAre
  <2>3. Len(w) \in Nat /\ h <= Len(w) /\ after \in Seq(AUnit)
    <3>1. Len(w) \in Nat
      BY <1>3
    <3> HIDE DEF w, h
    <3>2. after \in Seq(AUnit)
      <4> DEFINE N == Len(w)
      <4>1. w \in Seq(AUnit) /\ N \in Nat
        BY <1>3, <3>1 DEF w
      <4>2. SubSeq(w, h + 1, N) \in Seq(AUnit)
        BY <1>1, <4>1
      <4> QED
        BY <4>2 DEF w, h
    <3> HIDE DEF after
    <3> DEFINE H == HeaderUnits
    <3>3. H \in Seq(AUnit) /\ Len(H) = h /\ w = H \o after
      BY <2>1, <2>2
    <3> HIDE DEF H
    <3>4. Len(H \o after) = Len(H) + Len(after) /\ Len(after) \in Nat
      BY <3>2, <3>3, ConcatLen
    <3> QED
      BY <1>1, <3>1, <3>2, <3>3, <3>4
  <2> HIDE DEF after, w, h, m
  <2> DEFINE on == IF b = <<>> THEN after ELSE after \o AChunk(b)
  <2>4. on \in Seq(AUnit) /\ InChunks(on, n) /\ f.wire = HeaderUnits \o on
    <3>1. CASE b = <<>>
      <4>1. l = 0
        BY <3>1
      <4>2. m = n
        BY <4>1 DEF m
      <4> QED
        BY <1>2, <1>7, <2>1, <2>3, <3>1, <4>2 DEF w
    <3>2. CASE b # <<>>
      <4>1. l > 0
        BY <1>3, <3>2
      <4> HIDE DEF l
      <4>2. m + l = n
        BY <1>3 DEF m
      <4>3. after \o AChunk(Units("body", m, l)) \in Seq(AUnit)
            /\ InChunks(after \o AChunk(Units("body", m, l)), m + l)
        BY <1>3, <2>1, <2>3, <4>1, ChunkRead
      <4>4. on = after \o AChunk(Units("body", m, l))
        BY <2>1, <3>2
      <4>5. f.wire = (HeaderUnits \o after) \o AChunk(b)
        BY <1>2, <1>7, <2>1, <3>2 DEF w
      <4>6. (HeaderUnits \o after) \o AChunk(b) = HeaderUnits \o (after \o AChunk(b))
        <5> DEFINE H == HeaderUnits
                   c == AChunk(b)
        <5>1. H \in Seq(AUnit) /\ c \in Seq(AUnit)
          BY <1>3, <2>2, ChunkTyped
        <5> HIDE DEF H, c
        <5>2. (H \o after) \o c = H \o (after \o c)
          BY <2>3, <5>1, ConcatAssoc
        <5> QED
          BY <5>2 DEF H, c
      <4> QED
        BY <3>2, <4>2, <4>3, <4>4, <4>5, <4>6
    <3> QED
      BY <3>1, <3>2
  <2> HIDE DEF on
  <2>5. SubSeq(f.wire, request.header + 1, Len(f.wire)) = on
    <3> DEFINE H == HeaderUnits
    <3>1. H \in Seq(AUnit) /\ Len(H) = request.header /\ f.wire = H \o on
      BY <2>2, <2>4 DEF h
    <3> HIDE DEF H
    <3>2. SubSeq(H \o on, Len(H) + 1, Len(H \o on)) = on
      BY <2>4, <3>1, PartWhole
    <3> QED
      BY <3>1, <3>2
  <2>6. f.buffer = <<>> /\ Len(f.buffer) = 0 /\ n - Len(f.buffer) = n
        /\ f.buffer = Units("body", n, 0)
    BY <1>4, NoUnits
  <2> QED
    BY <1>4, <1>5, <1>7, <2>4, <2>5, <2>6 DEF Intact, f
<1> QED
  BY <1>6, <1>7

\* Behind the headers, emptying the buffer keeps the shape of a response: a chunk
\* more, or the same units, or a failure (onion_response_write_buffer).
LEMMA FlushSentShape ==
  ASSUME request \in Requests, NEW n \in Nat, n <= MaxBody,
         NEW r, r.header, Shape(r, n)
  PROVE  LET f == FlushSent(r) IN
         /\ Shape(f, n) /\ SameBut(r, f)
         /\ ~f.failed => ~r.failed
         /\ ~f.failed /\ ~f.skip => f.buffer = <<>>
<1> DEFINE f == FlushSent(r)
<1>1. Word \in Nat /\ BufferSize \in Nat /\ 0 < Word
  BY SizesFit
<1>2. r \in Responses(AUnit) /\ Len(r.buffer) <= BufferSize /\ Headed(r, n)
  BY DEF Shape
<1>3. /\ f \in Responses(AUnit) /\ SameBut(r, f)
      /\ r.failed => f.failed
      /\ f.buffer \in {<<>>, r.buffer}
      /\ r.skip => f.wire = r.wire /\ f.failed = r.failed
  BY <1>1, <1>2, FlushSentIs
<1>4. Len(f.buffer) <= BufferSize
  BY <1>1, <1>2, <1>3
<1>5. ~f.failed /\ ~r.skip => Intact(f, n) /\ f.buffer = <<>>
  <2> SUFFICES ASSUME ~f.failed, ~r.skip PROVE Intact(f, n) /\ f.buffer = <<>>
    OBVIOUS
  <2>1. ~r.failed
    BY <1>3
  <2>2. Intact(r, n)
    BY <1>2, <2>1 DEF Headed
  <2> QED
    BY <1>2, <2>1, <2>2, FlushSentIntact
<1> HIDE DEF f
<1>6. f.header = r.header /\ f.skip = r.skip /\ f.chunked = r.chunked
      /\ f.announced = r.announced /\ Announce(f) = Announce(r)
  BY <1>3, SameAnnounced DEF SameBut
<1>7. Headed(f, n)
  BY <1>2, <1>3, <1>5, <1>6 DEF Headed
<1>8. Shape(f, n)
  BY <1>3, <1>4, <1>6, <1>7 DEF Shape
<1> QED
  BY <1>3, <1>5, <1>6, <1>8 DEF f

\* Content that waited for the headers is written behind them.
LEMMA PutIntact ==
  ASSUME request \in Requests, NEW n \in Nat, n <= BufferSize,
         NEW r \in Responses(AUnit), Len(r.buffer) <= BufferSize, ~r.skip,
         ~r.failed => Intact(r, 0),
         r.chunked => r.buffer = <<>>
  PROVE  LET p == Put(r, Whole(n)) IN
         /\ p \in Responses(AUnit) /\ Len(p.buffer) <= BufferSize /\ SameBut(r, p)
         /\ ~p.failed => Intact(p, n)
<1> DEFINE p == Put(r, Whole(n))
           c == Whole(n)
<1>1. Word \in Nat /\ BufferSize \in Nat /\ 0 < Word /\ 0 < BufferSize /\ BufferSize < Word
  BY SizesFit
<1>2. c \in Seq(AUnit) /\ Len(c) = n
  <2>1. c \in Seq(AUnit)
    BY UnitsTyped DEF Whole
  <2> QED
    BY <2>1 DEF Whole, Units
<1>3. HeaderUnits \in Seq(AUnit) /\ Len(HeaderUnits) = request.header
  BY HeadersAre
<1>4. CASE r.chunked
  <2>1. r.buffer = <<>> /\ Len(r.buffer) = 0
    BY <1>4
  <2> HIDE DEF c
  <2>2. p = [r EXCEPT !.buffer = IF r.failed THEN @ ELSE r.buffer \o c]
    <3>1. Len(r.buffer) + Len(c) <= BufferSize
      BY <1>2, <2>1
    <3> QED
      BY <1>1, <1>2, <3>1, PutFits DEF c
  <2>3. r.buffer \o c = c
    BY <1>2, <2>1, ConcatEmpty
  <2>4. r.buffer \in Seq(AUnit)
    BY DEF Responses
  <2> HIDE DEF p
  <2>5. /\ p \in Responses(AUnit) /\ SameBut(r, p)
        /\ p.buffer = (IF r.failed THEN r.buffer ELSE c)
        /\ p.wire = r.wire /\ p.sent = r.sent /\ p.failed = r.failed
    <3> DEFINE b == IF r.failed THEN r.buffer ELSE c
    <3>1. p = [r EXCEPT !.buffer = b]
      BY <2>2, <2>3
    <3>2. b \in Seq(AUnit)
      BY <1>2, <2>4
    <3> HIDE DEF b
    <3>3. /\ p \in Responses(AUnit) /\ SameBut(r, p) /\ p.buffer = b
          /\ p.wire = r.wire /\ p.sent = r.sent /\ p.failed = r.failed
      BY <3>1, <3>2 DEF Responses, SameBut
    <3> QED
      BY <3>3 DEF b
  <2>6. Len(p.buffer) <= BufferSize
    BY <1>2, <2>5
  <2>7. ~p.failed => Intact(p, n)
    <3> SUFFICES ASSUME ~p.failed PROVE Intact(p, n)
      OBVIOUS
    <3>1. p.buffer = c /\ Intact(r, 0)
      BY <2>5
    <3> DEFINE after == SubSeq(r.wire, request.header + 1, Len(r.wire))
    <3>2. /\ r.sent \in {0, 0 + Word} /\ InChunks(after, 0) /\ r.wire = HeaderUnits \o after
      <4>1. r.sent + Len(r.buffer) \in {0, 0 + Word} /\ r.sent \in Nat
        BY <1>1, <3>1 DEF Intact, Responses
      <4>2. 0 - Len(r.buffer) = 0
        <5> DEFINE l == Len(r.buffer)
        <5>1. l = 0
          BY <2>1
        <5> HIDE DEF l
        <5>2. 0 - l = 0
          BY <5>1
        <5> QED
          BY <5>2 DEF l
      <4>3. InChunks(after, 0) /\ r.wire = HeaderUnits \o after
        BY <1>4, <3>1, <4>2 DEF Intact
      <4>4. r.sent \in {0, 0 + Word}
        <5> DEFINE l == Len(r.buffer)
                   q == r.sent
        <5>1. l = 0 /\ q \in Nat /\ q + l \in {0, 0 + Word}
          BY <2>1, <4>1
        <5> HIDE DEF l, q
        <5>2. q \in {0, 0 + Word}
          BY <1>1, <5>1
        <5> QED
          BY <5>2 DEF q
      <4> QED
        BY <4>3, <4>4
    <3>3. p.sent + Len(p.buffer) \in {n, n + Word}
      BY <1>1, <1>2, <2>5, <3>1, <3>2
    <3>4. n - Len(p.buffer) = 0 /\ Len(p.buffer) = n
      BY <1>2, <3>1
    <3>5. p.buffer = Units("body", 0, n)
      BY <3>1 DEF c, Whole
    <3>6. p.chunked /\ p.wire = r.wire
      BY <1>4, <2>5 DEF SameBut
    <3>7. 0 \in Nat
      OBVIOUS
    <3> HIDE DEF after
    <3> QED
      BY <3>2, <3>3, <3>4, <3>5, <3>6, <3>7 DEF Intact, after
  <2> QED
    BY <2>5, <2>6, <2>7 DEF p
<1>5. CASE ~r.chunked
  <2>1. /\ p \in Responses(AUnit) /\ Len(p.buffer) <= BufferSize /\ SameBut(r, p)
        /\ r.failed => p.failed
        /\ ~p.failed => p.wire \o p.buffer = r.wire \o (r.buffer \o c)
    BY <1>1, <1>2, <1>5, PutPlain
  <2>2. ~p.failed => Intact(p, n)
    <3> SUFFICES ASSUME ~p.failed PROVE Intact(p, n)
      OBVIOUS
    <3>1. ~r.failed /\ Intact(r, 0)
      BY <2>1
    <3>2. r.sent + Len(r.buffer) \in {0, 0 + Word} /\ r.wire \o r.buffer = HeaderUnits \o Whole(0)
      BY <1>5, <3>1 DEF Intact
    <3>3. 0 + Word = Word
      BY <1>1
    <3>4. p.sent + Len(p.buffer) \in {Len(c), Len(c) + Word}
      BY <1>1, <1>2, <1>5, <3>2, <3>3, PutCounts
    <3>5. Whole(0) = <<>>
      BY NoUnits DEF Whole
    <3>6. r.wire \o (r.buffer \o c) = HeaderUnits \o c
      <4> DEFINE s == r.wire
                 t == r.buffer
                 H == HeaderUnits
      <4>1. s \in Seq(AUnit) /\ t \in Seq(AUnit) /\ H \in Seq(AUnit) /\ s \o t = H \o <<>>
        BY <1>3, <3>2, <3>5 DEF Responses
      <4> HIDE DEF s, t, H, c
      <4>2. (s \o t) \o c = s \o (t \o c)
        <5>1. s \in Seq(AUnit) /\ t \in Seq(AUnit) /\ c \in Seq(AUnit)
          BY <1>2, <4>1
        <5> QED
          BY ONLY <5>1, ConcatAssoc
      <4>3. H \o <<>> = H
        BY <4>1, ConcatEmpty
      <4>4. s \o (t \o c) = H \o c
        BY <4>1, <4>2, <4>3
      <4> QED
        BY <4>4 DEF s, t, H
    <3>7. ~p.chunked
      BY <1>5, <2>1 DEF SameBut
    <3> QED
      BY <1>2, <2>1, <3>4, <3>6, <3>7 DEF Intact
  <2> QED
    BY <2>1, <2>2
<1> QED
  BY <1>4, <1>5

\* So does onion_response_flush, which writes the headers first when they are due.
LEMMA FlushShape ==
  ASSUME request \in Requests, NEW n \in Nat, n <= MaxBody, NEW r, Shape(r, n)
  PROVE  LET f == Flush(r) IN
         /\ Shape(f, n)
         /\ f.set = r.set /\ f.length = r.length
         /\ r.header => f.header
         /\ ~f.header => f.buffer = <<>>
<1> DEFINE f == Flush(r)
<1>1. r \in Responses(AUnit) /\ Len(r.buffer) <= BufferSize /\ BufferSize \in Nat
  BY SizesFit DEF Shape
<1>2. CASE r.header
  <2>1. f = FlushSent(r)
    BY <1>2 DEF Flush
  <2>2. Shape(FlushSent(r), n) /\ SameBut(r, FlushSent(r))
    BY <1>2, FlushSentShape
  <2> QED
    BY <1>2, <2>1, <2>2 DEF SameBut
<1>3. CASE ~r.header /\ r.buffer = <<>>
  <2>1. f = r
    BY <1>3 DEF Flush
  <2> QED
    BY <1>3, <2>1
<1>4. CASE ~r.header /\ r.buffer # <<>>
  <2> DEFINE x == [r EXCEPT !.buffer = <<>>]
             w == WriteHeaders(x)
             p == Put(w, r.buffer)
  <2>1. Unheaded(r, n) /\ r.buffer = Whole(n) /\ n <= BufferSize
    <3>1. Unheaded(r, n) /\ r.buffer = Whole(n)
      BY <1>4 DEF Shape, Unheaded
    <3>2. Len(Whole(n)) = n
      BY DEF Whole, Units
    <3> QED
      BY <1>1, <3>1, <3>2
  <2>2. /\ x \in Responses(AUnit) /\ ~x.header /\ x.set = r.set /\ x.length = r.length
        /\ x.wire = r.wire /\ x.sent = r.sent /\ x.failed = r.failed /\ x.skip = r.skip
        /\ x.chunked = r.chunked /\ x.buffer = <<>>
    <3>1. <<>> \in Seq(AUnit)
      OBVIOUS
    <3> QED
      BY <1>1, <1>4, <3>1 DEF Responses
  <2>3. f = IF w.skip THEN w ELSE p
    BY <1>4 DEF Flush
  <2> HIDE DEF x
  <2>4. Unheaded(x, 0)
    <3>1. Whole(0) = <<>>
      BY NoUnits DEF Whole
    <3> QED
      BY <2>1, <2>2, <3>1 DEF Unheaded
  <2>5. /\ w \in Responses(AUnit) /\ Len(w.buffer) <= BufferSize
        /\ w.header /\ w.set = x.set /\ w.length = x.length
        /\ Headed(w, 0)
        /\ w.chunked => w.buffer = <<>>
    BY <2>2, <2>4, WriteHeadersShape
  <2> HIDE DEF w, f
  <2>6. CASE w.skip
    <3>1. request.head
      BY <2>5, <2>6 DEF Headed
    <3>2. Headed(w, n)
      BY <2>5, <3>1 DEF Headed
    <3>3. Shape(w, n)
      BY <2>5, <3>2 DEF Shape
    <3> QED
      BY <2>2, <2>3, <2>5, <2>6, <3>3 DEF f
  <2>7. CASE ~w.skip
    <3>1. ~request.head
      BY <2>5, <2>7 DEF Headed
    <3>2. ~w.failed => Intact(w, 0)
      BY <2>5, <3>1 DEF Headed
    <3>3. /\ p \in Responses(AUnit) /\ Len(p.buffer) <= BufferSize /\ SameBut(w, p)
          /\ ~p.failed => Intact(p, n)
      BY <2>1, <2>5, <2>7, <3>2, PutIntact
    <3> HIDE DEF p
    <3>4. /\ p.header = w.header /\ p.skip = w.skip /\ p.chunked = w.chunked
          /\ p.announced = w.announced /\ Announce(p) = Announce(w)
          /\ p.set = w.set /\ p.length = w.length
      BY <3>3, SameAnnounced DEF SameBut
    <3>5. Headed(p, n)
      BY <2>5, <3>1, <3>3, <3>4 DEF Headed
    <3>6. Shape(p, n)
      BY <2>5, <3>3, <3>4, <3>5 DEF Shape
    <3> QED
      BY <2>2, <2>3, <2>5, <2>7, <3>4, <3>6 DEF f
  <2> QED
    BY <2>6, <2>7
<1> QED
  BY <1>2, <1>3, <1>4

\* What a write puts into the buffer is content that waits there.
LEMMA FillShape ==
  ASSUME request \in Requests, NEW n \in Nat, NEW k \in Nat, NEW r, Shape(r, n),
         Len(r.buffer) + k <= BufferSize
  PROVE  LET f == [r EXCEPT !.buffer = @ \o Units("body", n, k)] IN
         /\ Shape(f, n + k)
         /\ SameBut(r, f)
         /\ Len(f.buffer) = Len(r.buffer) + k
<1> DEFINE u == Units("body", n, k)
           b == r.buffer \o u
           f == [r EXCEPT !.buffer = b]
<1>1. r \in Responses(AUnit) /\ Word \in Nat /\ r.buffer \in Seq(AUnit) /\ r.wire \in Seq(AUnit)
  BY SizesFit DEF Shape, Responses
<1>2. u \in Seq(AUnit) /\ Len(u) = k
  <2>1. u \in Seq(AUnit)
    BY UnitsTyped
  <2> QED
    BY <2>1 DEF Units
<1>3. b \in Seq(AUnit) /\ Len(b) = Len(r.buffer) + k
  <2> HIDE DEF u
  <2> QED
    BY <1>1, <1>2, ConcatLen
<1> HIDE DEF b
<1>4. /\ f \in Responses(AUnit) /\ SameBut(r, f) /\ f.buffer = b
      /\ f.wire = r.wire /\ f.sent = r.sent /\ f.failed = r.failed
  BY <1>1, <1>3 DEF Responses, SameBut
<1> HIDE DEF f, u
<1>5. /\ f.header = r.header /\ f.skip = r.skip /\ f.chunked = r.chunked
      /\ f.announced = r.announced /\ Announce(f) = Announce(r)
  BY <1>4, SameAnnounced DEF SameBut
<1>6. Whole(n) \o u = Whole(n + k) /\ Whole(n) \in Seq(AUnit)
  <2>1. Units("body", 0, n) \o Units("body", 0 + n, k) = Units("body", 0, n + k)
    <3>1. 0 \in Nat
      OBVIOUS
    <3> QED
      BY <3>1, UnitsContinue, Zenon
  <2>2. 0 + n = n
    OBVIOUS
  <2>3. Units("body", 0, n) \in Seq(AUnit)
    BY UnitsTyped
  <2> QED
    BY <2>1, <2>2, <2>3 DEF Whole, u
<1>7. CASE ~r.header
  <2>1. Unheaded(r, n)
    BY <1>7 DEF Shape
  <2>2. b = Whole(n + k)
    BY <1>6, <2>1 DEF Unheaded, b
  <2>3. Unheaded(f, n + k)
    BY <1>4, <1>5, <2>1, <2>2 DEF Unheaded
  <2>4. Shape(f, n + k)
    BY <1>3, <1>4, <1>5, <1>7, <2>3 DEF Shape
  <2> QED
    BY <1>3, <1>4, <2>4 DEF f, b, u
<1>8. CASE r.header
  <2>1. Headed(r, n)
    BY <1>8 DEF Shape
  <2>2. ~f.failed /\ ~request.head => Intact(f, n + k)
    <3> SUFFICES ASSUME ~f.failed, ~request.head PROVE Intact(f, n + k)
      OBVIOUS
    <3>1. Intact(r, n)
      BY <1>4, <2>1 DEF Headed
    <3>2. f.sent + Len(f.buffer) \in {n + k, (n + k) + Word}
      <4> DEFINE q == r.sent
                 l == Len(r.buffer)
      <4>1. /\ q \in Nat /\ l \in Nat /\ q + l \in {n, n + Word}
            /\ f.sent = q /\ Len(f.buffer) = l + k
        BY <1>1, <1>3, <1>4, <3>1 DEF Intact, Responses
      <4> HIDE DEF q, l
      <4> QED
        BY <1>1, <4>1
    <3>3. CASE r.chunked
      <4> DEFINE l == Len(r.buffer)
                 m == n - Len(r.buffer)
                 after == SubSeq(r.wire, request.header + 1, Len(r.wire))
      <4>1. m \in Nat /\ r.buffer = Units("body", m, l) /\ r.wire = HeaderUnits \o after
            /\ InChunks(after, m)
        BY <3>1, <3>3 DEF Intact
      <4>2. l \in Nat /\ m + l = n
        BY <1>1
      <4>3. b = Units("body", m, l + k)
        <5> HIDE DEF m, l
        <5>1. Units("body", m, l) \o Units("body", m + l, k) = Units("body", m, l + k)
          BY <4>1, <4>2, UnitsContinue, Zenon
        <5> QED
          BY <4>1, <4>2, <5>1 DEF b, u
      <4>4. (n + k) - Len(b) = m /\ Len(b) = l + k
        BY <1>1, <1>3, <4>2
      <4> HIDE DEF m, after, l
      <4> QED
        BY <1>4, <1>5, <3>2, <3>3, <4>1, <4>3, <4>4 DEF Intact, after
    <3>4. CASE ~r.chunked
      <4>1. r.wire \o r.buffer = HeaderUnits \o Whole(n)
        BY <3>1, <3>4 DEF Intact
      <4>2. r.wire \o b = HeaderUnits \o Whole(n + k)
        <5> DEFINE s == r.wire
                   t == r.buffer
                   H == HeaderUnits
                   W == Whole(n)
        <5>1. s \in Seq(AUnit) /\ t \in Seq(AUnit) /\ H \in Seq(AUnit) /\ W \in Seq(AUnit)
              /\ s \o t = H \o W /\ u \in Seq(AUnit)
          BY <1>1, <1>2, <1>6, <4>1, HeadersAre
        <5> HIDE DEF s, t, H, W
        <5>2. (s \o t) \o u = s \o (t \o u)
          <6>1. s \in Seq(AUnit) /\ t \in Seq(AUnit) /\ u \in Seq(AUnit)
            BY <5>1
          <6> QED
            BY ONLY <6>1, ConcatAssoc
        <5>3. (H \o W) \o u = H \o (W \o u)
          BY ONLY <5>1, ConcatAssoc
        <5>4. s \o (t \o u) = H \o (W \o u)
          BY <5>1, <5>2, <5>3
        <5> QED
          BY <1>6, <5>4 DEF s, t, H, W, b
      <4> QED
        BY <1>4, <1>5, <3>2, <3>4, <4>2 DEF Intact
    <3> QED
      BY <3>3, <3>4
  <2>3. Headed(f, n + k)
    BY <1>4, <1>5, <2>1, <2>2 DEF Headed
  <2>4. Shape(f, n + k)
    BY <1>3, <1>4, <1>5, <1>8, <2>3 DEF Shape
  <2> QED
    BY <1>3, <1>4, <2>4 DEF f, b, u
<1> QED
  BY <1>7, <1>8

\* Setting a length changes nothing else, and nothing that was announced.
LEMMA SetLengthShape ==
  ASSUME request \in Requests, NEW n \in Nat, NEW r, Shape(r, n), ~r.header, NEW k \in Nat
  PROVE  LET s == SetLength(r, k) IN
         /\ Shape(s, n) /\ ~s.header /\ s.buffer = r.buffer
         /\ s.set /\ s.length = k % Word
<1> DEFINE x == k % Word
           s == [r EXCEPT !.length = x, !.set = TRUE]
<1>1. Word \in Nat /\ Word > 0
  BY SizesFit
<1>2. x \in 0..Word - 1
  BY <1>1
<1>3. SetLength(r, k) = s
  BY DEF SetLength
<1> HIDE DEF x
<1>4. r \in Responses(AUnit) /\ Len(r.buffer) <= BufferSize /\ Unheaded(r, n)
  BY DEF Shape
<1>5. /\ s \in Responses(AUnit) /\ ~s.header /\ s.buffer = r.buffer /\ s.set /\ s.length = x
      /\ s.wire = r.wire /\ s.sent = r.sent /\ s.failed = r.failed /\ s.skip = r.skip
      /\ s.chunked = r.chunked
  <2> DEFINE y == [r EXCEPT !.length = x]
  <2>1. /\ y \in Responses(AUnit) /\ ~y.header /\ y.buffer = r.buffer /\ y.length = x
        /\ y.wire = r.wire /\ y.sent = r.sent /\ y.failed = r.failed /\ y.skip = r.skip
        /\ y.chunked = r.chunked
    BY <1>2, <1>4 DEF Responses
  <2>2. s = [y EXCEPT !.set = TRUE]
    OBVIOUS
  <2> HIDE DEF y, s
  <2> QED
    BY <2>1, <2>2 DEF Responses
<1> HIDE DEF s
<1>6. Unheaded(s, n)
  BY <1>4, <1>5 DEF Unheaded
<1>7. Shape(s, n)
  BY <1>4, <1>5, <1>6 DEF Shape
<1> QED
  BY <1>3, <1>5, <1>7 DEF x

\* When a handler is done the length is what waits in the buffer, if all of it does.
LEMMA CompleteLengthShape ==
  ASSUME request \in Requests, NEW n \in Nat, n <= MaxBody, NEW r, Shape(r, n)
  PROVE  LET c == CompleteLength(r) IN
         /\ Shape(c, n)
         /\ r.header => c = r
         /\ ~r.header => ~c.header /\ c.buffer = r.buffer
         /\ \/ c.set = r.set /\ c.length = r.length
            \/ c.set /\ c.length = n
<1>1. r \in Responses(AUnit) /\ r.buffer \in Seq(AUnit) /\ Word \in Nat /\ n < Word
  BY SizesFit DEF Shape, Responses
<1>2. CASE ~r.header /\ Len(r.buffer) < BufferSize
  <2>1. CompleteLength(r) = SetLength(r, Len(r.buffer))
    BY <1>2 DEF CompleteLength
  <2>2. Len(r.buffer) = n
    <3>1. r.buffer = Whole(n)
      BY <1>2 DEF Shape, Unheaded
    <3> QED
      BY <3>1 DEF Whole, Units
  <2>3. /\ Shape(SetLength(r, n), n) /\ ~SetLength(r, n).header
        /\ SetLength(r, n).buffer = r.buffer
        /\ SetLength(r, n).set /\ SetLength(r, n).length = n % Word
    BY <1>2, SetLengthShape
  <2>4. n % Word = n
    BY <1>1
  <2> QED
    BY <1>2, <2>1, <2>2, <2>3, <2>4
<1>3. CASE ~(~r.header /\ Len(r.buffer) < BufferSize)
  <2>1. CompleteLength(r) = r
    BY <1>3 DEF CompleteLength
  <2> QED
    BY <2>1
<1> QED
  BY <1>2, <1>3
-----------------------------------------------------------------------------
(* What the client gets *)

\* The order of the content, and its count, in the shape of a response.
LEMMA ShapeInOrder ==
  ASSUME request \in Requests, NEW n \in Nat, n <= MaxBody, NEW r, Shape(r, n)
  PROVE  /\ ~r.failed /\ ~r.skip => Written(r.wire \o r.buffer, 0, n)
         /\ request.head => Contents(r.wire) = {}
         /\ ~r.failed /\ ~r.skip /\ r.header =>
              (r.sent + Len(r.buffer)) % Word = n % Word
<1>1. r \in Responses(AUnit) /\ Word \in Nat /\ r.buffer \in Seq(AUnit) /\ r.wire \in Seq(AUnit)
      /\ r.sent \in Nat /\ Len(r.buffer) \in Nat /\ n < Word
  BY SizesFit DEF Shape, Responses
<1>2. /\ HeaderUnits \in Seq(AUnit) /\ Len(HeaderUnits) = request.header
      /\ Written(HeaderUnits, 0, 0)
  <2>1. \A i \in 1..Len(HeaderUnits) : HeaderUnits[i].kind # "body"
    BY HeadersAre
  <2> QED
    BY <2>1, HeadersAre, WrittenNone
<1>3. Whole(n) \in Seq(AUnit) /\ Written(Whole(n), 0, n)
  BY UnitsTyped, WrittenRun DEF Whole
<1>4. CASE ~r.header
  <2>1. r.wire = <<>> /\ r.buffer = Whole(n)
    BY <1>4 DEF Shape, Unheaded
  <2>2. <<>> \o Whole(n) = Whole(n)
    <3> DEFINE W == Whole(n)
    <3>1. W \in Seq(AUnit)
      BY <1>3
    <3> HIDE DEF W
    <3> QED
      BY <3>1, ConcatEmpty DEF W
  <2>3. Contents(<<>>) = {}
    BY DEF Contents
  <2> QED
    BY <1>3, <1>4, <2>1, <2>2, <2>3
<1>5. CASE r.header
  <2>1. Headed(r, n)
    BY <1>5 DEF Shape
  <2>2. request.head => Contents(r.wire) = {}
    <3> SUFFICES ASSUME request.head PROVE Contents(r.wire) = {}
      OBVIOUS
    <3>1. r.wire \in Seq(HUnit)
      BY <2>1 DEF Headed, HUnit
    <3>2. \A i \in 1..Len(r.wire) : r.wire[i] \in HUnit
      BY <3>1
    <3>3. \A u \in HUnit : u.kind # "body"
      BY DEF HUnit
    <3> QED
      BY <3>2, <3>3 DEF Contents
  <2>3. ASSUME ~r.failed, ~r.skip
        PROVE  /\ Written(r.wire \o r.buffer, 0, n)
               /\ (r.sent + Len(r.buffer)) % Word = n % Word
    <3>1. Intact(r, n)
      BY <2>1, <2>3 DEF Headed
    <3>2. (r.sent + Len(r.buffer)) % Word = n % Word
      <4> DEFINE q == r.sent
                 l == Len(r.buffer)
      <4>1. q \in Nat /\ l \in Nat /\ q + l \in {n, n + Word}
        BY <1>1, <3>1 DEF Intact
      <4> HIDE DEF q, l
      <4>2. (q + l) % Word = n /\ n % Word = n
        BY <1>1, <4>1, CountIs
      <4> QED
        BY <4>2 DEF q, l
    <3>3. 0 + 0 = 0 /\ 0 + n = n /\ 0 \in Nat
      OBVIOUS
    <3>4. CASE ~r.chunked
      <4>1. r.wire \o r.buffer = HeaderUnits \o Whole(n)
        BY <3>1, <3>4 DEF Intact
      <4>2. Written(Whole(n), 0 + 0, n)
        BY <1>3, <3>3
      <4>3. Written(HeaderUnits \o Whole(n), 0, 0 + n)
        <5> DEFINE H == HeaderUnits
                   W == Whole(n)
        <5>1. H \in Seq(AUnit) /\ W \in Seq(AUnit) /\ Written(H, 0, 0) /\ Written(W, 0 + 0, n)
          BY <1>2, <1>3, <4>2
        <5> HIDE DEF H, W
        <5>2. Written(H \o W, 0, 0 + n)
          BY <3>3, <5>1, WrittenOn
        <5> QED
          BY <5>2 DEF H, W
      <4> QED
        BY <3>2, <3>3, <4>1, <4>3
    <3>5. CASE r.chunked
      <4> DEFINE l == Len(r.buffer)
                 m == n - Len(r.buffer)
                 after == SubSeq(r.wire, request.header + 1, Len(r.wire))
      <4>1. m \in Nat /\ r.buffer = Units("body", m, l) /\ r.wire = HeaderUnits \o after
            /\ InChunks(after, m)
        BY <3>1, <3>5 DEF Intact
      <4>2. after \in Seq(AUnit) /\ l \in Nat /\ m + l = n
        <5>1. l \in Nat /\ m + l = n
          BY <1>1
        <5>2. after \in Seq(AUnit)
          <6>1. request.header \in Nat
            BY SizesFit
          <6> QED
            BY <1>1, <6>1, RestTyped
        <5> QED
          BY <5>1, <5>2
      <4>3. Written(after, 0, m)
        BY <4>1 DEF InChunks
      <4>4. Written(r.buffer, m, l)
        <5> HIDE DEF m, l
        <5> QED
          BY <4>1, <4>2, WrittenRun
      <4> HIDE DEF after, m, l
      <4>5. Written(HeaderUnits \o after, 0, 0 + m)
        <5> DEFINE H == HeaderUnits
        <5>1. H \in Seq(AUnit) /\ Written(H, 0, 0) /\ Written(after, 0 + 0, m)
          BY <1>2, <3>3, <4>3
        <5> HIDE DEF H
        <5>2. Written(H \o after, 0, 0 + m)
          BY <3>3, <4>1, <4>2, <5>1, WrittenOn
        <5> QED
          BY <5>2 DEF H
      <4>6. Written(r.wire \o r.buffer, 0, m + l)
        <5> DEFINE w == r.wire
                   b == r.buffer
        <5>1. 0 + m = m
          BY <4>1
        <5>2. w \in Seq(AUnit) /\ b \in Seq(AUnit) /\ Written(w, 0, m) /\ Written(b, 0 + m, l)
          BY <1>1, <4>1, <4>4, <4>5, <5>1
        <5> HIDE DEF w, b
        <5>3. Written(w \o b, 0, m + l)
          BY <3>3, <4>1, <4>2, <5>2, WrittenOn
        <5> QED
          BY <5>3 DEF w, b
      <4> QED
        BY <3>2, <4>2, <4>6
    <3> QED
      BY <3>4, <3>5
  <2> QED
    BY <1>5, <2>2, <2>3
<1> QED
  BY <1>4, <1>5

\* What is on the wire is the headers, and what stands behind them.
LEMMA HeadersThen ==
  ASSUME request \in Requests, NEW after \in Seq(AUnit),
         \A i \in 1..Len(after) : after[i].kind # "header"
  PROVE  LET wire == HeaderUnits \o after IN
         /\ wire \in Seq(AUnit)
         /\ Len(wire) >= request.header
         /\ Len(wire) = request.header + Len(after)
         /\ \A i \in 1..Len(wire) : wire[i].kind = "header" <=> i <= request.header
         /\ SubSeq(wire, request.header + 1, Len(wire)) = after
<1> DEFINE H == HeaderUnits
           h == request.header
           wire == H \o after
<1>1. H \in Seq(AUnit) /\ Len(H) = h /\ \A i \in 1..Len(H) : H[i].kind = "header"
  BY HeadersAre
<1> HIDE DEF H, h
<1>2. wire \in Seq(AUnit) /\ Len(wire) = h + Len(after) /\ h \in Nat /\ Len(after) \in Nat
  BY <1>1
<1>3. SubSeq(wire, h + 1, Len(wire)) = after
  BY <1>1, PartWhole
<1>4. ASSUME NEW i \in 1..Len(wire) PROVE wire[i].kind = "header" <=> i <= h
  <2>1. CASE i <= h
    BY <1>1, <1>2, <2>1
  <2>2. CASE i > h
    <3>1. i - h \in 1..Len(after)
      BY <1>2, <2>2
    <3>2. wire[i] = after[i - h]
      BY <1>1, <1>2, <2>2
    <3> QED
      BY <1>2, <2>2, <3>1, <3>2
  <2> QED
    BY <1>2, <2>1, <2>2
<1>5. Len(wire) >= h
  BY <1>2
<1> QED
  BY <1>2, <1>3, <1>4, <1>5 DEF H, h

\* The chunks end.
LEMMA ChunksEnd ==
  ASSUME NEW s \in Seq(AUnit), NEW n \in Nat, InChunks(s, n)
  PROVE  LET t == s \o Mark("last", 0) IN
         /\ t \in Seq(AUnit)
         /\ Readers(t)[Len(t)] = [waits |-> "nothing", left |-> 0, got |-> Whole(n)]
         /\ \A i \in 1..Len(t) : t[i].kind # "header"
<1> DEFINE u == [kind |-> "last", v |-> 0]
           last == Mark("last", 0)
           x == [waits |-> "size", left |-> 0, got |-> Whole(n)]
<1>1. last = <<u>> /\ u \in AUnit /\ last \in Seq(AUnit) /\ Len(last) = 1 /\ last[1].kind = "last"
  BY MarkIs
<1>2. Readers(s)[Len(s)] = x /\ \A i \in 1..Len(s) : s[i].kind # "header"
  BY DEF InChunks
<1>3. ReadChunked(x, u) = [x EXCEPT !.waits = "nothing"]
  BY DEF ReadChunked
<1> HIDE DEF u, last
<1>4. Readers(s \o last)[Len(s \o last)] = ReadChunked(x, u)
  BY <1>1, <1>2, ReadersAppend
<1>5. s \o last \in Seq(AUnit) /\ \A i \in 1..Len(s \o last) : (s \o last)[i].kind # "header"
  BY <1>1, <1>2
<1> QED
  BY <1>3, <1>4, <1>5 DEF last

\* What onion_response_free leaves on the wire, unless the socket has failed.
LEMMA EndIs ==
  ASSUME request \in Requests, NEW n \in Nat, n <= MaxBody,
         NEW r, r.header, Shape(r, n), ~r.failed /\ ~r.skip => r.buffer = <<>>
  PROVE  LET e == IF r.chunked THEN Send(r, Mark("last", 0)) ELSE r
             after == SubSeq(e.wire, request.header + 1, Len(e.wire))
         IN
         /\ e \in Responses(AUnit) /\ SameBut(r, e)
         /\ e.buffer = r.buffer /\ e.sent = r.sent
         /\ ~e.failed => ~r.failed
         /\ request.head => e = r
         /\ ~e.failed =>
              /\ after \in Seq(AUnit) /\ e.wire = HeaderUnits \o after
              /\ \A i \in 1..Len(after) : after[i].kind # "header"
              /\ request.head => after = <<>>
              /\ ~request.head /\ r.chunked =>
                   Readers(after)[Len(after)] =
                     [waits |-> "nothing", left |-> 0, got |-> Whole(n)]
              /\ ~request.head /\ ~r.chunked => after = Whole(n)
              /\ ~request.head => Written(e.wire \o e.buffer, 0, n)
<1> DEFINE e == IF r.chunked THEN Send(r, Mark("last", 0)) ELSE r
           last == Mark("last", 0)
           AtEnd(after) ==
              /\ after \in Seq(AUnit) /\ e.wire = HeaderUnits \o after
              /\ \A i \in 1..Len(after) : after[i].kind # "header"
              /\ request.head => after = <<>>
              /\ ~request.head /\ r.chunked =>
                   Readers(after)[Len(after)] =
                     [waits |-> "nothing", left |-> 0, got |-> Whole(n)]
              /\ ~request.head /\ ~r.chunked => after = Whole(n)
<1>1. /\ r \in Responses(AUnit) /\ Headed(r, n)
      /\ r.wire \in Seq(AUnit) /\ r.buffer \in Seq(AUnit)
      /\ r.skip = request.head /\ r.chunked = (~request.head /\ r.announced.chunked)
  BY DEF Shape, Headed, Responses
<1>2. last \in Seq(AUnit) /\ last # <<>> /\ \A i \in 1..Len(last) : last[i].kind # "body"
  <2>1. last \in Seq(AUnit) /\ Len(last) = 1 /\ last[1].kind = "last"
    BY MarkIs
  <2> HIDE DEF last
  <2>2. last # <<>>
    BY <2>1
  <2> QED
    BY <2>1, <2>2
<1>3. /\ e \in Responses(AUnit) /\ SameBut(r, e) /\ e.buffer = r.buffer /\ e.sent = r.sent
      /\ ~e.failed => ~r.failed
      /\ ~e.failed /\ r.chunked => e.wire = r.wire \o last
      /\ ~r.chunked => e = r
  <2>1. CASE r.chunked
    <3>1. e = Send(r, last)
      BY <2>1
    <3> HIDE DEF last, e
    <3>2. /\ Send(r, last) \in Responses(AUnit) /\ SameBut(r, Send(r, last))
          /\ Send(r, last).buffer = r.buffer /\ Send(r, last).sent = r.sent
          /\ r.failed => Send(r, last).failed
          /\ ~Send(r, last).failed => Send(r, last).wire = r.wire \o last
      BY <1>1, <1>2, SendIs
    <3> QED
      BY <2>1, <3>1, <3>2
  <2>2. CASE ~r.chunked
    <3>1. e = r
      BY <2>2
    <3>2. SameBut(r, r)
      BY DEF SameBut
    <3> HIDE DEF e
    <3> QED
      BY <1>1, <2>2, <3>1, <3>2
  <2> QED
    BY <2>1, <2>2
<1>4. request.head => e = r
  BY <1>1, <1>3
<1>5. Whole(n) \in Seq(AUnit) /\ \A i \in 1..Len(Whole(n)) : Whole(n)[i].kind # "header"
  <2>1. Whole(n) \in Seq(AUnit)
    BY UnitsTyped DEF Whole
  <2>2. \A i \in 1..Len(Whole(n)) : Whole(n)[i].kind # "header"
    BY DEF Whole, Units
  <2> QED
    BY <2>1, <2>2
<1>6. HeaderUnits \in Seq(AUnit) /\ Len(HeaderUnits) = request.header /\ request.header \in Nat
  BY HeadersAre, SizesFit
<1> HIDE DEF e, last
<1>7. ASSUME ~e.failed PROVE \E after : AtEnd(after)
  <2>1. ~r.failed
    BY <1>3, <1>7
  <2>2. CASE request.head
    <3>1. e.wire = HeaderUnits
      BY <1>1, <1>4, <2>1, <2>2 DEF Headed
    <3>2. HeaderUnits \o <<>> = HeaderUnits
      <4> DEFINE H == HeaderUnits
      <4>1. H \in Seq(AUnit)
        BY <1>6
      <4> HIDE DEF H
      <4> QED
        BY <4>1, ConcatEmpty DEF H
    <3>3. <<>> \in Seq(AUnit) /\ \A i \in 1..Len(<<>>) : FALSE
      OBVIOUS
    <3>4. AtEnd(<<>>)
      BY <2>2, <3>1, <3>2, <3>3
    <3> HIDE DEF AtEnd
    <3> QED
      BY <3>4
  <2>3. CASE ~request.head
    <3>1. Intact(r, n) /\ r.buffer = <<>>
      BY <1>1, <2>1, <2>3 DEF Headed
    <3>2. CASE ~r.chunked
      <4>1. r.wire \o r.buffer = HeaderUnits \o Whole(n)
        BY <3>1, <3>2 DEF Intact
      <4>2. r.wire \o <<>> = r.wire
        BY <1>1, ConcatEmpty
      <4>3. e.wire = HeaderUnits \o Whole(n)
        BY <1>3, <3>1, <3>2, <4>1, <4>2
      <4>4. AtEnd(Whole(n))
        BY <1>5, <2>3, <3>2, <4>3
      <4> HIDE DEF AtEnd
      <4> QED
        BY <4>4
    <3>3. CASE r.chunked
      <4> DEFINE s == SubSeq(r.wire, request.header + 1, Len(r.wire))
      <4>1. r.wire = HeaderUnits \o s /\ InChunks(s, n)
        <5>1. Len(r.buffer) = 0 /\ n - 0 = n
          BY <3>1
        <5> QED
          BY <3>1, <3>3, <5>1 DEF Intact
      <4>2. s \in Seq(AUnit)
        BY <1>1, <1>6, RestTyped
      <4> HIDE DEF s
      <4> DEFINE t == s \o last
      <4>3. /\ t \in Seq(AUnit)
            /\ Readers(t)[Len(t)] = [waits |-> "nothing", left |-> 0, got |-> Whole(n)]
            /\ \A i \in 1..Len(t) : t[i].kind # "header"
        BY <4>1, <4>2, ChunksEnd DEF last
      <4>4. (HeaderUnits \o s) \o last = HeaderUnits \o t
        <5> DEFINE H == HeaderUnits
        <5>1. H \in Seq(AUnit)
          BY <1>6
        <5> HIDE DEF H
        <5>2. (H \o s) \o last = H \o (s \o last)
          BY <1>2, <4>2, <5>1, ConcatAssoc
        <5> QED
          BY <5>2 DEF H
      <4>5. e.wire = HeaderUnits \o t
        BY <1>3, <1>7, <3>3, <4>1, <4>4
      <4> HIDE DEF t
      <4>6. AtEnd(t)
        BY <2>3, <3>3, <4>3, <4>5
      <4> HIDE DEF AtEnd
      <4> QED
        BY <4>6
    <3> QED
      BY <3>2, <3>3
  <2> QED
    BY <2>2, <2>3
<1> DEFINE rest == SubSeq(e.wire, request.header + 1, Len(e.wire))
<1>8. ASSUME ~e.failed PROVE AtEnd(rest)
  <2>1. PICK after : AtEnd(after)
    BY <1>7, <1>8
  <2>2. rest = after
    <3> DEFINE wire == HeaderUnits \o after
    <3>1. SubSeq(wire, request.header + 1, Len(wire)) = after
      BY <2>1, HeadersThen
    <3>2. e.wire = wire
      BY <2>1
    <3> HIDE DEF wire
    <3> QED
      BY <3>1, <3>2
  <2> HIDE DEF AtEnd, rest
  <2> QED
    BY <2>1, <2>2
<1>9. ASSUME ~e.failed, ~request.head PROVE Written(e.wire \o e.buffer, 0, n)
  <2>1. ~r.failed /\ r.buffer = <<>> /\ ~r.skip
    BY <1>1, <1>3, <1>9
  <2>2. Written(r.wire \o r.buffer, 0, n) /\ r.wire \o <<>> = r.wire
    BY <1>1, <2>1, ShapeInOrder, ConcatEmpty
  <2>3. CASE ~r.chunked
    BY <1>3, <2>2, <2>3
  <2>4. CASE r.chunked
    <3> DEFINE w == r.wire
    <3>1. 0 \in Nat /\ 0 + n = n /\ n + 0 = n
      OBVIOUS
    <3>2. w \in Seq(AUnit) /\ Written(w, 0, n) /\ Written(last, 0 + n, 0)
      BY <1>1, <1>2, <2>1, <2>2, <3>1, WrittenNone
    <3>3. e.wire = w \o last /\ e.buffer = <<>>
      BY <1>3, <1>9, <2>1, <2>4
    <3> HIDE DEF w
    <3>4. Written(w \o last, 0, n + 0)
      BY <1>2, <3>1, <3>2, WrittenOn
    <3>5. (w \o last) \o <<>> = w \o last
      <4> DEFINE x == w \o last
      <4>1. x \in Seq(AUnit)
        BY <1>2, <3>2, ConcatLen
      <4> HIDE DEF x
      <4> QED
        BY <4>1, ConcatEmpty DEF x
    <3> QED
      BY <3>1, <3>3, <3>4, <3>5
  <2> QED
    BY <2>3, <2>4
<1> QED
  BY <1>3, <1>4, <1>8, <1>9 DEF e, last
-----------------------------------------------------------------------------
(* The invariant *)

\* What the run of the model assumes of handlers: headers are written before content,
\* and a response is given to another thread only behind its headers.
Mannered == Tidy /\ YieldsLate

\* The shape of the next state.
LEMMA ShapePrimed ==
  request' = request /\ Shape(res', body') => Shape(res, body)'
BY DEF Shape, Unheaded, Headed, Intact, Announce, HeaderUnits

\* What a step that does not free the response has to show.
LEMMA Assemble ==
  ASSUME request \in Requests, request' = request,
         pc' \in {"handler", "writing", "flushing", "returned"},
         yielded' \in BOOLEAN, body' \in 0..MaxBody, pending' \in 0..MaxBody,
         claimed' \in Nat \cup {None}, status' = None,
         Shape(res', body'),
         res'.set => \/ claimed' # None /\ res'.length = claimed' % Word
                     \/ pc' = "returned" /\ res'.length = body',
         pc' \in {"writing", "flushing"} => body' + pending' <= MaxBody,
         yielded' => res'.header,
         pc' = "returned" /\ ~res'.header => res'.buffer = <<>>
  PROVE  ResponseInv'
<1>1. TypeOK'
  <2>1. res' \in Responses(AUnit) /\ Len(res'.buffer) <= BufferSize
    BY DEF Shape
  <2>2. request' \in Requests
    OBVIOUS
  <2> QED
    BY <2>1, <2>2 DEF TypeOK
<1>2. UnderWay'
  BY ShapePrimed DEF UnderWay, LengthKnown
<1>3. pc' # "freed"
  OBVIOUS
<1> QED
  BY <1>1, <1>2, <1>3 DEF ResponseInv

\* A new response is as the invariant says.
LEMMA ResponseInvInit == Init => ResponseInv
<1> SUFFICES ASSUME Init PROVE ResponseInv
  OBVIOUS
<1>1. request \in Requests /\ body = 0 /\ claimed = None /\ yielded = FALSE /\ pending = 0
      /\ pc = "handler" /\ status = None
  BY DEF Init
<1>2. BufferSize \in Nat /\ Word \in Nat /\ Word > 0 /\ MaxBody \in Nat
  BY <1>1, SizesFit
<1>3. PICK room \in Rooms : res = New(room)
  BY DEF Init
<1>4. room \in Nat
  BY ResponseAssumption
<1>5. NoHeaders \in [length : Nat \cup {None}, chunked : BOOLEAN, close : BOOLEAN]
  BY DEF NoHeaders
<1>6. res \in Responses(AUnit)
  <2>1. <<>> \in Seq(AUnit) /\ 0 \in 0..Word - 1
    BY <1>2
  <2> HIDE DEF NoHeaders
  <2> QED
    BY <1>3, <1>4, <1>5, <2>1 DEF New, Responses
<1>7. /\ res.buffer = <<>> /\ res.wire = <<>> /\ res.sent = 0 /\ ~res.failed /\ ~res.skip
      /\ ~res.chunked /\ ~res.header /\ ~res.set
  BY <1>3 DEF New
<1>8. Shape(res, 0)
  <2>1. Whole(0) = <<>>
    BY NoUnits DEF Whole
  <2>2. Len(<<>>) <= BufferSize
    BY <1>2
  <2> QED
    BY <1>6, <1>7, <2>1, <2>2 DEF Shape, Unheaded
<1>9. TypeOK
  <2>1. Len(res.buffer) <= BufferSize
    BY <1>8 DEF Shape
  <2>2. body \in 0..MaxBody /\ pending \in 0..MaxBody
    <3>1. 0 \in 0..MaxBody
      BY <1>2
    <3> QED
      BY <1>1, <3>1
  <2> QED
    BY <1>1, <1>6, <2>1, <2>2, Zenon DEF TypeOK
<1>10. UnderWay
  BY <1>1, <1>7, <1>8 DEF UnderWay, LengthKnown
<1> QED
  BY <1>1, <1>9, <1>10 DEF ResponseInv

\* What the invariant says while the response is under way.
LEMMA Going ==
  ASSUME ResponseInv, pc # "freed"
  PROVE  /\ request \in Requests /\ body \in Nat /\ body <= MaxBody
         /\ pending \in 0..MaxBody /\ MaxBody \in Nat
         /\ yielded \in BOOLEAN /\ claimed \in Nat \cup {None} /\ status = None
         /\ Shape(res, body) /\ LengthKnown(res)
         /\ pc \in {"writing", "flushing"} => body + pending <= MaxBody
         /\ yielded => res.header
         /\ pc = "returned" /\ ~res.header => res.buffer = <<>>
         /\ res \in Responses(AUnit) /\ Len(res.buffer) \in Nat
         /\ Len(res.buffer) <= BufferSize /\ BufferSize \in Nat
<1>1. TypeOK /\ UnderWay
  BY DEF ResponseInv
<1>2. request \in Requests
  BY <1>1 DEF TypeOK
<1>3. MaxBody \in Nat /\ BufferSize \in Nat
  BY <1>2, SizesFit
<1>4. res \in Responses(AUnit) /\ Len(res.buffer) \in Nat /\ Len(res.buffer) <= BufferSize
  BY <1>1 DEF TypeOK, Responses
<1> QED
  BY <1>1, <1>2, <1>3, <1>4 DEF TypeOK, UnderWay

\* The steps, one lemma each: the handler sets the length,
LEMMA SetsLengthKeeps ==
  ASSUME ResponseInv, Mannered, NEW n \in Lengths, HandlerSetsLength(n)
  PROVE  ResponseInv'
<1>1. pc = "handler" /\ pc # "freed"
  BY DEF HandlerSetsLength
<1>2. n \in Nat
  BY ResponseAssumption
<1>3. /\ UNCHANGED <<request, body, yielded, pending, pc, status>>
      /\ res' = SetLength(res, n)
      /\ claimed' = IF res.header THEN claimed ELSE n
      /\ res.header => n # res.sent
  BY DEF HandlerSetsLength, Mannered
<1>4. CASE res.header
  <2>1. res' = res /\ claimed' = claimed
    BY <1>3, <1>4 DEF SetLength
  <2> QED
    BY <1>1, <1>3, <2>1, Going, Assemble DEF LengthKnown
<1>5. CASE ~res.header
  <2>1. /\ Shape(res', body) /\ ~res'.header /\ res'.buffer = res.buffer
        /\ res'.set /\ res'.length = n % Word
    BY <1>1, <1>2, <1>3, <1>5, Going, SetLengthShape
  <2>2. claimed' = n /\ n # None
    BY <1>2, <1>3, <1>5, ResponseAssumption
  <2>3. ~yielded
    BY <1>1, <1>5, Going
  <2> QED
    BY <1>1, <1>2, <1>3, <2>1, <2>2, <2>3, Going, Assemble
<1> QED
  BY <1>4, <1>5

\* it writes the headers, before any content when it is mannered,
LEMMA WritesHeadersKeeps ==
  ASSUME ResponseInv, Mannered, HandlerWritesHeaders
  PROVE  ResponseInv'
<1>1. /\ pc = "handler" /\ pc # "freed" /\ ~res.header /\ res.buffer = <<>>
      /\ res' = WriteHeaders(res)
      /\ UNCHANGED <<request, body, claimed, yielded, pending, pc, status>>
  BY DEF HandlerWritesHeaders, Mannered
<1>2. Unheaded(res, body) /\ res.buffer = Whole(body) /\ res \in Responses(AUnit)
  BY <1>1, Going DEF Shape, Unheaded
<1>3. body = 0
  <2>1. Len(Whole(body)) = body
    <3>1. body \in Nat
      BY <1>1, Going
    <3> QED
      BY <3>1 DEF Whole, Units
  <2> QED
    BY <1>1, <1>2, <2>1
<1>4. /\ res' \in Responses(AUnit) /\ Len(res'.buffer) <= BufferSize
      /\ res'.header /\ res'.set = res.set /\ res'.length = res.length
      /\ Headed(res', 0)
  <2>1. request \in Requests
    BY <1>1, Going
  <2> QED
    BY <1>1, <1>2, <1>3, <2>1, WriteHeadersShape
<1>5. Shape(res', body')
  BY <1>1, <1>3, <1>4 DEF Shape
<1> QED
  BY <1>1, <1>4, <1>5, Going, Assemble DEF LengthKnown

\* it flushes,
LEMMA FlushesKeeps ==
  ASSUME ResponseInv, HandlerFlushes
  PROVE  ResponseInv'
<1>1. /\ pc = "handler" /\ pc # "freed" /\ res' = Flush(res)
      /\ UNCHANGED <<request, body, claimed, yielded, pending, pc, status>>
  BY DEF HandlerFlushes
<1>2. /\ Shape(res', body) /\ res'.set = res.set /\ res'.length = res.length
      /\ res.header => res'.header
  BY <1>1, Going, FlushShape
<1> QED
  BY <1>1, <1>2, Going, Assemble DEF LengthKnown

\* it writes,
LEMMA WritesKeeps ==
  ASSUME ResponseInv, NEW n \in WriteSizes, HandlerWrites(n)
  PROVE  ResponseInv'
<1>1. /\ pc = "handler" /\ pc # "freed" /\ body + n <= MaxBody
      /\ pending' = n /\ pc' = "writing"
      /\ UNCHANGED <<request, res, body, claimed, yielded, status>>
  BY DEF HandlerWrites
<1>2. n \in Nat
  BY ResponseAssumption
<1>3. n \in 0..MaxBody
  BY <1>1, <1>2, Going
<1> QED
  BY <1>1, <1>3, Going, Assemble DEF LengthKnown

\* what it writes fills the buffer,
LEMMA FillKeeps ==
  ASSUME ResponseInv, FillBuffer
  PROVE  ResponseInv'
<1> DEFINE taken == BufferSize - Len(res.buffer)
<1>1. /\ pc = "writing" /\ pc # "freed" /\ Len(res.buffer) + pending > BufferSize
      /\ res' = [res EXCEPT !.buffer = @ \o Units("body", body, taken)]
      /\ body' = body + taken /\ pending' = pending - taken /\ pc' = "flushing"
      /\ UNCHANGED <<request, claimed, yielded, status>>
  BY DEF FillBuffer
<1>2. taken \in Nat /\ Len(res.buffer) + taken <= BufferSize /\ taken < pending
      /\ pending \in Nat /\ body \in Nat /\ MaxBody \in Nat /\ body + pending <= MaxBody
  BY <1>1, Going
<1> HIDE DEF taken
<1>3. /\ Shape(res', body + taken) /\ SameBut(res, res')
  BY <1>1, <1>2, Going, FillShape
<1>4. res'.header = res.header /\ res'.set = res.set /\ res'.length = res.length
  BY <1>3 DEF SameBut
<1>5. body' \in 0..MaxBody /\ pending' \in 0..MaxBody /\ body' + pending' <= MaxBody
  BY <1>1, <1>2
<1> QED
  BY <1>1, <1>3, <1>4, <1>5, Going, Assemble DEF LengthKnown

\* which is sent when it is full,
LEMMA FlushFullKeeps ==
  ASSUME ResponseInv, FlushFull
  PROVE  ResponseInv'
<1>1. /\ pc = "flushing" /\ pc # "freed" /\ res' = Flush(res)
      /\ pc' \in {"handler", "writing"}
      /\ pending' \in {0, pending}
      /\ UNCHANGED <<request, body, claimed, yielded, status>>
  BY DEF FlushFull
<1>2. /\ Shape(res', body) /\ res'.set = res.set /\ res'.length = res.length
      /\ res.header => res'.header
  BY <1>1, Going, FlushShape
<1>3. pending' \in 0..MaxBody /\ body' + pending' <= MaxBody
  BY <1>1, Going
<1> QED
  BY <1>1, <1>2, <1>3, Going, Assemble DEF LengthKnown

\* and the rest stays in the buffer;
LEMMA WriteRestKeeps ==
  ASSUME ResponseInv, WriteRest
  PROVE  ResponseInv'
<1>1. /\ pc = "writing" /\ pc # "freed" /\ Len(res.buffer) + pending <= BufferSize
      /\ res' = [res EXCEPT !.buffer = @ \o Units("body", body, pending)]
      /\ body' = body + pending /\ pending' = 0 /\ pc' = "handler"
      /\ UNCHANGED <<request, claimed, yielded, status>>
  BY DEF WriteRest
<1>2. pending \in Nat /\ body \in Nat /\ MaxBody \in Nat /\ body + pending <= MaxBody
  BY <1>1, Going
<1>3. /\ Shape(res', body + pending) /\ SameBut(res, res')
  BY <1>1, <1>2, Going, FillShape
<1>4. res'.header = res.header /\ res'.set = res.set /\ res'.length = res.length
  BY <1>3 DEF SameBut
<1>5. body' \in 0..MaxBody /\ pending' \in 0..MaxBody
  BY <1>1, <1>2
<1> QED
  BY <1>1, <1>3, <1>4, <1>5, Going, Assemble DEF LengthKnown

\* the handler returns, and the length is known if nothing was sent,
LEMMA ReturnsKeeps ==
  ASSUME ResponseInv, HandlerReturns
  PROVE  ResponseInv'
<1> DEFINE c == CompleteLength(res)
<1>1. /\ pc = "handler" /\ pc # "freed" /\ res' = Flush(c)
      /\ pc' = "returned" /\ ~yielded
      /\ UNCHANGED <<request, body, claimed, yielded, pending, status>>
  BY DEF HandlerReturns
<1>2. /\ Shape(c, body)
      /\ \/ c.set = res.set /\ c.length = res.length
         \/ c.set /\ c.length = body
  BY <1>1, Going, CompleteLengthShape
<1> HIDE DEF c
<1>3. /\ Shape(res', body) /\ res'.set = c.set /\ res'.length = c.length
      /\ ~res'.header => res'.buffer = <<>>
  BY <1>1, <1>2, Going, FlushShape
<1>4. res'.set => \/ claimed' # None /\ res'.length = claimed' % Word
                  \/ res'.length = body'
  BY <1>1, <1>2, <1>3, Going DEF LengthKnown
<1> QED
  BY <1>1, <1>3, <1>4, Going, Assemble

\* or it yields, with its headers written when it is mannered;
LEMMA YieldsKeeps ==
  ASSUME ResponseInv, Mannered, HandlerYields
  PROVE  ResponseInv'
<1>1. /\ pc = "handler" /\ pc # "freed" /\ res' = Flush(CompleteLength(res))
      /\ yielded' = TRUE /\ res.header
      /\ UNCHANGED <<request, body, claimed, pending, pc, status>>
  BY DEF HandlerYields, Mannered
<1>2. CompleteLength(res) = res
  BY <1>1 DEF CompleteLength
<1>3. /\ Shape(res', body) /\ res'.set = res.set /\ res'.length = res.length
      /\ res'.header
  BY <1>1, <1>2, Going, FlushShape
<1> QED
  BY <1>1, <1>3, Going, Assemble DEF LengthKnown

\* the response is freed: what is left is sent, chunks are ended, and whether the
\* connection is kept alive is decided (onion_response_free).
LEMMA FreeingKeeps ==
  ASSUME ResponseInv, Mannered, Free
  PROVE  ResponseInv'
<1> DEFINE h == request.header
           n == body
           c == CompleteLength(res)
           w == IF c.header THEN c ELSE WriteHeaders(c)
           r == FlushSent(w)
           after == SubSeq(res'.wire, request.header + 1, Len(res'.wire))
<1>1. /\ pc = "returned" \/ (pc = "handler" /\ yielded)
      /\ res' = IF r.chunked THEN Send(r, Mark("last", 0)) ELSE r
      /\ \/ status' = IF KeptAlive(r) THEN "keep" ELSE "close"
         \/ res'.failed /\ status' \in {"keep", "close"}
      /\ pc' = "freed"
      /\ UNCHANGED <<request, body, claimed, yielded, pending>>
  BY DEF Free
<1>2. pc # "freed" /\ request \in Requests /\ n \in Nat /\ n <= MaxBody /\ MaxBody \in Nat
      /\ claimed \in Nat \cup {None} /\ yielded \in BOOLEAN /\ pending \in 0..MaxBody
  BY <1>1, Going
<1>3. /\ Shape(c, n)
      /\ c.set => \/ claimed # None /\ c.length = claimed % Word
                  \/ c.length = n
      /\ ~c.header => Unheaded(c, 0) /\ n = 0
  <2>1. /\ Shape(c, n)
        /\ res.header => c = res
        /\ ~res.header => ~c.header /\ c.buffer = res.buffer
        /\ \/ c.set = res.set /\ c.length = res.length
           \/ c.set /\ c.length = n
    BY <1>2, Going, CompleteLengthShape
  <2> HIDE DEF c
  <2>2. c.set => \/ claimed # None /\ c.length = claimed % Word
                 \/ c.length = n
    BY <1>2, <2>1, Going DEF LengthKnown
  <2>3. ASSUME ~c.header PROVE Unheaded(c, 0) /\ n = 0
    <3>1. ~res.header /\ c.buffer = <<>>
      BY <1>1, <1>2, <2>1, <2>3, Going
    <3>2. Unheaded(c, n) /\ Whole(n) = <<>>
      BY <2>1, <2>3, <3>1 DEF Shape, Unheaded
    <3>3. Len(Whole(n)) = n
      BY <1>2 DEF Whole, Units
    <3> QED
      BY <3>2, <3>3
  <2> QED
    BY <2>1, <2>2, <2>3
<1> HIDE DEF c
<1>4. Shape(w, n) /\ w.header /\ w.set = c.set /\ w.length = c.length
  <2>1. CASE c.header
    BY <1>3, <2>1
  <2>2. CASE ~c.header
    <3> DEFINE x == WriteHeaders(c)
    <3>1. c \in Responses(AUnit)
      BY <1>3 DEF Shape
    <3>2. /\ x \in Responses(AUnit) /\ Len(x.buffer) <= BufferSize
          /\ x.header /\ x.set = c.set /\ x.length = c.length
          /\ Headed(x, 0)
      BY <1>2, <1>3, <2>2, <3>1, WriteHeadersShape
    <3> HIDE DEF x
    <3>3. Shape(x, 0)
      BY <3>2 DEF Shape
    <3>4. w = x
      BY <2>2 DEF x
    <3> QED
      BY <1>3, <2>2, <3>2, <3>3, <3>4
  <2> QED
    BY <2>1, <2>2
<1> HIDE DEF w
<1>5. /\ Shape(r, n) /\ SameBut(w, r)
      /\ ~r.failed /\ ~r.skip => r.buffer = <<>>
  BY <1>2, <1>4, FlushSentShape
<1> HIDE DEF r
<1>6. /\ r.header /\ r.set = c.set /\ r.length = c.length
      /\ r \in Responses(AUnit) /\ Headed(r, n)
  BY <1>4, <1>5 DEF SameBut, Shape
<1>7. /\ res' \in Responses(AUnit) /\ SameBut(r, res')
      /\ res'.buffer = r.buffer /\ res'.sent = r.sent
      /\ ~res'.failed => ~r.failed
      /\ request.head => res' = r
      /\ ~res'.failed =>
              /\ after \in Seq(AUnit) /\ res'.wire = HeaderUnits \o after
              /\ \A i \in 1..Len(after) : after[i].kind # "header"
              /\ request.head => after = <<>>
              /\ ~request.head /\ r.chunked =>
                   Readers(after)[Len(after)] =
                     [waits |-> "nothing", left |-> 0, got |-> Whole(n)]
              /\ ~request.head /\ ~r.chunked => after = Whole(n)
              /\ ~request.head => Written(res'.wire \o res'.buffer, 0, n)
  BY <1>1, <1>2, <1>5, <1>6, EndIs
<1>8. /\ res'.announced = r.announced /\ res'.skip = r.skip /\ res'.header = r.header
      /\ r.announced = Announce(r) /\ r.skip = request.head
      /\ r.chunked = (~request.head /\ r.announced.chunked)
  BY <1>6, <1>7 DEF SameBut, Headed
<1>9. AfterHeaders' = after
  BY <1>1 DEF AfterHeaders
<1> HIDE DEF after
<1>10. ~res'.failed => HeadersFirst' /\ Len(res'.wire) >= request.header
                       /\ Len(after) \in Nat
  <2> SUFFICES ASSUME ~res'.failed
               PROVE  HeadersFirst' /\ Len(res'.wire) >= request.header /\ Len(after) \in Nat
    OBVIOUS
  <2>1. after \in Seq(AUnit) /\ res'.wire = HeaderUnits \o after
        /\ \A i \in 1..Len(after) : after[i].kind # "header"
    BY <1>7
  <2> DEFINE wire == HeaderUnits \o after
  <2>2. /\ Len(wire) >= request.header
        /\ \A i \in 1..Len(wire) : wire[i].kind = "header" <=> i <= request.header
    BY <1>2, <2>1, HeadersThen
  <2>3. res'.wire = wire /\ request' = request
    BY <1>1, <2>1
  <2> HIDE DEF wire
  <2> QED
    BY <2>1, <2>2, <2>3 DEF HeadersFirst
<1>11. /\ Word \in Nat /\ n < Word /\ n % Word = n /\ None \notin Nat
       /\ r.length \in Nat /\ r.sent \in Nat /\ r.sent < Word
  <2>1. Word \in Nat /\ n < Word
    BY <1>2, SizesFit
  <2>2. n % Word = n
    BY <1>2, <2>1
  <2> QED
    BY <1>6, <2>1, <2>2, ResponseAssumption DEF Responses
<1>12. ~res'.failed /\ ~request.head => r.sent = n /\ r.buffer = <<>>
  <2> SUFFICES ASSUME ~res'.failed, ~request.head PROVE r.sent = n /\ r.buffer = <<>>
    OBVIOUS
  <2>1. ~r.failed /\ r.buffer = <<>> /\ Intact(r, n)
    BY <1>5, <1>6, <1>7, <1>8 DEF Headed
  <2>2. r.sent + 0 \in {n, n + Word}
    BY <2>1 DEF Intact
  <2> DEFINE q == r.sent
  <2>3. q \in Nat /\ q < Word /\ q + 0 \in {n, n + Word} /\ n \in Nat
    BY <1>2, <1>11, <2>2
  <2> HIDE DEF q
  <2>4. q = n
    BY <1>11, <2>3
  <2> QED
    BY <2>1, <2>4 DEF q
<1>13. TypeOK'
  <2>1. Len(res'.buffer) <= BufferSize
    BY <1>5, <1>7 DEF Shape
  <2>2. status' \in {"keep", "close", None}
    BY <1>1
  <2>3. body \in 0..MaxBody
    BY <1>2
  <2> QED
    BY <1>1, <1>2, <1>7, <2>1, <2>2, <2>3 DEF TypeOK
<1>14. Announce(r) = [length  |-> IF r.set THEN r.length ELSE None,
                      chunked |-> request.http11 /\ ~r.set /\ request.keep,
                      close   |-> ~r.set /\ ~(request.http11 /\ ~r.set /\ request.keep)]
  BY DEF Announce
<1>22. /\ r.announced.chunked <=> request.http11 /\ ~r.set /\ request.keep
       /\ ~r.set /\ ~r.announced.chunked => r.announced.close
       /\ ~r.set => r.announced.length = None
  <2>1. r.announced.chunked = (request.http11 /\ ~r.set /\ request.keep)
    BY <1>8, <1>14
  <2>2. r.announced.close = (~r.set /\ ~(request.http11 /\ ~r.set /\ request.keep))
    BY <1>8, <1>14
  <2>3. r.announced.length = IF r.set THEN r.length ELSE None
    BY <1>8, <1>14
  <2> QED
    BY <2>1, <2>2, <2>3
<1>15. ASSUME ~request.head, ~r.chunked, r.set, ~res'.failed
       PROVE  /\ ~res'.announced.chunked
              /\ res'.announced.length = r.length /\ res'.announced.length # None
              /\ Len(after) = n
  <2>1. ~res'.announced.chunked
    BY <1>8, <1>15
  <2>2. res'.announced.length = r.length
    BY <1>8, <1>14, <1>15
  <2>3. Len(after) = n
    <3>1. after = Whole(n)
      BY <1>7, <1>15
    <3> QED
      BY <1>2, <3>1 DEF Whole, Units
  <2> QED
    BY <1>11, <2>1, <2>2, <2>3
<1>16. ASSUME ~res'.failed, ~request.head, r.chunked PROVE Delimited' /\ Content' = Whole(n)
  <2>1. Chunks' = [waits |-> "nothing", left |-> 0, got |-> Whole(n)]
    BY <1>7, <1>9, <1>16 DEF Chunks
  <2>2. res'.announced.chunked
    BY <1>8, <1>16
  <2>3. Delimited'
    <3>1. Chunks'.waits = "nothing" /\ request' = request /\ ~request'.head
      BY <1>1, <1>16, <2>1
    <3>2. HeadersFirst' /\ Len(res'.wire) >= request'.header
      BY <1>1, <1>10, <1>16
    <3>3. res'.announced.length = None
      BY <1>8, <1>22, <2>2
    <3> QED
      BY <2>2, <3>1, <3>2, <3>3 DEF Delimited
  <2>4. Content' = Whole(n)
    BY <2>1, <2>2 DEF Content
  <2> QED
    BY <2>3, <2>4
<1>17. ASSUME ~res'.failed, ~request.head, ~r.chunked, r.set, r.length = n
       PROVE  Delimited'
  BY <1>1, <1>9, <1>10, <1>15, <1>17 DEF Delimited
<1>18. ASSUME ~res'.failed, request.head PROVE Delimited' /\ AfterHeaders' = <<>>
  <2>1. after = <<>>
    BY <1>7, <1>18
  <2> QED
    BY <1>1, <1>9, <1>10, <1>18, <2>1 DEF Delimited
<1>19. ~HTTP10 => KeepAliveDelimited'
  <2> SUFFICES ASSUME ~HTTP10, status' = "keep", ~res'.failed PROVE Delimited'
    BY DEF KeepAliveDelimited
  <2>1. KeptAlive(r)
    BY <1>1
  <2>2. request.keep /\ (r.skip \/ r.length = r.sent \/ r.chunked)
    BY <2>1 DEF KeptAlive
  <2>3. request.http11
    BY <1>2, <2>2 DEF Requests
  <2>4. CASE request.head
    BY <1>18, <2>4
  <2>5. CASE ~request.head /\ r.chunked
    BY <1>16, <2>5
  <2>6. CASE ~request.head /\ ~r.chunked
    <3>1. ~r.announced.chunked
      BY <1>8, <2>6
    <3>2. r.set
      BY <1>22, <2>2, <2>3, <3>1
    <3>3. r.length = n
      BY <1>8, <1>12, <2>2, <2>6
    <3> QED
      BY <1>17, <2>6, <3>2, <3>3
  <2> QED
    BY <2>4, <2>5, <2>6
<1>20. AnswerComplete'
  <2> SUFFICES ASSUME ~res'.failed, claimed \in {None, body}
               PROVE  IF request.head
                        THEN AfterHeaders' = <<>>
                        ELSE Content' = Whole(n) /\ (res'.announced.close \/ Delimited')
    BY <1>1 DEF AnswerComplete
  <2>1. CASE request.head
    BY <1>18, <2>1
  <2>2. CASE ~request.head /\ r.chunked
    BY <1>16, <2>2
  <2>3. CASE ~request.head /\ ~r.chunked
    <3>1. Content' = Whole(n)
      <4>1. ~res'.announced.chunked
        BY <1>8, <2>3
      <4> QED
        BY <1>7, <1>9, <2>3, <4>1 DEF Content
    <3>2. CASE r.set
      <4>1. r.length = n
        BY <1>3, <1>6, <1>11, <3>2
      <4> QED
        BY <1>17, <2>3, <3>1, <3>2, <4>1
    <3>3. CASE ~r.set
      <4>1. res'.announced.close
        BY <1>8, <1>22, <2>3, <3>3
      <4> QED
        BY <2>3, <3>1, <4>1
    <3> QED
      BY <3>2, <3>3
  <2> QED
    BY <2>1, <2>2, <2>3
<1>21. ContentInOrder'
  <2>1. ~res'.failed /\ ~res'.skip => Written(res'.wire \o res'.buffer, 0, body)
    BY <1>7, <1>8
  <2>2. request.head => Contents(res'.wire) = {}
    BY <1>2, <1>5, <1>7, ShapeInOrder
  <2>3. ~res'.failed /\ ~res'.skip /\ res'.header =>
          (res'.sent + Len(res'.buffer)) % Word = body % Word
    BY <1>2, <1>5, <1>6, <1>7, <1>8, ShapeInOrder
  <2> QED
    BY <1>1, <1>13, <2>1, <2>2, <2>3 DEF ContentInOrder, SentBytesExact, Contents, Written
<1> QED
  BY <1>1, <1>13, <1>19, <1>20, <1>21 DEF ResponseInv

\* A step that changes nothing keeps the invariant.
LEMMA NothingKeeps ==
  ASSUME ResponseInv, UNCHANGED vars
  PROVE  ResponseInv'
<1>1. /\ request' = request /\ res' = res /\ body' = body /\ claimed' = claimed
      /\ yielded' = yielded /\ pending' = pending /\ pc' = pc /\ status' = status
  BY DEF vars
<1>2. TypeOK'
  BY <1>1 DEF ResponseInv, TypeOK
<1>3. CASE pc = "freed"
  <2>1. (~HTTP10 => KeepAliveDelimited) /\ AnswerComplete /\ ContentInOrder
    BY <1>3 DEF ResponseInv
  <2>2. HeadersFirst' = HeadersFirst /\ AfterHeaders' = AfterHeaders
    BY <1>1 DEF HeadersFirst, AfterHeaders
  <2>3. Chunks' = Chunks
    BY <2>2 DEF Chunks
  <2>4. Delimited' = Delimited /\ Content' = Content
    BY <1>1, <2>2, <2>3 DEF Delimited, Content
  <2>5. (~HTTP10 => KeepAliveDelimited') /\ AnswerComplete'
    BY <1>1, <2>1, <2>2, <2>4 DEF KeepAliveDelimited, AnswerComplete
  <2>6. ContentInOrder'
    BY <1>1, <1>2, <2>1 DEF ContentInOrder, SentBytesExact
  <2> QED
    BY <1>1, <1>2, <1>3, <2>5, <2>6 DEF ResponseInv
<1>4. CASE pc # "freed"
  <2>1. Shape(res', body')
    BY <1>1, <1>4, Going
  <2>2. pc' \in {"handler", "writing", "flushing", "returned"}
    BY <1>1, <1>4 DEF ResponseInv, TypeOK
  <2>3. body' \in 0..MaxBody
    BY <1>1, <1>4, Going
  <2> QED
    BY <1>1, <1>4, <2>1, <2>2, <2>3, Going, Assemble DEF LengthKnown
<1> QED
  BY <1>3, <1>4

\* Every step of a mannered handler's response keeps the invariant.
LEMMA ResponseInvNext ==
  Mannered /\ ResponseInv /\ [Next]_vars => ResponseInv'
<1> SUFFICES ASSUME Mannered, ResponseInv, [Next]_vars PROVE ResponseInv'
  OBVIOUS
<1>1. ASSUME NEW n \in Lengths, HandlerSetsLength(n) PROVE ResponseInv'
  BY <1>1, SetsLengthKeeps
<1>2. CASE HandlerWritesHeaders
  BY <1>2, WritesHeadersKeeps
<1>3. CASE HandlerFlushes
  BY <1>3, FlushesKeeps
<1>4. ASSUME NEW n \in WriteSizes, HandlerWrites(n) PROVE ResponseInv'
  BY <1>4, WritesKeeps
<1>5. CASE FillBuffer
  BY <1>5, FillKeeps
<1>6. CASE FlushFull
  BY <1>6, FlushFullKeeps
<1>7. CASE WriteRest
  BY <1>7, WriteRestKeeps
<1>8. CASE HandlerReturns
  BY <1>8, ReturnsKeeps
<1>9. CASE HandlerYields
  BY <1>9, YieldsKeeps
<1>10. CASE Free
  BY <1>10, FreeingKeeps
<1>11. CASE Freed
  BY <1>11, NothingKeeps DEF Freed
<1>12. CASE UNCHANGED vars
  BY <1>12, NothingKeeps
<1> QED
  BY <1>1, <1>2, <1>3, <1>4, <1>5, <1>6, <1>7, <1>8, <1>9, <1>10, <1>11, <1>12 DEF Next, Write

\* The invariant says what the runs check.
LEMMA ResponseInvSays ==
  ResponseInv => (~HTTP10 => KeepAliveDelimited) /\ AnswerComplete /\ ContentInOrder
<1> SUFFICES ASSUME ResponseInv
             PROVE  (~HTTP10 => KeepAliveDelimited) /\ AnswerComplete /\ ContentInOrder
  OBVIOUS
<1>1. CASE pc = "freed"
  BY <1>1 DEF ResponseInv
<1>2. CASE pc # "freed"
  <2>1. status = None
    BY <1>2, Going
  <2>2. KeepAliveDelimited
    BY <2>1, ResponseAssumption DEF KeepAliveDelimited
  <2>3. AnswerComplete
    BY <1>2 DEF AnswerComplete
  <2>4. TypeOK
    BY DEF ResponseInv
  <2>5. /\ ~res.failed /\ ~res.skip => Written(res.wire \o res.buffer, 0, body)
        /\ request.head => Contents(res.wire) = {}
        /\ ~res.failed /\ ~res.skip /\ res.header =>
              (res.sent + Len(res.buffer)) % Word = body % Word
    BY <1>2, Going, ShapeInOrder
  <2> QED
    BY <2>2, <2>3, <2>4, <2>5 DEF ContentInOrder, SentBytesExact
<1> QED
  BY <1>1, <1>2

\* For every size of the buffer, the headers, the writes and the socket, for every
\* handler that is mannered, and as long as no HTTP/1.0 client asks to keep its
\* connection: it is kept alive only behind an answer whose end the client finds
\* (onion_response_free, response.c:160-203).
THEOREM ResponseKeepAliveDelimited ==
  ASSUME Mannered, ~HTTP10
  PROVE  Spec => []KeepAliveDelimited
<1>1. Init => ResponseInv
  BY ResponseInvInit
<1>2. ResponseInv /\ [Next]_vars => ResponseInv'
  BY ResponseInvNext
<1>3. ResponseInv => KeepAliveDelimited
  BY ResponseInvSays
<1> QED
  BY <1>1, <1>2, <1>3, PTL DEF Spec

\* The client of a handler that claims no length, or the right one, reads exactly
\* what was written, in chunks or not, and nothing when it asked for HEAD.
THEOREM ResponseAnswerComplete ==
  ASSUME Mannered
  PROVE  Spec => []AnswerComplete
<1>1. Init => ResponseInv
  BY ResponseInvInit
<1>2. ResponseInv /\ [Next]_vars => ResponseInv'
  BY ResponseInvNext
<1>3. ResponseInv => AnswerComplete
  BY ResponseInvSays
<1> QED
  BY <1>1, <1>2, <1>3, PTL DEF Spec

\* At every moment the content on the wire and in the buffer is what was written,
\* in order and once, and sent_bytes counts it (response.c:278-462).
THEOREM ResponseContentInOrder ==
  ASSUME Mannered
  PROVE  Spec => []ContentInOrder
<1>1. Init => ResponseInv
  BY ResponseInvInit
<1>2. ResponseInv /\ [Next]_vars => ResponseInv'
  BY ResponseInvNext
<1>3. ResponseInv => ContentInOrder
  BY ResponseInvSays
<1> QED
  BY <1>1, <1>2, <1>3, PTL DEF Spec
=============================================================================
