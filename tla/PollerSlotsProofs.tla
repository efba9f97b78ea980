-------------------------- MODULE PollerSlotsProofs --------------------------
(***************************************************************************)
(* The life of a connection in the slots of poller.c, for any number of    *)
(* threads, connections and descriptors: SlotsInv is inductive, and the    *)
(* chain of slots implements a set of descriptors.                         *)
(***************************************************************************)
EXTENDS PollerSlots, FiniteSetTheorems, TLAPS
-----------------------------------------------------------------------------
(* Facts about singly linked lists: cells S, the pointer n[c] of each, a   *)
(* null pointer 0, and the walk from a head h through N pointers at most.  *)

\* g is the walk: where it stands after 0, 1, ..., N pointers.
IsWalk(g, h, n, S, N) ==
  /\ g \in [0..N -> S \cup {0}]
  /\ g[0] = h
  /\ \A i \in 1..N : g[i] = IF g[i - 1] = 0 THEN 0 ELSE n[g[i - 1]]

\* The cells that the walk g meets.
Met(g, N) == {g[i] : i \in 0..N} \ {0}

\* The least-number principle, from the finite subsets of Nat.
LEMMA LeastNumber ==
  ASSUME NEW T, T \subseteq Nat, T # {}
  PROVE  \E m \in T : \A k \in T : m <= k
<1> DEFINE Below(x) == {y \in T : y <= x}
           Family == {Below(x) : x \in T}
<1>1. Family # {} /\ Family \subseteq FiniteSubsetsOf(Nat)
  <2>1. ASSUME NEW x \in T PROVE Below(x) \in FiniteSubsetsOf(Nat)
    <3>1. Below(x) \in SUBSET Nat /\ x \in Nat /\ \A s \in Below(x) : s <= x
      OBVIOUS
    <3>2. IsFiniteSet(Below(x))
      BY ONLY <3>1, FS_BoundedSetOfNaturals
    <3> QED
      BY <3>1, <3>2 DEF FiniteSubsetsOf
  <2> QED
    BY <2>1
<1>2. PICK M \in Family : \A U \in Family : ~(<<U, M>> \in StrictSubsetOrdering(Nat))
  <2>1. IsWellFoundedOn(StrictSubsetOrdering(Nat), FiniteSubsetsOf(Nat))
    BY FS_StrictSubsetOrderingWellFounded
  <2> HIDE DEF Family
  <2> QED
    BY <1>1, <2>1, WFMin
<1>3. PICK m \in T : M = Below(m)
  BY <1>2
<1>4. ASSUME NEW k \in T, ~(m <= k) PROVE FALSE
  <2>1. Below(k) \subseteq Below(m) /\ m \in Below(m) /\ m \notin Below(k)
    <3>1. k \in Nat /\ m \in Nat /\ k < m /\ \A y \in T : y \in Nat
      BY <1>4
    <3>2. \A y \in T : y <= k => y <= m
      BY <3>1
    <3>3. Below(k) \subseteq Below(m)
      BY <3>2
    <3>4. m \in Below(m) /\ ~(m <= k)
      BY <3>1
    <3> QED
      BY <3>3, <3>4
  <2>2. Below(k) \in SUBSET Nat /\ Below(m) \in SUBSET Nat /\ Below(k) \in Family
    BY <1>4
  <2>3. <<Below(k), Below(m)>> \in StrictSubsetOrdering(Nat)
    BY <2>1, <2>2 DEF StrictSubsetOrdering
  <2> QED
    BY <1>2, <1>3, <2>2, <2>3
<1> QED
  BY <1>4

\* Induction on the numbers up to N, for a property given as a set.
LEMMA Climb ==
  ASSUME NEW N \in Nat, NEW P, 0 \in P, \A i \in 1..N : i - 1 \in P => i \in P
  PROVE  0..N \subseteq P
<1> DEFINE Bad == (0..N) \ P
<1> SUFFICES ASSUME Bad # {} PROVE FALSE
  OBVIOUS
<1>1. PICK m \in Bad : \A k \in Bad : m <= k
  <2>1. Bad \subseteq Nat
    OBVIOUS
  <2> HIDE DEF Bad
  <2> QED
    BY <2>1, LeastNumber
<1>2. m # 0 /\ m \in 1..N
  BY <1>1
<1>3. m - 1 \in 0..N /\ m - 1 < m
  BY <1>2
<1>4. m - 1 \in P
  BY <1>1, <1>3
<1> QED
  BY <1>1, <1>2, <1>4
-----------------------------------------------------------------------------
\* From every head there is a walk ...
LEMMA WalkExists ==
  ASSUME NEW N \in Nat, NEW S, 0 \notin S, NEW h \in S \cup {0}, NEW n \in [S -> S \cup {0}]
  PROVE  \E g : IsWalk(g, h, n, S, N)
<1> DEFINE Follows(g, i) == g[i] = IF g[i - 1] = 0 THEN 0 ELSE n[g[i - 1]]
           Walked == {k \in 0..N : \E g \in [0..N -> S \cup {0}] :
                                     g[0] = h /\ \A i \in 1..k : Follows(g, i)}
<1>1. 0 \in Walked
  <2>1. [i \in 0..N |-> h] \in [0..N -> S \cup {0}] /\ [i \in 0..N |-> h][0] = h
    OBVIOUS
  <2>2. 0 \in 0..N /\ \A i \in 1..0 : FALSE
    OBVIOUS
  <2>3. PICK g \in [0..N -> S \cup {0}] : g[0] = h
    BY <2>1
  <2>4. \A i \in 1..0 : Follows(g, i)
    BY <2>2
  <2> QED
    BY <2>2, <2>3, <2>4
<1>2. ASSUME NEW k \in 1..N, k - 1 \in Walked PROVE k \in Walked
  <2>1. PICK g \in [0..N -> S \cup {0}] : g[0] = h /\ \A i \in 1..(k - 1) : Follows(g, i)
    BY <1>2
  <2> DEFINE next == IF g[k - 1] = 0 THEN 0 ELSE n[g[k - 1]]
             longer == [g EXCEPT ![k] = next]
  <2>2. next \in S \cup {0}
    BY k - 1 \in 0..N
  <2>3. longer \in [0..N -> S \cup {0}] /\ longer[0] = h
    BY <2>1, <2>2
  <2>4. ASSUME NEW i \in 1..k PROVE Follows(longer, i)
    <3>1. i - 1 # k /\ i \in 0..N /\ i - 1 \in 0..N /\ longer[i - 1] = g[i - 1]
      OBVIOUS
    <3>2. CASE i = k
      BY <3>1, <3>2
    <3>3. CASE i # k
      BY <2>1, <3>1, <3>3, i \in 1..(k - 1), longer[i] = g[i]
    <3> QED
      BY <3>2, <3>3
  <2> HIDE DEF longer
  <2> QED
    BY <2>3, <2>4
<1>3. N \in Walked
  <2> HIDE DEF Walked
  <2> QED
    BY <1>1, <1>2, Climb
<1> QED
  BY <1>3 DEF IsWalk

\* ... and only one.
LEMMA WalkUnique ==
  ASSUME NEW N \in Nat, NEW S, NEW h, NEW n, NEW g, NEW k,
         IsWalk(g, h, n, S, N), IsWalk(k, h, n, S, N)
  PROVE  g = k
<1> DEFINE Same == {i \in 0..N : g[i] = k[i]}
<1>1. 0 \in Same
  BY DEF IsWalk
<1>2. ASSUME NEW i \in 1..N, i - 1 \in Same PROVE i \in Same
  BY <1>2 DEF IsWalk
<1>3. 0..N \subseteq Same
  <2> HIDE DEF Same
  <2> QED
    BY <1>1, <1>2, Climb
<1>4. g \in [0..N -> S \cup {0}] /\ k \in [0..N -> S \cup {0}]
  BY DEF IsWalk
<1> QED
  BY <1>3, <1>4

\* Behind a null pointer there is nothing.
LEMMA WalkStaysNull ==
  ASSUME NEW N \in Nat, NEW S, NEW h, NEW n, NEW g, IsWalk(g, h, n, S, N),
         NEW i \in 0..N, g[i] = 0, NEW j \in 0..N, i <= j
  PROVE  g[j] = 0
<1> DEFINE P == {k \in 0..N : i <= k => g[k] = 0}
<1>1. 0 \in P
  OBVIOUS
<1>2. ASSUME NEW k \in 1..N, k - 1 \in P PROVE k \in P
  BY <1>2 DEF IsWalk
<1>3. 0..N \subseteq P
  <2> HIDE DEF P
  <2> QED
    BY <1>1, <1>2, Climb
<1> QED
  BY <1>3

\* A walk that ends meets no cell twice.
LEMMA WalkDistinct ==
  ASSUME NEW N \in Nat, NEW S, NEW h, NEW n, NEW g, IsWalk(g, h, n, S, N), g[N] = 0,
         NEW i \in 0..N, NEW j \in 0..N, g[i] = g[j], g[i] # 0
  PROVE  i = j
<1>1. ASSUME NEW a \in 0..N, NEW b \in 0..N, g[a] = g[b], g[a] # 0, a < b PROVE FALSE
  <2> DEFINE Null == {k \in 0..N : g[k] = 0}
             P == {d \in 0..N : b + d <= N => g[a + d] = g[b + d]}
  <2>1. PICK end \in Null : \A k \in Null : end <= k
    <3>1. Null \subseteq Nat /\ Null # {}
      OBVIOUS
    <3> HIDE DEF Null
    <3> QED
      BY <3>1, LeastNumber
  <2>2. b < end
    BY <1>1, <2>1, WalkStaysNull
  <2>3. 0 \in P
    BY <1>1
  <2>4. ASSUME NEW d \in 1..N, d - 1 \in P PROVE d \in P
    <3> SUFFICES ASSUME b + d <= N PROVE g[a + d] = g[b + d]
      OBVIOUS
    <3>1. g[a + (d - 1)] = g[b + (d - 1)]
      BY <2>4
    <3>2. a + d \in 1..N /\ b + d \in 1..N /\ (a + d) - 1 = a + (d - 1) /\ (b + d) - 1 = b + (d - 1)
      BY <1>1
    <3>3. \A k \in 1..N : g[k] = IF g[k - 1] = 0 THEN 0 ELSE n[g[k - 1]]
      BY DEF IsWalk
    <3> QED
      BY ONLY <3>1, <3>2, <3>3
  <2>5. 0..N \subseteq P
    <3> HIDE DEF P
    <3> QED
      BY <2>3, <2>4, Climb
  <2>6. end - b \in 0..N /\ b + (end - b) = end /\ a + (end - b) \in 0..N /\ a + (end - b) < end
    BY <1>1, <2>2
  <2>7. g[a + (end - b)] = 0
    BY <2>1, <2>5, <2>6
  <2> QED
    BY <2>1, <2>6, <2>7
<1> QED
  BY <1>1

\* With as many pointers as there are cells, a walk that misses a cell ends
\* before the last one.
LEMMA WalkShort ==
  ASSUME NEW N \in Nat, NEW S, 0 \notin S, IsFiniteSet(S), Cardinality(S) = N, N > 0,
         NEW h, NEW n, NEW g, IsWalk(g, h, n, S, N), g[N] = 0, NEW f \in S, f \notin Met(g, N)
  PROVE  g[N - 1] = 0
<1> SUFFICES ASSUME g[N - 1] # 0 PROVE FALSE
  OBVIOUS
<1> DEFINE Others == S \ {f}
           met == [i \in 0..(N - 1) |-> g[i]]
<1>1. IsFiniteSet(0..(N - 1)) /\ Cardinality(0..(N - 1)) = N
  BY FS_Interval
<1>2. IsFiniteSet(Others) /\ Cardinality(Others) = N - 1
  BY FS_RemoveElement
<1>3. \A i \in 0..(N - 1) : g[i] # 0
  BY WalkStaysNull
<1>4. met \in [0..(N - 1) -> Others]
  BY <1>3 DEF IsWalk, Met
<1>5. PICK i, j \in 0..(N - 1) : i # j /\ met[i] = met[j]
  <2> HIDE DEF met, Others
  <2> QED
    BY <1>1, <1>2, <1>4, FS_PigeonHole
<1>6. i \in 0..N /\ j \in 0..N /\ g[i] = g[j] /\ g[i] # 0
  BY <1>3, <1>5
<1> QED
  BY <1>5, <1>6, WalkDistinct
-----------------------------------------------------------------------------
\* Pointers of cells that the walk does not meet do not matter.
LEMMA WalkElsewhere ==
  ASSUME NEW N \in Nat, NEW S, NEW h, NEW n, NEW m, NEW g, IsWalk(g, h, n, S, N),
         \A c \in Met(g, N) : m[c] = n[c]
  PROVE  IsWalk(g, h, m, S, N)
BY DEF IsWalk, Met

\* A cell linked behind the head.
LEMMA WalkInsert ==
  ASSUME NEW N \in Nat, NEW S, 0 \notin S, IsFiniteSet(S), Cardinality(S) = N, N > 0,
         NEW h \in S, NEW n, NEW g, IsWalk(g, h, n, S, N), g[N] = 0,
         NEW f \in S, f \notin Met(g, N),
         NEW m, m[f] = n[h], m[h] = f, \A c \in S \ {f, h} : m[c] = n[c]
  PROVE  \E k : /\ IsWalk(k, h, m, S, N)
                /\ k[N] = 0
                /\ Met(k, N) = Met(g, N) \cup {f}
<1> DEFINE k == [i \in 0..N |-> IF i = 0 THEN h ELSE IF i = 1 THEN f ELSE g[i - 1]]
<1>1. g[N - 1] = 0
  BY WalkShort
<1>2. g[0] = h /\ h # f /\ N > 1 /\ g \in [0..N -> S \cup {0}]
  <2>1. g[0] = h /\ h # 0 /\ g \in [0..N -> S \cup {0}]
    BY DEF IsWalk
  <2>2. h # f
    BY <2>1 DEF Met
  <2> QED
    BY <1>1, <2>1, <2>2
<1>3. m[f] = n[h] /\ m[h] = f /\ \A c \in S \ {f, h} : m[c] = n[c]
  OBVIOUS
<1>4. k \in [0..N -> S \cup {0}] /\ k[0] = h
  BY <1>2
<1>5. ASSUME NEW i \in 1..N PROVE k[i] = IF k[i - 1] = 0 THEN 0 ELSE m[k[i - 1]]
  <2>1. CASE i = 1
    BY <1>2, <1>3, <1>4, <2>1
  <2>2. CASE i = 2
    <3>1. k[2] = g[1] /\ k[1] = f /\ f # 0 /\ g[1] = n[h]
      BY <1>2, <2>2, 1 \in 1..N DEF IsWalk
    <3> QED
      BY <1>3, <2>2, <3>1
  <2>3. CASE i > 2
    <3>1. k[i] = g[i - 1] /\ k[i - 1] = g[i - 2] /\ i - 1 \in 1..N /\ i - 2 \in 1..N
      BY <2>3
    <3>2. g[i - 1] = IF g[i - 2] = 0 THEN 0 ELSE n[g[i - 2]]
      BY <3>1, (i - 1) - 1 = i - 2 DEF IsWalk
    <3>3. g[i - 2] # f
      BY <3>1 DEF Met
    <3>4. g[i - 2] # h
      BY <1>2, <2>3, <3>1, WalkDistinct
    <3>5. g[i - 2] \in S \cup {0}
      BY <1>2, <3>1
    <3> QED
      BY <1>3, <3>1, <3>2, <3>3, <3>4, <3>5
  <2> QED
    BY <2>1, <2>2, <2>3
<1>6. k[N] = 0
  BY <1>1, <1>2
<1>7. Met(k, N) = Met(g, N) \cup {f}
  <2>1. \A i \in 0..N : k[i] \in Met(g, N) \cup {f, 0}
    BY <1>2 DEF Met
  <2>2. f \in Met(k, N)
    BY <1>2, k[1] = f, 1 \in 0..N DEF Met
  <2>3. ASSUME NEW i \in 0..N, g[i] # 0 PROVE g[i] \in Met(k, N)
    <3>1. i # N
      BY <2>3
    <3>2. CASE i = 0
      BY <1>2, <2>3, <3>2, k[0] = g[0] DEF Met
    <3>3. CASE i > 0
      BY <2>3, <3>1, <3>3, i + 1 \in 0..N, k[i + 1] = g[i] DEF Met
    <3> QED
      BY <3>2, <3>3
  <2> HIDE DEF k
  <2> QED
    BY <2>1, <2>2, <2>3 DEF Met
<1>8. IsWalk(k, h, m, S, N)
  <2> HIDE DEF k
  <2> QED
    BY <1>4, <1>5 DEF IsWalk
<1> QED
  BY <1>6, <1>7, <1>8

\* A cell other than the head taken out.
LEMMA WalkDelete ==
  ASSUME NEW N \in Nat, NEW S, 0 \notin S, NEW h \in S, NEW n \in [S -> S \cup {0}],
         NEW g, IsWalk(g, h, n, S, N), g[N] = 0, NEW f \in Met(g, N), f # h
  PROVE  \E k : /\ IsWalk(k, h, [c \in S |-> IF c \in Met(g, N) /\ n[c] = f THEN n[f] ELSE n[c]],
                          S, N)
                /\ k[N] = 0
                /\ Met(k, N) = Met(g, N) \ {f}
<1> DEFINE m == [c \in S |-> IF c \in Met(g, N) /\ n[c] = f THEN n[f] ELSE n[c]]
<1>1. g \in [0..N -> S \cup {0}] /\ g[0] = h
  BY DEF IsWalk
<1>2. PICK p \in 0..N : g[p] = f /\ f # 0
  BY DEF Met
<1>3. p \in 1..(N - 1)
  BY <1>1, <1>2
<1> DEFINE k == [i \in 0..N |-> IF i < p THEN g[i] ELSE IF i < N THEN g[i + 1] ELSE 0]
<1>4. k \in [0..N -> S \cup {0}] /\ k[0] = h /\ k[N] = 0
  BY <1>1, <1>3
<1>5. \A i \in 0..N : g[i] = f => i = p
  BY <1>2, WalkDistinct
<1>6. ASSUME NEW i \in 1..N, g[i - 1] # 0
      PROVE  m[g[i - 1]] = IF i = p THEN n[f] ELSE g[i]
  <2>1. g[i - 1] \in Met(g, N) /\ g[i - 1] \in S /\ g[i] = n[g[i - 1]]
    BY <1>1, <1>6, i - 1 \in 0..N DEF IsWalk, Met
  <2>2. g[i] = f <=> i = p
    BY <1>2, <1>5
  <2> QED
    BY <2>1, <2>2
<1>7. p + 1 \in 1..N /\ g[p + 1] = n[f]
  BY <1>2, <1>3, (p + 1) - 1 = p DEF IsWalk
<1>8. ASSUME NEW i \in 1..N PROVE k[i] = IF k[i - 1] = 0 THEN 0 ELSE m[k[i - 1]]
  <2>1. CASE i < p
    <3>1. k[i] = g[i] /\ k[i - 1] = g[i - 1]
      BY <2>1, <1>3
    <3>2. g[i - 1] = 0 => g[i] = 0
      BY DEF IsWalk
    <3> QED
      BY <1>6, <2>1, <3>1, <3>2
  <2>2. CASE i = p
    <3>1. k[i] = g[p + 1] /\ k[i - 1] = g[i - 1]
      BY <1>3, <2>2
    <3>2. g[i - 1] # 0
      BY <1>2, <2>2 DEF IsWalk
    <3> QED
      BY <1>6, <1>7, <2>2, <3>1, <3>2
  <2>3. CASE i > p /\ i < N
    <3>1. k[i] = g[i + 1] /\ k[i - 1] = g[i] /\ i + 1 \in 1..N /\ (i + 1) - 1 = i /\ i + 1 # p
      BY <1>3, <2>3
    <3>2. g[i] = 0 => g[i + 1] = 0
      BY <3>1 DEF IsWalk
    <3>3. g[i] # 0 => m[g[i]] = g[i + 1]
      BY <1>6, <3>1
    <3> QED
      BY <3>1, <3>2, <3>3
  <2>4. CASE i = N
    BY <1>3, <2>4, k[N] = 0, k[N - 1] = g[N]
  <2> QED
    BY <1>3, <2>1, <2>2, <2>3, <2>4
<1>9. Met(k, N) = Met(g, N) \ {f}
  <2>1. ASSUME NEW i \in 0..N, k[i] # 0 PROVE k[i] \in Met(g, N) \ {f}
    <3>1. CASE i < p
      BY <1>5, <2>1, <3>1, k[i] = g[i] DEF Met
    <3>2. CASE ~(i < p)
      <4>1. i < N /\ k[i] = g[i + 1] /\ i + 1 \in 0..N /\ i + 1 # p
        BY <2>1, <3>2
      <4> QED
        BY <1>5, <2>1, <4>1 DEF Met
    <3> QED
      BY <3>1, <3>2
  <2>2. ASSUME NEW i \in 0..N, g[i] # 0, g[i] # f PROVE g[i] \in Met(k, N)
    <3>1. CASE i < p
      BY <2>2, <3>1, k[i] = g[i] DEF Met
    <3>2. CASE ~(i < p)
      <4>1. i # p /\ i - 1 \in 0..N /\ ~(i - 1 < p) /\ i - 1 < N
        BY <1>2, <1>3, <2>2, <3>2
      <4>2. k[i - 1] = g[i]
        BY <4>1, (i - 1) + 1 = i
      <4> QED
        BY <2>2, <4>1, <4>2 DEF Met
    <3> QED
      BY <3>1, <3>2
  <2> HIDE DEF k
  <2> QED
    BY <2>1, <2>2 DEF Met
<1>10. IsWalk(k, h, m, S, N)
  <2> HIDE DEF k, m
  <2> QED
    BY <1>4, <1>8 DEF IsWalk
<1> QED
  BY <1>4, <1>9, <1>10
-----------------------------------------------------------------------------
(* Slots and connections                                                   *)

\* What the theorems suppose of the program: it listens once, at one place.  A slot left
\* behind by a listen point that was closed is linked again by the next.
Careful ==
  /\ \E l : ListenPoints = {l}
  /\ MaxListens <= 1

\* The table of slots is finite, and 0 is not in it: it stands for NULL.
LEMMA FdsFinite ==
  /\ MaxFd \in Nat /\ MaxFd > 2
  /\ IsFiniteSet(Fds) /\ Cardinality(Fds) = MaxFd
  /\ Nil = 0 /\ Nil \notin Fds /\ EventFd \in Own /\ TimerFd \in Own /\ Own \subseteq Fds
<1>1. Cardinality(ListenPoints) \in Nat
  BY SlotsAssumption, FS_CardinalityType
<1>2. MaxFd \in Nat /\ MaxFd > 2
  BY <1>1, SlotsAssumption
<1>3. IsFiniteSet(1..MaxFd) /\ Cardinality(1..MaxFd) = MaxFd
  BY <1>2, FS_Interval
<1> QED
  BY <1>2, <1>3 DEF Fds, Nil, EventFd, TimerFd, Own
-----------------------------------------------------------------------------
(* The chain *)

\* Chain is the walk from head: its recursive definition has a solution.
LEMMA ChainWalk ==
  head \in Fds /\ nxt \in [Fds -> Fds \cup {Nil}] => IsWalk(Chain, head, nxt, Fds, MaxFd)
<1> SUFFICES ASSUME head \in Fds, nxt \in [Fds -> Fds \cup {Nil}]
             PROVE  IsWalk(Chain, head, nxt, Fds, MaxFd)
  OBVIOUS
<1> DEFINE Eq(g) == g = [i \in 0..MaxFd |->
              IF i = 0 THEN head ELSE IF g[i - 1] = Nil THEN Nil ELSE nxt[g[i - 1]]]
<1>1. MaxFd \in Nat /\ 0 \notin Fds /\ Nil = 0
  BY FdsFinite
<1>2. PICK g : IsWalk(g, head, nxt, Fds, MaxFd)
  <2>1. head \in Fds \cup {0} /\ nxt \in [Fds -> Fds \cup {0}]
    BY <1>1
  <2> QED
    BY ONLY <1>1, <2>1, WalkExists
<1>3. Eq(g)
  <2>1. g = [i \in 0..MaxFd |-> g[i]]
    BY <1>2 DEF IsWalk
  <2>2. ASSUME NEW i \in 0..MaxFd
        PROVE  g[i] = IF i = 0 THEN head ELSE IF g[i - 1] = Nil THEN Nil ELSE nxt[g[i - 1]]
    BY <1>1, <1>2, i = 0 \/ i \in 1..MaxFd DEF IsWalk
  <2> QED
    BY <2>1, <2>2
<1>4. Chain = CHOOSE k : Eq(k)
  BY DEF Chain
<1>5. Eq(Chain)
  <2> HIDE DEF Eq
  <2> QED
    BY <1>3, <1>4
<1> DEFINE Same == {i \in 0..MaxFd : Chain[i] = g[i]}
<1>6. 0 \in Same
  <2>1. Chain[0] = head /\ g[0] = head /\ 0 \in 0..MaxFd
    BY <1>1, <1>2, <1>5 DEF IsWalk
  <2> QED
    BY <2>1
<1>7. ASSUME NEW i \in 1..MaxFd, i - 1 \in Same PROVE i \in Same
  <2>1. i \in 0..MaxFd /\ i # 0 /\ Chain[i - 1] = g[i - 1]
    BY <1>1, <1>7
  <2>2. Chain[i] = IF Chain[i - 1] = Nil THEN Nil ELSE nxt[Chain[i - 1]]
    BY <1>5, <2>1
  <2>3. g[i] = IF g[i - 1] = 0 THEN 0 ELSE nxt[g[i - 1]]
    BY <1>2 DEF IsWalk
  <2> QED
    BY <1>1, <2>1, <2>2, <2>3
<1>8. 0..MaxFd \subseteq Same
  <2> HIDE DEF Same
  <2> QED
    BY <1>1, <1>6, <1>7, Climb
<1>9. Chain = g
  <2>1. Chain = [i \in 0..MaxFd |-> Chain[i]]
    BY <1>5
  <2>2. g = [i \in 0..MaxFd |-> g[i]]
    BY <1>2 DEF IsWalk
  <2>3. \A i \in 0..MaxFd : Chain[i] = g[i]
    BY <1>8
  <2> QED
    BY <2>1, <2>2, <2>3
<1> QED
  BY <1>2, <1>9

\* The same of the next state.
LEMMA ChainWalkNext ==
  (head \in Fds /\ nxt \in [Fds -> Fds \cup {Nil}])' =>
    IsWalk(Chain', head', nxt', Fds, MaxFd)
<1>1. (head \in Fds /\ nxt \in [Fds -> Fds \cup {Nil}] => IsWalk(Chain, head, nxt, Fds, MaxFd))'
  BY ChainWalk, PTL
<1> QED
  BY <1>1 DEF IsWalk

\* What another walk to the same cells says of the chain.
LEMMA ChainBecomes ==
  ASSUME (head \in Fds /\ nxt \in [Fds -> Fds \cup {Nil}])',
         NEW k, IsWalk(k, head', nxt', Fds, MaxFd), k[MaxFd] = 0
  PROVE  Ends' /\ Listed' = Met(k, MaxFd)
<1>1. Chain' = k
  BY ChainWalkNext, WalkUnique, FdsFinite
<1> QED
  BY <1>1, FdsFinite DEF Ends, Listed, Met

\* Only the pointers of the listed slots matter to it.
LEMMA ChainKept ==
  ASSUME TypeOK, Ends, head' = head, nxt' \in [Fds -> Fds \cup {Nil}],
         \A f \in Listed : nxt'[f] = nxt[f]
  PROVE  Ends' /\ Listed' = Listed
<1>1. IsWalk(Chain, head, nxt, Fds, MaxFd) /\ Chain[MaxFd] = 0 /\ Listed = Met(Chain, MaxFd)
  BY ChainWalk, FdsFinite DEF TypeOK, Ends, Listed, Met
<1>2. IsWalk(Chain, head', nxt', Fds, MaxFd)
  BY <1>1, WalkElsewhere, FdsFinite
<1> QED
  BY <1>1, <1>2, ChainBecomes DEF TypeOK

\* onion_poller_add puts one slot more into the chain ...
LEMMA ChainAdd ==
  ASSUME TypeOK, Ends, NEW f \in Fds \ Listed, head' = head,
         nxt' = [nxt EXCEPT ![f] = nxt[head], ![head] = f]
  PROVE  Ends' /\ Listed' = Listed \cup {f} /\ nxt' \in [Fds -> Fds \cup {Nil}]
<1>1. IsWalk(Chain, head, nxt, Fds, MaxFd) /\ Chain[MaxFd] = 0 /\ Listed = Met(Chain, MaxFd)
  BY ChainWalk, FdsFinite DEF TypeOK, Ends, Listed, Met
<1>2. head \in Fds /\ nxt \in [Fds -> Fds \cup {0}]
  BY FdsFinite DEF TypeOK
<1>3. nxt' \in [Fds -> Fds \cup {0}]
  BY <1>2
<1>4. PICK k : /\ IsWalk(k, head, nxt', Fds, MaxFd) /\ k[MaxFd] = 0
               /\ Met(k, MaxFd) = Met(Chain, MaxFd) \cup {f}
  <2>1. /\ MaxFd \in Nat /\ 0 \notin Fds /\ IsFiniteSet(Fds) /\ Cardinality(Fds) = MaxFd
        /\ MaxFd > 0 /\ f \in Fds /\ f \notin Met(Chain, MaxFd)
    BY <1>1, FdsFinite
  <2>2. nxt'[head] = f /\ \A c \in Fds \ {f, head} : nxt'[c] = nxt[c]
    BY <1>2
  <2>3. f # head
    BY <1>1, <1>2, FdsFinite DEF IsWalk, Met
  <2>4. nxt'[f] = nxt[head]
    BY <1>2, <2>3
  <2> QED
    BY ONLY <1>1, <1>2, <2>1, <2>2, <2>4, WalkInsert
<1> QED
  BY <1>1, <1>2, <1>3, <1>4, ChainBecomes, FdsFinite

\* ... also when it is wiped before.
LEMMA ChainAddNew ==
  ASSUME TypeOK, Ends, NEW f \in Fds \ Listed, head' = head,
         nxt' = [[nxt EXCEPT ![f] = Nil] EXCEPT ![f] = [nxt EXCEPT ![f] = Nil][head], ![head] = f]
  PROVE  Ends' /\ Listed' = Listed \cup {f} /\ nxt' \in [Fds -> Fds \cup {Nil}]
<1>1. head \in Fds /\ head # f /\ nxt \in [Fds -> Fds \cup {Nil}]
  <2>1. head \in Fds /\ nxt \in [Fds -> Fds \cup {Nil}]
    BY DEF TypeOK
  <2>2. head = Chain[0] /\ head # Nil /\ 0 \in 0..MaxFd
    BY <2>1, ChainWalk, FdsFinite DEF IsWalk
  <2> QED
    BY <2>1, <2>2 DEF Listed
<1>2. nxt' = [nxt EXCEPT ![f] = nxt[head], ![head] = f]
  BY <1>1
<1> QED
  BY <1>2, ChainAdd

\* ... and onion_poller_remove takes one out.
LEMMA ChainRemove ==
  ASSUME TypeOK, Ends, NEW f \in Listed, f # head, head' = head,
         nxt' = [g \in Fds |-> IF g \in Listed /\ nxt[g] = f THEN nxt[f] ELSE nxt[g]]
  PROVE  Ends' /\ Listed' = Listed \ {f} /\ nxt' \in [Fds -> Fds \cup {Nil}]
<1>1. IsWalk(Chain, head, nxt, Fds, MaxFd) /\ Chain[MaxFd] = 0 /\ Listed = Met(Chain, MaxFd)
  BY ChainWalk, FdsFinite DEF TypeOK, Ends, Listed, Met
<1>2. head \in Fds /\ nxt \in [Fds -> Fds \cup {0}]
  BY FdsFinite DEF TypeOK
<1>3. f \in Fds
  BY <1>1 DEF IsWalk, Met
<1>4. nxt' \in [Fds -> Fds \cup {0}]
  BY <1>2, <1>3
<1> DEFINE m == [g \in Fds |-> IF g \in Met(Chain, MaxFd) /\ nxt[g] = f THEN nxt[f] ELSE nxt[g]]
<1>5. PICK k : /\ IsWalk(k, head, m, Fds, MaxFd) /\ k[MaxFd] = 0
               /\ Met(k, MaxFd) = Met(Chain, MaxFd) \ {f}
  <2>1. MaxFd \in Nat /\ 0 \notin Fds /\ f \in Met(Chain, MaxFd) /\ f # head
    BY <1>1, FdsFinite
  <2> QED
    BY ONLY <1>1, <1>2, <2>1, WalkDelete
<1> QED
  BY <1>1, <1>2, <1>4, <1>5, ChainBecomes, FdsFinite

\* A listed slot is one of the table.
LEMMA ListedFds == TypeOK => Listed \subseteq Fds
<1> SUFFICES ASSUME TypeOK, NEW i \in 0..MaxFd, Chain[i] # Nil PROVE Chain[i] \in Fds
  BY DEF Listed
<1>1. Chain \in [0..MaxFd -> Fds \cup {0}]
  BY ChainWalk DEF TypeOK, IsWalk
<1> QED
  BY <1>1, FdsFinite
-----------------------------------------------------------------------------
\* The lowest free descriptor is a free one.
LEMMA LowestFree == ASSUME TypeOK, Free # {} PROVE Lowest \in Fds /\ file[Lowest] = None
<1>1. Free \subseteq Nat
  BY FdsFinite DEF Free, Fds
<1>2. \E f \in Free : \A g \in Free : f <= g
  BY <1>1, LeastNumber
<1>3. Lowest \in Free
  BY <1>2 DEF Lowest
<1> QED
  BY <1>3 DEF Free
-----------------------------------------------------------------------------
(* Sound is inductive: one lemma for each action                        *)

USE SlotsAssumption, FdsFinite, ListedFds
  DEF Goto, slots, chain, conns, server, TypeOK, Files, Stopped, Listening, Linked, Works,
      Accepting, Serving, Apart, HandedOver, NoneForgotten, Forgotten, Sound, Careful,
      history

-----------------------------------------------------------------------------
(* onion_listen and onion_listen_stop *)

\* The listen point gets the lowest free descriptor, whose slot is in no chain.
LEMMA ListenStep ==
  ASSUME Sound, NEW l \in ListenPoints, Listen(l)
  PROVE  Sound' /\ (\E f \in Fds : Set!Add(f))
<1> USE DEF Listen, SlotNew, Link
<1>1. Lowest \in Fds /\ file[Lowest] = None /\ Lowest \notin Listed
  BY LowestFree
<1>2. Ends' /\ Listed' = Listed \cup {Lowest} /\ nxt' \in [Fds -> Fds \cup {Nil}]
  BY <1>1, ChainAddNew
<1>3. TypeOK'
  BY <1>1, <1>2
<1>4. Files'
  BY <1>1, <1>2
<1>5. Listening'
  BY <1>1, <1>2
<1>6. Linked'
  BY <1>1, <1>2
<1>7. ASSUME NEW u \in Threads PROVE Accepting(u)'
  BY <1>1, <1>2
<1>8. ASSUME NEW u \in Threads PROVE Serving(u)'
  BY <1>1, <1>2
<1>9. Apart'
  BY <1>1, <1>2
<1>10. HandedOver'
  BY <1>1, <1>2
<1>11. NoneForgotten'
  BY <1>1, <1>2
<1> QED
  BY ONLY <1>1, <1>2, <1>3, <1>4, <1>5, <1>6, <1>7, <1>8, <1>9, <1>10, <1>11 DEF Sound, Set!Add

\* The only call of onion_listen that there is.
LEMMA StartPoolStep ==
  ASSUME Careful, Sound, StartPool
  PROVE  Sound' /\ Listed' = Listed
<1> USE DEF StartPool
<1>1. Ends' /\ Listed' = Listed
  BY ChainKept
<1>2. TypeOK'
  BY <1>1
<1>3. Files'
  BY <1>1
<1>4. Listening'
  BY <1>1
<1>5. Linked'
  BY <1>1
<1>6. ASSUME NEW u \in Threads PROVE Accepting(u)'
  BY <1>1
<1>7. ASSUME NEW u \in Threads PROVE Serving(u)'
  BY <1>1
<1>8. Apart'
  BY <1>1
<1>9. HandedOver'
  BY <1>1
<1>10. NoneForgotten'
  BY <1>1
<1> QED
  BY ONLY <1>1, <1>2, <1>3, <1>4, <1>5, <1>6, <1>7, <1>8, <1>9, <1>10 DEF Sound

\* The slot stays in the chain, and nothing is accepted any more.
LEMMA StopListeningStep ==
  ASSUME Careful, Sound, NEW l \in ListenPoints, StopListening(l)
  PROVE  Sound' /\ Listed' = Listed
<1> USE DEF StopListening, Closed
<1>1. Ends' /\ Listed' = Listed
  BY ChainKept
<1>2. TypeOK'
  BY <1>1
<1>3. Files'
  BY <1>1
<1>4. Listening'
  BY <1>1
<1>5. Linked'
  BY <1>1
<1>6. ASSUME NEW u \in Threads PROVE Accepting(u)'
  BY <1>1
<1>7. ASSUME NEW u \in Threads PROVE Serving(u)'
  BY <1>1
<1>8. Apart'
  BY <1>1
<1>9. HandedOver'
  BY <1>1
<1>10. NoneForgotten'
  BY <1>1
<1> QED
  BY ONLY <1>1, <1>2, <1>3, <1>4, <1>5, <1>6, <1>7, <1>8, <1>9, <1>10 DEF Sound

\* Every thread waits, so nobody works on a request.
LEMMA StopPoolStep ==
  ASSUME Sound, StopPool
  PROVE  Sound' /\ Listed' = Listed
<1> USE DEF StopPool
<1>1. Ends' /\ Listed' = Listed
  BY ChainKept
<1>2. TypeOK'
  BY <1>1
<1>3. Files'
  BY <1>1
<1>4. Listening'
  BY <1>1
<1>5. Linked'
  BY <1>1
<1>6. ASSUME NEW u \in Threads PROVE Accepting(u)'
  BY <1>1
<1>7. ASSUME NEW u \in Threads PROVE Serving(u)'
  BY <1>1
<1>8. Apart'
  BY <1>1
<1>9. HandedOver'
  BY <1>1
<1>10. NoneForgotten'
  BY <1>1
<1> QED
  BY ONLY <1>1, <1>2, <1>3, <1>4, <1>5, <1>6, <1>7, <1>8, <1>9, <1>10 DEF Sound

-----------------------------------------------------------------------------
(* onion_poller_poll *)

\* A slot that epoll returns is in the chain, and nobody works on its request.
LEMMA TakeStep ==
  ASSUME Sound, NEW t \in Threads, NEW f \in Fds, Take(t, f)
  PROVE  Sound' /\ Listed' = Listed
<1> USE DEF Take, Disarm
<1>1. Ends' /\ Listed' = Listed
  BY ChainKept
<1>2. TypeOK'
  BY <1>1
<1>3. Files'
  BY <1>1
<1>4. Listening'
  BY <1>1
<1>5. Linked'
  BY <1>1
<1>6. ASSUME NEW u \in Threads PROVE Accepting(u)'
  <2>1. CASE u = t
    BY <1>1, <2>1
  <2>2. CASE u # t
    BY <1>1, <2>2
  <2> QED
    BY <2>1, <2>2
<1>7. ASSUME NEW u \in Threads PROVE Serving(u)'
  <2>1. CASE u = t
    BY <1>1, <2>1
  <2>2. CASE u # t
    BY <1>1, <2>2
  <2> QED
    BY <2>1, <2>2
<1>8. Apart'
  BY <1>1
<1>9. HandedOver'
  BY <1>1
<1>10. NoneForgotten'
  BY <1>1
<1> QED
  BY ONLY <1>1, <1>2, <1>3, <1>4, <1>5, <1>6, <1>7, <1>8, <1>9, <1>10 DEF Sound

\* What was in the slot is now what the thread works on.
LEMMA CallStep ==
  ASSUME Sound, NEW t \in Threads, Call(t)
  PROVE  Sound' /\ Listed' = Listed
<1> USE DEF Call
<1>1. Ends' /\ Listed' = Listed
  BY ChainKept
<1>2. TypeOK'
  BY <1>1
<1>3. Files'
  BY <1>1
<1>4. Listening'
  BY <1>1
<1>5. Linked'
  BY <1>1
<1>6. ASSUME NEW u \in Threads PROVE Accepting(u)'
  <2>1. CASE u = t
    BY <1>1, <2>1
  <2>2. CASE u # t
    BY <1>1, <2>2
  <2> QED
    BY <2>1, <2>2
<1>7. ASSUME NEW u \in Threads PROVE Serving(u)'
  <2>1. CASE u = t
    BY <1>1, <2>1
  <2>2. CASE u # t
    BY <1>1, <2>2
  <2> QED
    BY <2>1, <2>2
<1>8. Apart'
  BY <1>1
<1>9. HandedOver'
  BY <1>1
<1>10. NoneForgotten'
  BY <1>1
<1> QED
  BY ONLY <1>1, <1>2, <1>3, <1>4, <1>5, <1>6, <1>7, <1>8, <1>9, <1>10 DEF Sound

\* Nobody else works on the request that epoll may report again.
LEMMA RearmStep ==
  ASSUME Sound, NEW t \in Threads, Rearm(t)
  PROVE  Sound' /\ Listed' = Listed
<1> USE DEF Rearm
<1>1. Ends' /\ Listed' = Listed
  BY ChainKept
<1>2. TypeOK'
  BY <1>1
<1>3. Files'
  BY <1>1
<1>4. Listening'
  BY <1>1
<1>5. Linked'
  BY <1>1
<1>6. ASSUME NEW u \in Threads PROVE Accepting(u)'
  <2>1. CASE u = t
    BY <1>1, <2>1
  <2>2. CASE u # t
    BY <1>1, <2>2
  <2> QED
    BY <2>1, <2>2
<1>7. ASSUME NEW u \in Threads PROVE Serving(u)'
  <2>1. CASE u = t
    BY <1>1, <2>1
  <2>2. CASE u # t
    BY <1>1, <2>2
  <2> QED
    BY <2>1, <2>2
<1>8. Apart'
  BY <1>1
<1>9. HandedOver'
  BY <1>1
<1>10. NoneForgotten'
  BY <1>1
<1> QED
  BY ONLY <1>1, <1>2, <1>3, <1>4, <1>5, <1>6, <1>7, <1>8, <1>9, <1>10 DEF Sound

\* The slot is disabled: no thread can take it.
LEMMA UnregisterStep ==
  ASSUME Sound, NEW t \in Threads, Unregister(t)
  PROVE  Sound' /\ Listed' = Listed
<1> USE DEF Unregister
<1>1. Ends' /\ Listed' = Listed
  BY ChainKept
<1>2. TypeOK'
  BY <1>1
<1>3. Files'
  BY <1>1
<1>4. Listening'
  BY <1>1
<1>5. Linked'
  BY <1>1
<1>6. ASSUME NEW u \in Threads PROVE Accepting(u)'
  <2>1. CASE u = t
    BY <1>1, <2>1
  <2>2. CASE u # t
    BY <1>1, <2>2
  <2> QED
    BY <2>1, <2>2
<1>7. ASSUME NEW u \in Threads PROVE Serving(u)'
  <2>1. CASE u = t
    BY <1>1, <2>1
  <2>2. CASE u # t
    BY <1>1, <2>2
  <2> QED
    BY <2>1, <2>2
<1>8. Apart'
  BY <1>1
<1>9. HandedOver'
  BY <1>1
<1>10. NoneForgotten'
  BY <1>1
<1> QED
  BY ONLY <1>1, <1>2, <1>3, <1>4, <1>5, <1>6, <1>7, <1>8, <1>9, <1>10 DEF Sound

\* The slot leaves the chain; it is neither the eventfd's nor the timerfd's.
LEMMA RemoveStep ==
  ASSUME Sound, NEW t \in Threads, Remove(t)
  PROVE  Sound' /\ (\E f \in Fds : Set!Remove(f))
<1> USE DEF Remove, Unlink
<1>1. el[t] \in Fds /\ el[t] \in Listed \ Own
  <2>1. Serving(t) /\ pc[t] = "unlink" /\ el[t] \in Fds \cup {Nil}
    OBVIOUS
  <2>2. el[t] \in Listed /\ data[el[t]] \in Requests
    BY ONLY <2>1, Sound DEF Serving, Sound, TypeOK
  <2>3. Listed \subseteq Fds /\ \A f \in Own : data[f] \notin Requests
    OBVIOUS
  <2> QED
    BY ONLY <2>2, <2>3
<1>2. head' = head /\ nxt' = [g \in Fds |-> IF g \in Listed /\ nxt[g] = el[t] THEN nxt[el[t]]
                                      ELSE nxt[g]]
  BY <1>1
<1>3. Ends' /\ Listed' = Listed \ {el[t]} /\ nxt' \in [Fds -> Fds \cup {Nil}]
  <2>1. TypeOK /\ Ends /\ el[t] # head
    BY <1>1
  <2> QED
    BY ONLY <1>1, <1>2, <2>1, ChainRemove
<1>4. TypeOK'
  BY <1>1, <1>2, <1>3
<1>5. Files'
  BY <1>1, <1>2, <1>3
<1>6. Listening'
  BY <1>1, <1>2, <1>3
<1>7. Linked'
  BY <1>1, <1>2, <1>3
<1>8. ASSUME NEW u \in Threads PROVE Accepting(u)'
  <2>1. CASE u = t
    BY <1>1, <1>2, <1>3, <2>1
  <2>2. CASE u # t
    BY <1>1, <1>2, <1>3, <2>2
  <2> QED
    BY <2>1, <2>2
<1>9. ASSUME NEW u \in Threads PROVE Serving(u)'
  <2>1. CASE u = t
    BY <1>1, <1>2, <1>3, <2>1
  <2>2. CASE u # t
    BY <1>1, <1>2, <1>3, <2>2
  <2> QED
    BY <2>1, <2>2
<1>10. Apart'
  BY <1>1, <1>2, <1>3
<1>11. HandedOver'
  BY <1>1, <1>2, <1>3
<1>12. NoneForgotten'
  BY <1>1, <1>2, <1>3
<1> QED
  BY ONLY <1>1, <1>2, <1>3, <1>4, <1>5, <1>6, <1>7, <1>8, <1>9, <1>10, <1>11, <1>12
     DEF Sound, Set!Remove

\* The descriptor is closed and the request freed, unless it was given away.
LEMMA ReleaseStep ==
  ASSUME Sound, NEW t \in Threads, Release(t)
  PROVE  Sound' /\ Listed' = Listed
<1> USE DEF Release, Closed
<1>1. Ends' /\ Listed' = Listed
  BY ChainKept
<1>2. TypeOK'
  BY <1>1
<1>3. Files'
  BY <1>1
<1>4. Listening'
  BY <1>1
<1>5. Linked'
  BY <1>1
<1>6. ASSUME NEW u \in Threads PROVE Accepting(u)'
  <2>1. CASE u = t
    BY <1>1, <2>1
  <2>2. CASE u # t
    BY <1>1, <2>2
  <2> QED
    BY <2>1, <2>2
<1>7. ASSUME NEW u \in Threads PROVE Serving(u)'
  <2>1. CASE u = t
    BY <1>1, <2>1
  <2>2. CASE u # t
    BY <1>1, <2>2
  <2> QED
    BY <2>1, <2>2
<1>8. Apart'
  BY <1>1
<1>9. HandedOver'
  BY <1>1
<1>10. NoneForgotten'
  BY <1>1
<1> QED
  BY ONLY <1>1, <1>2, <1>3, <1>4, <1>5, <1>6, <1>7, <1>8, <1>9, <1>10 DEF Sound

-----------------------------------------------------------------------------
(* onion_listen_point_accept *)

\* The new connection gets a descriptor whose slot is in no chain.
LEMMA AcceptStep ==
  ASSUME Sound, NEW t \in Threads, Accept(t)
  PROVE  Sound' /\ Listed' = Listed
<1> USE DEF Accept
<1>1. Ends' /\ Listed' = Listed
  BY ChainKept
<1>2. TypeOK'
  BY <1>1, LowestFree
<1>3. Files'
  BY <1>1, LowestFree
<1>4. Listening'
  BY <1>1, LowestFree
<1>5. Linked'
  BY <1>1, LowestFree
<1>6. ASSUME NEW u \in Threads PROVE Accepting(u)'
  <2>1. CASE u = t
    BY <1>1, <2>1, LowestFree
  <2>2. CASE u # t
    BY <1>1, <2>2, LowestFree
  <2> QED
    BY <2>1, <2>2
<1>7. ASSUME NEW u \in Threads PROVE Serving(u)'
  <2>1. CASE u = t
    BY <1>1, <2>1, LowestFree
  <2>2. CASE u # t
    BY <1>1, <2>2, LowestFree
  <2> QED
    BY <2>1, <2>2
<1>8. Apart'
  BY <1>1, LowestFree
<1>9. HandedOver'
  BY <1>1, LowestFree
<1>10. NoneForgotten'
  BY <1>1, LowestFree
<1> QED
  BY ONLY <1>1, <1>2, <1>3, <1>4, <1>5, <1>6, <1>7, <1>8, <1>9, <1>10 DEF Sound

\* A listen point serves no request.
LEMMA AcceptFailsStep ==
  ASSUME Sound, NEW t \in Threads, AcceptFails(t)
  PROVE  Sound' /\ Listed' = Listed
<1> USE DEF AcceptFails
<1>1. Ends' /\ Listed' = Listed
  BY ChainKept
<1>2. TypeOK'
  BY <1>1
<1>3. Files'
  BY <1>1
<1>4. Listening'
  BY <1>1
<1>5. Linked'
  BY <1>1
<1>6. ASSUME NEW u \in Threads PROVE Accepting(u)'
  <2>1. CASE u = t
    BY <1>1, <2>1
  <2>2. CASE u # t
    BY <1>1, <2>2
  <2> QED
    BY <2>1, <2>2
<1>7. ASSUME NEW u \in Threads PROVE Serving(u)'
  <2>1. CASE u = t
    BY <1>1, <2>1
  <2>2. CASE u # t
    BY <1>1, <2>2
  <2> QED
    BY <2>1, <2>2
<1>8. Apart'
  BY <1>1
<1>9. HandedOver'
  BY <1>1
<1>10. NoneForgotten'
  BY <1>1
<1> QED
  BY ONLY <1>1, <1>2, <1>3, <1>4, <1>5, <1>6, <1>7, <1>8, <1>9, <1>10 DEF Sound

\* The slot is written over: nobody else uses it, since it is not in the chain.
LEMMA FillSlotStep ==
  ASSUME Sound, NEW t \in Threads, FillSlot(t)
  PROVE  Sound' /\ Listed' = Listed
<1> USE DEF FillSlot, SlotNew
<1>1. Ends' /\ Listed' = Listed
  <2>1. fd[req[t]] \notin Listed /\ fd[req[t]] \in Fds
    OBVIOUS
  <2> QED
    BY <2>1, ChainKept
<1>2. TypeOK'
  BY <1>1
<1>3. Files'
  BY <1>1
<1>4. Listening'
  BY <1>1
<1>5. Linked'
  BY <1>1
<1>6. ASSUME NEW u \in Threads PROVE Accepting(u)'
  <2>1. CASE u = t
    BY <1>1, <2>1
  <2>2. CASE u # t
    BY <1>1, <2>2
  <2> QED
    BY <2>1, <2>2
<1>7. ASSUME NEW u \in Threads PROVE Serving(u)'
  <2>1. CASE u = t
    BY <1>1, <2>1
  <2>2. CASE u # t
    BY <1>1, <2>2
  <2> QED
    BY <2>1, <2>2
<1>8. Apart'
  BY <1>1
<1>9. HandedOver'
  BY <1>1
<1>10. NoneForgotten'
  BY <1>1
<1> QED
  BY ONLY <1>1, <1>2, <1>3, <1>4, <1>5, <1>6, <1>7, <1>8, <1>9, <1>10 DEF Sound

\* The slot of the new connection joins the chain.
LEMMA AddSlotStep ==
  ASSUME Sound, NEW t \in Threads, AddSlot(t)
  PROVE  Sound' /\ (\E f \in Fds : Set!Add(f))
<1> USE DEF AddSlot, Link
<1>1. /\ fd[req[t]] \in Fds \ Listed
      /\ Ends' /\ Listed' = Listed \cup {fd[req[t]]} /\ nxt' \in [Fds -> Fds \cup {Nil}]
  <2>1. fd[req[t]] \in Fds \ Listed
    OBVIOUS
  <2>2. head' = head /\ nxt' = [nxt EXCEPT ![fd[req[t]]] = nxt[head], ![head] = fd[req[t]]]
    OBVIOUS
  <2>3. TypeOK /\ Ends
    OBVIOUS
  <2> QED
    BY ONLY <2>1, <2>2, <2>3, ChainAdd
<1>2. TypeOK'
  BY <1>1
<1>3. Files'
  BY <1>1
<1>4. Listening'
  BY <1>1
<1>5. Linked'
  BY <1>1
<1>6. ASSUME NEW u \in Threads PROVE Accepting(u)'
  <2>1. CASE u = t
    BY <1>1, <2>1
  <2>2. CASE u # t
    BY <1>1, <2>2
  <2> QED
    BY <2>1, <2>2
<1>7. ASSUME NEW u \in Threads PROVE Serving(u)'
  <2>1. CASE u = t
    BY <1>1, <2>1
  <2>2. CASE u # t
    BY <1>1, <2>2
  <2> QED
    BY <2>1, <2>2
<1>8. Apart'
  BY <1>1
<1>9. HandedOver'
  BY <1>1
<1>10. NoneForgotten'
  BY <1>1
<1> QED
  BY ONLY <1>1, <1>2, <1>3, <1>4, <1>5, <1>6, <1>7, <1>8, <1>9, <1>10 DEF Sound, Set!Add

\* The request is complete before epoll knows it.
LEMMA RegisterStep ==
  ASSUME Sound, NEW t \in Threads, Register(t)
  PROVE  Sound' /\ Listed' = Listed
<1> USE DEF Register
<1>1. Ends' /\ Listed' = Listed
  BY ChainKept
<1>2. TypeOK'
  BY <1>1
<1>3. Files'
  BY <1>1
<1>4. Listening'
  BY <1>1
<1>5. Linked'
  BY <1>1
<1>6. ASSUME NEW u \in Threads PROVE Accepting(u)'
  <2>1. CASE u = t
    BY <1>1, <2>1
  <2>2. CASE u # t
    BY <1>1, <2>2
  <2> QED
    BY <2>1, <2>2
<1>7. ASSUME NEW u \in Threads PROVE Serving(u)'
  <2>1. CASE u = t
    BY <1>1, <2>1
  <2>2. CASE u # t
    BY <1>1, <2>2
  <2> QED
    BY <2>1, <2>2
<1>8. Apart'
  BY <1>1
<1>9. HandedOver'
  BY <1>1
<1>10. NoneForgotten'
  BY <1>1
<1> QED
  BY ONLY <1>1, <1>2, <1>3, <1>4, <1>5, <1>6, <1>7, <1>8, <1>9, <1>10 DEF Sound

\* The connection is forgotten, and known to be.
LEMMA RegisterFailsStep ==
  ASSUME Sound, NEW t \in Threads, RegisterFails(t)
  PROVE  Sound' /\ Listed' = Listed
<1> USE DEF RegisterFails
<1>1. Ends' /\ Listed' = Listed
  BY ChainKept
<1>2. TypeOK'
  BY <1>1
<1>3. Files'
  BY <1>1
<1>4. Listening'
  BY <1>1
<1>5. Linked'
  BY <1>1
<1>6. ASSUME NEW u \in Threads PROVE Accepting(u)'
  <2>1. CASE u = t
    BY <1>1, <2>1
  <2>2. CASE u # t
    BY <1>1, <2>2
  <2> QED
    BY <2>1, <2>2
<1>7. ASSUME NEW u \in Threads PROVE Serving(u)'
  <2>1. CASE u = t
    BY <1>1, <2>1
  <2>2. CASE u # t
    BY <1>1, <2>2
  <2> QED
    BY <2>1, <2>2
<1>8. Apart'
  BY <1>1
<1>9. HandedOver'
  BY <1>1
<1>10. NoneForgotten'
  BY <1>1
<1> QED
  BY ONLY <1>1, <1>2, <1>3, <1>4, <1>5, <1>6, <1>7, <1>8, <1>9, <1>10 DEF Sound

-----------------------------------------------------------------------------
(* The read_ready callback *)

\* The connection is served again.
LEMMA HandlerKeepsStep ==
  ASSUME Sound, NEW t \in Threads, HandlerKeeps(t)
  PROVE  Sound' /\ Listed' = Listed
<1> USE DEF HandlerKeeps
<1>1. Ends' /\ Listed' = Listed
  BY ChainKept
<1>2. TypeOK'
  BY <1>1
<1>3. Files'
  BY <1>1
<1>4. Listening'
  BY <1>1
<1>5. Linked'
  BY <1>1
<1>6. ASSUME NEW u \in Threads PROVE Accepting(u)'
  <2>1. CASE u = t
    BY <1>1, <2>1
  <2>2. CASE u # t
    BY <1>1, <2>2
  <2> QED
    BY <2>1, <2>2
<1>7. ASSUME NEW u \in Threads PROVE Serving(u)'
  <2>1. CASE u = t
    BY <1>1, <2>1
  <2>2. CASE u # t
    BY <1>1, <2>2
  <2> QED
    BY <2>1, <2>2
<1>8. Apart'
  BY <1>1
<1>9. HandedOver'
  BY <1>1
<1>10. NoneForgotten'
  BY <1>1
<1> QED
  BY ONLY <1>1, <1>2, <1>3, <1>4, <1>5, <1>6, <1>7, <1>8, <1>9, <1>10 DEF Sound

\* The connection is over.
LEMMA HandlerClosesStep ==
  ASSUME Sound, NEW t \in Threads, HandlerCloses(t)
  PROVE  Sound' /\ Listed' = Listed
<1> USE DEF HandlerCloses
<1>1. Ends' /\ Listed' = Listed
  BY ChainKept
<1>2. TypeOK'
  BY <1>1
<1>3. Files'
  BY <1>1
<1>4. Listening'
  BY <1>1
<1>5. Linked'
  BY <1>1
<1>6. ASSUME NEW u \in Threads PROVE Accepting(u)'
  <2>1. CASE u = t
    BY <1>1, <2>1
  <2>2. CASE u # t
    BY <1>1, <2>2
  <2> QED
    BY <2>1, <2>2
<1>7. ASSUME NEW u \in Threads PROVE Serving(u)'
  <2>1. CASE u = t
    BY <1>1, <2>1
  <2>2. CASE u # t
    BY <1>1, <2>2
  <2> QED
    BY <2>1, <2>2
<1>8. Apart'
  BY <1>1
<1>9. HandedOver'
  BY <1>1
<1>10. NoneForgotten'
  BY <1>1
<1> QED
  BY ONLY <1>1, <1>2, <1>3, <1>4, <1>5, <1>6, <1>7, <1>8, <1>9, <1>10 DEF Sound

\* The thread keeps the request in its hands until it has let go.
LEMMA HandlerYieldsStep ==
  ASSUME Sound, NEW t \in Threads, HandlerYields(t)
  PROVE  Sound' /\ Listed' = Listed
<1> USE DEF HandlerYields
<1>1. Ends' /\ Listed' = Listed
  BY ChainKept
<1>2. TypeOK'
  BY <1>1
<1>3. Files'
  BY <1>1
<1>4. Listening'
  BY <1>1
<1>5. Linked'
  BY <1>1
<1>6. ASSUME NEW u \in Threads PROVE Accepting(u)'
  <2>1. CASE u = t
    BY <1>1, <2>1
  <2>2. CASE u # t
    BY <1>1, <2>2
  <2> QED
    BY <2>1, <2>2
<1>7. ASSUME NEW u \in Threads PROVE Serving(u)'
  <2>1. CASE u = t
    BY <1>1, <2>1
  <2>2. CASE u # t
    BY <1>1, <2>2
  <2> QED
    BY <2>1, <2>2
<1>8. Apart'
  BY <1>1
<1>9. HandedOver'
  BY <1>1
<1>10. NoneForgotten'
  BY <1>1
<1> QED
  BY ONLY <1>1, <1>2, <1>3, <1>4, <1>5, <1>6, <1>7, <1>8, <1>9, <1>10 DEF Sound

\* The request is still there as long as no worker has overtaken the thread.
LEMMA FlushStep ==
  ASSUME Sound, NEW t \in Threads, Flush(t)
  PROVE  Sound' /\ Listed' = Listed
<1> USE DEF Flush
<1>1. Ends' /\ Listed' = Listed
  BY ChainKept
<1>2. TypeOK'
  BY <1>1
<1>3. Files'
  BY <1>1
<1>4. Listening'
  BY <1>1
<1>5. Linked'
  BY <1>1
<1>6. ASSUME NEW u \in Threads PROVE Accepting(u)'
  <2>1. CASE u = t
    BY <1>1, <2>1
  <2>2. CASE u # t
    BY <1>1, <2>2
  <2> QED
    BY <2>1, <2>2
<1>7. ASSUME NEW u \in Threads PROVE Serving(u)'
  <2>1. CASE u = t
    BY <1>1, <2>1
  <2>2. CASE u # t
    BY <1>1, <2>2
  <2> QED
    BY <2>1, <2>2
<1>8. Apart'
  BY <1>1
<1>9. HandedOver'
  BY <1>1
<1>10. NoneForgotten'
  BY <1>1
<1> QED
  BY ONLY <1>1, <1>2, <1>3, <1>4, <1>5, <1>6, <1>7, <1>8, <1>9, <1>10 DEF Sound

\* The slot is there, and loses what would free the request.
LEMMA DetachStep ==
  ASSUME Sound, NEW t \in Threads, Detach(t)
  PROVE  Sound' /\ Listed' = Listed
<1> USE DEF Detach
<1>1. Ends' /\ Listed' = Listed
  BY ChainKept
<1>2. TypeOK'
  BY <1>1
<1>3. Files'
  BY <1>1
<1>4. Listening'
  BY <1>1
<1>5. Linked'
  BY <1>1
<1>6. ASSUME NEW u \in Threads PROVE Accepting(u)'
  <2>1. CASE u = t
    BY <1>1, <2>1
  <2>2. CASE u # t
    BY <1>1, <2>2
  <2> QED
    BY <2>1, <2>2
<1>7. ASSUME NEW u \in Threads PROVE Serving(u)'
  <2>1. CASE u = t
    BY <1>1, <2>1
  <2>2. CASE u # t
    BY <1>1, <2>2
  <2> QED
    BY <2>1, <2>2
<1>8. Apart'
  BY <1>1
<1>9. HandedOver'
  BY <1>1
<1>10. NoneForgotten'
  BY <1>1
<1> QED
  BY ONLY <1>1, <1>2, <1>3, <1>4, <1>5, <1>6, <1>7, <1>8, <1>9, <1>10 DEF Sound

\* No thread of the pool works on the request that goes.
LEMMA WorkerFreesStep ==
  ASSUME Sound, NEW r \in Requests, WorkerFrees(r), ~ overtaken'
  PROVE  Sound' /\ Listed' = Listed
<1> USE DEF WorkerFrees, Closed
<1>1. Ends' /\ Listed' = Listed
  BY ChainKept
<1>2. TypeOK'
  BY <1>1
<1>3. Files'
  BY <1>1
<1>4. Listening'
  BY <1>1
<1>5. Linked'
  BY <1>1
<1>6. ASSUME NEW u \in Threads PROVE Accepting(u)'
  BY <1>1
<1>7. ASSUME NEW u \in Threads PROVE Serving(u)'
  BY <1>1
<1>8. Apart'
  BY <1>1
<1>9. HandedOver'
  BY <1>1
<1>10. NoneForgotten'
  BY <1>1
<1> QED
  BY ONLY <1>1, <1>2, <1>3, <1>4, <1>5, <1>6, <1>7, <1>8, <1>9, <1>10 DEF Sound

\* A stutter.
LEMMA StutterStep ==
  ASSUME Sound, UNCHANGED vars
  PROVE  Sound' /\ Listed' = Listed
<1> USE DEF vars
<1>1. Ends' /\ Listed' = Listed
  BY ChainKept
<1>2. TypeOK'
  BY <1>1
<1>3. Files'
  BY <1>1
<1>4. Listening'
  BY <1>1
<1>5. Linked'
  BY <1>1
<1>6. ASSUME NEW u \in Threads PROVE Accepting(u)'
  BY <1>1
<1>7. ASSUME NEW u \in Threads PROVE Serving(u)'
  BY <1>1
<1>8. Apart'
  BY <1>1
<1>9. HandedOver'
  BY <1>1
<1>10. NoneForgotten'
  BY <1>1
<1> QED
  BY ONLY <1>1, <1>2, <1>3, <1>4, <1>5, <1>6, <1>7, <1>8, <1>9, <1>10 DEF Sound
-----------------------------------------------------------------------------
(* The theorems *)

\* A poller that was just made satisfies the invariant.
LEMMA InitInv == Init => Sound /\ Set!Init
<1> SUFFICES ASSUME Init PROVE Sound /\ Set!Init
  OBVIOUS
<1> USE DEF Init
<1>1. TypeOK
  <2>1. overtaken \in BOOLEAN /\ refused \subseteq Requests /\ live \subseteq Requests /\ yielded \subseteq Requests
    OBVIOUS
  <2>2. file \in [Fds -> ListenPoints \cup Requests \cup {"own", None}] /\ head \in Fds
        /\ nxt \in [Fds -> Fds \cup {Nil}]
    BY DEF Own, EventFd, TimerFd
  <2>3. /\ data \in [Fds -> ListenPoints \cup Requests \cup {None}] /\ closer \in [Fds -> BOOLEAN]
        /\ epoll \in [Fds -> {"absent", "armed", "disabled"}]
        /\ listenfd \in [ListenPoints -> Fds \cup {Nil}] /\ fd \in [Requests -> Fds \cup {Nil}]
    OBVIOUS
  <2>4. /\ phase \in {"off", "listening", "stopping"} /\ listens \in 0..MaxListens
        /\ el \in [Threads -> Fds \cup {Nil}] /\ req \in [Threads -> Requests \cup {None}]
    OBVIOUS
  <2>5. pc \in [Threads -> {"wait", "call", "rearm", "remove", "unlink", "release", "accept",
                         "slot", "link", "register", "handler", "flush", "detach"}]
    OBVIOUS
  <2> QED
    BY ONLY <2>1, <2>2, <2>3, <2>4, <2>5 DEF TypeOK
<1>2. Ends /\ Listed = Own
  <2> DEFINE k == [i \in 0..MaxFd |-> IF i = 0 THEN EventFd ELSE IF i = 1 THEN TimerFd ELSE 0]
  <2>1. k[0] = EventFd /\ k[1] = TimerFd /\ k[MaxFd] = 0 /\ \A i \in 2..MaxFd : k[i] = 0
    OBVIOUS
  <2>2. IsWalk(k, head, nxt, Fds, MaxFd)
    <3>1. k \in [0..MaxFd -> Fds \cup {0}] /\ k[0] = head
      OBVIOUS
    <3>2. ASSUME NEW i \in 1..MaxFd PROVE k[i] = IF k[i - 1] = 0 THEN 0 ELSE nxt[k[i - 1]]
      BY <2>1, i = 1 \/ i = 2 \/ i \in 3..MaxFd DEF Own, EventFd, TimerFd
    <3> QED
      BY <3>1, <3>2 DEF IsWalk
  <2>3. Chain = k
    BY <1>1, <2>2, ChainWalk, WalkUnique
  <2>4. \A i \in 0..MaxFd : k[i] \in {EventFd, TimerFd, 0}
    OBVIOUS
  <2>5. 0 \in 0..MaxFd /\ 1 \in 0..MaxFd /\ EventFd # Nil /\ TimerFd # Nil
    OBVIOUS
  <2> HIDE DEF k
  <2> QED
    BY <2>1, <2>3, <2>4, <2>5 DEF Ends, Listed, Own
<1>3. Files
  BY <1>1
<1>4. Listening /\ Linked
  BY <1>1, <1>2 DEF Own, EventFd
<1>5. \A t \in Threads : Accepting(t) /\ Serving(t)
  OBVIOUS
<1>6. Apart /\ HandedOver /\ NoneForgotten
  OBVIOUS
<1> QED
  BY <1>1, <1>2, <1>3, <1>4, <1>5, <1>6 DEF Set!Init

HIDE DEF Goto, slots, chain, conns, server, TypeOK, Files, Stopped, Listening, Linked, Works,
      Accepting, Serving, Apart, HandedOver, NoneForgotten, Forgotten, Sound, Careful,
      history

\* Only a worker that frees a request sets overtaken, and nothing takes it back.
LEMMA OvertakenStep ==
  ASSUME overtaken \in BOOLEAN, [Next]_vars
  PROVE  \/ overtaken' = overtaken
         \/ overtaken' = TRUE /\ \E r \in Requests : WorkerFrees(r)
<1> USE DEF history
<1>1. ASSUME NEW l \in ListenPoints, Listen(l) \/ StopListening(l) PROVE overtaken' = overtaken
  BY <1>1 DEF Listen, StopListening
<1>2. CASE StartPool \/ StopPool
  BY <1>2 DEF StartPool, StopPool
<1>3. ASSUME NEW t \in Threads, NEW f \in Fds, Take(t, f) PROVE overtaken' = overtaken
  BY <1>3 DEF Take
<1>4. ASSUME NEW t \in Threads,
             \/ Call(t) \/ Rearm(t) \/ Unregister(t) \/ Remove(t) \/ Release(t)
             \/ Accept(t) \/ AcceptFails(t) \/ FillSlot(t) \/ AddSlot(t)
      PROVE overtaken' = overtaken
  BY <1>4 DEF Call, Rearm, Unregister, Remove, Release, Accept, AcceptFails, FillSlot, AddSlot
<1>5. ASSUME NEW t \in Threads,
             \/ Register(t) \/ RegisterFails(t) \/ HandlerKeeps(t) \/ HandlerCloses(t)
             \/ HandlerYields(t) \/ Flush(t) \/ Detach(t)
      PROVE overtaken' = overtaken
  BY <1>5 DEF Register, RegisterFails, HandlerKeeps, HandlerCloses, HandlerYields, Flush, Detach
<1>6. ASSUME NEW r \in Requests, WorkerFrees(r)
      PROVE overtaken' = overtaken \/ overtaken' = TRUE
  <2>1. CASE \E t \in Threads : req[t] = r
    BY <1>6, <2>1 DEF WorkerFrees
  <2>2. CASE ~ \E t \in Threads : req[t] = r
    BY <1>6, <2>2 DEF WorkerFrees
  <2> QED
    BY <2>1, <2>2
<1>7. CASE UNCHANGED vars
  BY <1>7 DEF vars
<1> QED
  BY ONLY [Next]_vars, <1>1, <1>2, <1>3, <1>4, <1>5, <1>6, <1>7 DEF Next

\* A step is the step of one action, or a stutter.
LEMMA NextSound ==
  ASSUME Careful, Sound, [Next]_vars, ~ overtaken'
  PROVE  Sound' /\ (Listed' = Listed \/ \E f \in Fds : Set!Add(f) \/ Set!Remove(f))
<1> DEFINE Step == Listed' = Listed \/ \E f \in Fds : Set!Add(f) \/ Set!Remove(f)
<1>1. ASSUME NEW l \in ListenPoints, Listen(l) PROVE Sound' /\ Step
  BY <1>1, ListenStep
<1>2. CASE StartPool
  BY <1>2, StartPoolStep
<1>3. ASSUME NEW l \in ListenPoints, StopListening(l) PROVE Sound' /\ Step
  BY <1>3, StopListeningStep
<1>4. CASE StopPool
  BY <1>4, StopPoolStep
<1>5. ASSUME NEW t \in Threads, NEW f \in Fds, Take(t, f) PROVE Sound' /\ Step
  BY <1>5, TakeStep
<1>6. ASSUME NEW t \in Threads, Call(t) PROVE Sound' /\ Step
  BY <1>6, CallStep
<1>7. ASSUME NEW t \in Threads, Rearm(t) PROVE Sound' /\ Step
  BY <1>7, RearmStep
<1>8. ASSUME NEW t \in Threads, Unregister(t) PROVE Sound' /\ Step
  BY <1>8, UnregisterStep
<1>9. ASSUME NEW t \in Threads, Remove(t) PROVE Sound' /\ Step
  BY <1>9, RemoveStep
<1>10. ASSUME NEW t \in Threads, Release(t) PROVE Sound' /\ Step
  BY <1>10, ReleaseStep
<1>11. ASSUME NEW t \in Threads, Accept(t) PROVE Sound' /\ Step
  BY <1>11, AcceptStep
<1>12. ASSUME NEW t \in Threads, AcceptFails(t) PROVE Sound' /\ Step
  BY <1>12, AcceptFailsStep
<1>13. ASSUME NEW t \in Threads, FillSlot(t) PROVE Sound' /\ Step
  BY <1>13, FillSlotStep
<1>14. ASSUME NEW t \in Threads, AddSlot(t) PROVE Sound' /\ Step
  BY <1>14, AddSlotStep
<1>15. ASSUME NEW t \in Threads, Register(t) PROVE Sound' /\ Step
  BY <1>15, RegisterStep
<1>23. ASSUME NEW t \in Threads, RegisterFails(t) PROVE Sound' /\ Step
  BY <1>23, RegisterFailsStep
<1>16. ASSUME NEW t \in Threads, HandlerKeeps(t) PROVE Sound' /\ Step
  BY <1>16, HandlerKeepsStep
<1>17. ASSUME NEW t \in Threads, HandlerCloses(t) PROVE Sound' /\ Step
  BY <1>17, HandlerClosesStep
<1>18. ASSUME NEW t \in Threads, HandlerYields(t) PROVE Sound' /\ Step
  BY <1>18, HandlerYieldsStep
<1>19. ASSUME NEW t \in Threads, Flush(t) PROVE Sound' /\ Step
  BY <1>19, FlushStep
<1>20. ASSUME NEW t \in Threads, Detach(t) PROVE Sound' /\ Step
  BY <1>20, DetachStep
<1>21. ASSUME NEW r \in Requests, WorkerFrees(r) PROVE Sound' /\ Step
  BY <1>21, WorkerFreesStep
<1>22. CASE UNCHANGED vars
  BY <1>22, StutterStep
<1> QED
  BY ONLY [Next]_vars, <1>1, <1>2, <1>3, <1>4, <1>5, <1>6, <1>7, <1>8, <1>9, <1>10, <1>11,
          <1>12, <1>13, <1>14, <1>15, <1>16, <1>17, <1>18, <1>19, <1>20, <1>21, <1>22, <1>23
     DEF Next

\* The same as long as no worker has overtaken the poller, and nothing is said afterwards.
LEMMA NextInv ==
  ASSUME Careful, SlotsInv, [Next]_vars
  PROVE  SlotsInv' /\ [Set!Next]_<<Listed, overtaken>>
<1>1. CASE overtaken' = TRUE
  <2>1. CASE overtaken
    BY <1>1, <2>1 DEF SlotsInv, Set!Next, Set!Misuse
  <2>2. CASE ~ overtaken
    <3> SUFFICES Listed' = Listed
      BY <1>1 DEF SlotsInv, Set!Next, Set!Misuse
    <3>1. PICK r \in Requests : WorkerFrees(r)
      BY <1>1, <2>2, OvertakenStep DEF SlotsInv
    <3> QED
      BY <2>2, <3>1, ChainKept DEF SlotsInv, Sound, Linked, TypeOK, WorkerFrees, slots
  <2> QED
    BY <2>1, <2>2
<1>2. CASE overtaken' # TRUE
  <2>1. overtaken' = overtaken /\ ~ overtaken' /\ Sound
    BY <1>2, OvertakenStep DEF SlotsInv
  <2> QED
    BY <2>1, NextSound DEF SlotsInv, Set!Next
<1> QED
  BY <1>1, <1>2

\* SlotsInv always holds, for any number of threads, connections and descriptors.
THEOREM SlotsInvHolds == ASSUME Careful PROVE Spec => []SlotsInv
<1>1. Init => SlotsInv
  BY InitInv DEF SlotsInv, Sound, TypeOK
<1>2. SlotsInv /\ [Next]_vars => SlotsInv'
  BY NextInv
<1> QED
  BY <1>1, <1>2, PTL DEF Spec

\* The chain of slots is never cut short, and no slot in it is that of a connection that is
\* gone: what the timer closes is idle for that long (poller.c:255-300).
THEOREM ChainSoundHolds == ASSUME Careful PROVE Spec => []ChainSound
<1>1. SlotsInv => ChainSound
  BY SlotsAssumption, ListedFds DEF SlotsInv, Sound, Files, Linked, ChainSound
<1> QED
  BY <1>1, SlotsInvHolds, PTL

\* One-shot registrations keep two threads out of the callback of one connection.
THEOREM CallbackExclusiveHolds == ASSUME Careful PROVE Spec => []CallbackExclusive
<1>1. SlotsInv => CallbackExclusive
  BY SlotsAssumption, FdsFinite, ListedFds
     DEF SlotsInv, Sound, TypeOK, Files, Works, Serving, Apart, CallbackExclusive
<1> QED
  BY <1>1, SlotsInvHolds, PTL

\* A worker that frees a request before the thread of the pool has let go of it is the only
\* way to a use after free: the reuse of numbers and slots is none.
THEOREM FreedOnlyByWorkerHolds == ASSUME Careful PROVE Spec => []FreedOnlyByWorker
<1>1. SlotsInv => FreedOnlyByWorker
  BY SlotsAssumption DEF SlotsInv, Sound, Accepting, Serving, HandedOver, NoUseAfterFree,
                         FreedOnlyByWorker
<1> QED
  BY <1>1, SlotsInvHolds, PTL

\* Whatever way a callback ends, the connection is registered again or freed.
THEOREM NoneForgottenHolds == ASSUME Careful PROVE Spec => [](overtaken \/ NoneForgotten)
<1>1. SlotsInv => overtaken \/ NoneForgotten
  BY DEF SlotsInv, Sound
<1> QED
  BY <1>1, SlotsInvHolds, PTL

\* The chain of slots implements a set of descriptors: the links are never lost, and adding
\* or removing one leaves the others.
THEOREM ImplementsSetHolds == ASSUME Careful PROVE Spec => ImplementsSet
<1>1. Init => Set!Init
  BY InitInv
<1>2. SlotsInv /\ [Next]_vars => [Set!Next]_<<Listed, overtaken>>
  BY NextInv
<1> QED
  BY <1>1, <1>2, SlotsInvHolds, PTL DEF Spec, ImplementsSet, Set!Spec

==============================================================================
