--------------------------- MODULE FilesProofs ---------------------------
(***************************************************************************)
(* Requests that meet in the file system: what each has been told of its   *)
(* path is so, unless another changed it.                                  *)
(***************************************************************************)
EXTENDS Files, FiniteSetTheorems, SequenceTheorems, TLAPS

\* What a step of thread u leaves to the others: what it changes in the tree is at its own
\* path and they are told, and an upload that waits stays what it is.
Apart(u) ==
  /\ pc' = [pc EXCEPT ![u] = pc'[u]] /\ req' = [req EXCEPT ![u] = req'[u]]
  /\ op' = [op EXCEPT ![u] = op'[u]] /\ answer' = [answer EXCEPT ![u] = answer'[u]]
  /\ before' = [before EXCEPT ![u] = before'[u]]
  /\ inodes' \in Seq(Inode) /\ DOMAIN inodes \subseteq DOMAIN inodes'
  /\ \A i \in DOMAIN inodes : inodes'[i].dir = inodes[i].dir
  /\ \A q \in Paths : q # req[u].path => fs'[q] = fs[q]
  /\ \A i \in DOMAIN inodes :
       inodes'[i] = inodes[i] \/ \A q \in Paths : fs[q] = i => q = req[u].path
  /\ \A t \in Threads \ {u} :
       req[t].method = "PUT" => inodes'[op[t].file].blocks = inodes[op[t].file].blocks
  /\ \/ /\ fs' = fs /\ \A i \in DOMAIN inodes : inodes'[i] = inodes[i]
        /\ \A t \in Threads \ {u} : disturbed'[t] = disturbed[t]
     \/ Touches(u, req[u].path)
  /\ otherDevice' = otherDevice /\ (shortened => shortened')

\* The new names and files of a step are new to the other threads.
Fresh(u) ==
  LET p == req[u].path
      new == Len(inodes) + 1
  IN /\ p \in Paths /\ fs'[p] # fs[p] =>
          \/ fs'[p] \in {Missing, new}
          \/ req[u].method = "PUT" /\ fs'[p] = op[u].file /\ pc'[u] = "done" /\ ~otherDevice
     /\ \/ op'[u].dest \in {op[u].dest, Missing, new}
        \/ otherDevice /\ p \in Paths /\ op'[u].dest = fs[p]
     /\ req'[u].method = "PUT" =>
          \/ op'[u].file = op[u].file /\ req[u].method = "PUT"
          \/ op'[u].file = new

\* A path is a prefix of itself.
LEMMA PrefixItself ==
  ASSUME NEW p \in Paths
  PROVE  IsPrefix(p, p)
<1>1. p \in Seq(ToSet(p))
  BY FilesAssumption
<1> QED
  BY <1>1 DEF IsPrefix

\* Its parent is a path, and a prefix of it.
LEMMA PrefixParent ==
  ASSUME NEW p \in Paths, p # <<>>
  PROVE  Parent(p) \in Paths /\ IsPrefix(Parent(p), p)
<1>1. p \in Seq(ToSet(p)) /\ Front(p) \in Paths
  BY FilesAssumption
<1> DEFINE S == ToSet(p)
           n == Len(p) - 1
<1>2. p \in Seq(S) /\ n \in Nat /\ n <= Len(p) /\ \A i \in 1..n : p[i] \in S
  BY <1>1
<1> HIDE DEF S, n
<1>3. SubSeq(p, 1, n) \in Seq(S) /\ Len(SubSeq(p, 1, n)) = n
      /\ \A i \in 1..n : SubSeq(p, 1, n)[i] = p[i]
  BY <1>2, SubSeqProperties
<1>4. SubSeq(SubSeq(p, 1, n), 1, n) = SubSeq(p, 1, n)
  BY <1>3, SubSeqFull
<1> QED
  BY <1>1, <1>2, <1>3, <1>4 DEF Parent, Front, IsPrefix, n

\* What is near the path of a request that was not told of a change is unchanged.
LEMMA NearUnchanged ==
  ASSUME FilesInv, NEW u \in Threads, Apart(u), NEW t \in Threads \ {u},
         pc[t] # "idle", ~disturbed'[t],
         NEW q \in Paths, IsPrefix(req[t].path, q) \/ IsPrefix(q, req[t].path)
  PROVE  /\ ~disturbed[t]
         /\ fs'[q] = fs[q]
         /\ There(q) => fs[q] \in DOMAIN inodes /\ inodes'[fs[q]] = inodes[fs[q]]
<1>1. There(q) => fs[q] \in DOMAIN inodes
  BY DEF FilesInv, Types, There
<1>2. CASE /\ fs' = fs /\ \A i \in DOMAIN inodes : inodes'[i] = inodes[i]
           /\ \A w \in Threads \ {u} : disturbed'[w] = disturbed[w]
  BY <1>1, <1>2
<1>3. CASE Touches(u, req[u].path)
  <2>1. ~disturbed[t] /\ ~(IsPrefix(req[u].path, req[t].path) \/ IsPrefix(req[t].path, req[u].path))
    BY <1>3 DEF Touches, FilesInv, Types
  <2>2. q # req[u].path
    BY <2>1
  <2>3. fs'[q] = fs[q]
    BY <2>2 DEF Apart
  <2> QED
    BY <1>1, <2>1, <2>2, <2>3 DEF Apart
<1> QED
  BY <1>2, <1>3 DEF Apart

\* So its path, and what is below it, are as they were.
LEMMA PathUnchanged ==
  ASSUME FilesInv, NEW u \in Threads, Apart(u), NEW t \in Threads \ {u},
         pc[t] # "idle", ~disturbed'[t]
  PROVE  LET p == req[t].path IN
         /\ ~disturbed[t] /\ p \in Paths /\ fs'[p] = fs[p]
         /\ There(p)' = There(p) /\ IsDir(p)' = IsDir(p) /\ Holds(p)' = Holds(p)
         /\ Children(p)' = Children(p)
         /\ \A q \in Children(p) : There(q)' = There(q) /\ IsDir(q)' = IsDir(q)
         /\ req'[t] = req[t]
<1> DEFINE p == req[t].path
<1>1. p \in Paths /\ req'[t] = req[t]
  BY FilesAssumption DEF FilesInv, Placed, Types, IsRequest, Apart
<1>2. p' = p
  BY <1>1
<1> HIDE DEF p
<1>3. \A q \in Paths :
        q = p \/ (q # <<>> /\ Parent(q) = p) =>
        /\ ~disturbed[t] /\ fs'[q] = fs[q]
        /\ There(q) => fs[q] \in DOMAIN inodes /\ inodes'[fs[q]] = inodes[fs[q]]
  <2> SUFFICES ASSUME NEW q \in Paths, q = p \/ (q # <<>> /\ Parent(q) = p)
               PROVE  /\ ~disturbed[t] /\ fs'[q] = fs[q]
                      /\ There(q) => fs[q] \in DOMAIN inodes /\ inodes'[fs[q]] = inodes[fs[q]]
    OBVIOUS
  <2>1. IsPrefix(p, q)
    BY <1>1, PrefixItself, PrefixParent
  <2> QED
    BY <2>1, NearUnchanged DEF p
<1>4. \A q \in Paths :
        q = p \/ (q # <<>> /\ Parent(q) = p) =>
        There(q)' = There(q) /\ IsDir(q)' = IsDir(q) /\ Holds(q)' = Holds(q)
  BY <1>3 DEF There, IsDir, Holds
<1>5. Children(p)' = Children(p)
  BY <1>2, <1>3 DEF Children
<1>6. \A q \in Children(p) : There(q)' = There(q) /\ IsDir(q)' = IsDir(q)
  BY <1>4 DEF Children
<1> QED
  BY <1>1, <1>3, <1>4, <1>5, <1>6 DEF p

\* The same lines would be written.
LEMMA LinesUnchanged ==
  ASSUME NEW t, NEW S, req'[t] = req[t], \A q \in S : IsDir(q)' = IsDir(q)
  PROVE  {Line(t, q, IsDir(q)) : q \in S}' = {Line(t, q, IsDir(q)) : q \in S}
<1>1. \A q \in S : Line(t, q, IsDir(q))' = Line(t, q, IsDir(q))
  BY DEF Line
<1> QED
  BY <1>1

\* What the other requests know stays true.
LEMMA KnowsKept ==
  ASSUME FilesInv, NEW u \in Threads, Apart(u), NEW t \in Threads \ {u},
         pc[t] # "idle", ~disturbed'[t]
  PROVE  Knows(t)'
<1> DEFINE p == req[t].path
<1>1. /\ pc'[t] = pc[t] /\ req'[t] = req[t] /\ op'[t] = op[t] /\ answer'[t] = answer[t]
      /\ before'[t] = before[t]
  BY DEF Apart, FilesInv, Types
<1>2. /\ ~disturbed[t] /\ p \in Paths /\ fs'[p] = fs[p]
      /\ There(p)' = There(p) /\ IsDir(p)' = IsDir(p) /\ Holds(p)' = Holds(p)
      /\ Children(p)' = Children(p)
      /\ \A q \in Children(p) : There(q)' = There(q) /\ IsDir(q)' = IsDir(q)
  BY PathUnchanged
<1>3. Knows(t)
  BY <1>2 DEF FilesInv
<1>4. p' = p
  BY <1>1
<1>5. IsPrefix(p, p)
  BY <1>2, PrefixItself
<1>6. There(p) => fs[p] \in DOMAIN inodes /\ inodes'[fs[p]] = inodes[fs[p]]
  BY <1>2, <1>5, NearUnchanged
<1>7. req[t].method = "PUT" => inodes'[op[t].file].blocks = inodes[op[t].file].blocks
  BY DEF Apart
<1>8. File(t)' = File(t) /\ Within(t)' = Within(t) /\ First(t)' = First(t) /\ Final(t)' = Final(t)
      /\ IsGet(t)' = IsGet(t) /\ Itself(t)' = Itself(t)
  BY <1>1 DEF File, Within, First, Final, IsGet, Itself
<1>9. Reads(t)'
  <2>1. Reads(t)
    BY <1>3 DEF Knows
  <2> QED
    BY <1>1, <1>2, <1>8, <2>1 DEF Reads
<1>10. \A S \in SUBSET ({p} \union Children(p)) : LinesOf(t, S)' = LinesOf(t, S)
  BY <1>1, <1>2, LinesUnchanged DEF LinesOf
<1>11. Lists(t)'
  <2>1. Lists(t)
    BY <1>3 DEF Knows
  <2>2. Itself(t) \subseteq {p}
    BY DEF Itself
  <2>3. LinesOf(t, {p})' = LinesOf(t, {p})
    BY <1>4, <1>10
  <2>4. LinesOf(t, Children(p))' = LinesOf(t, Children(p))
    BY <1>2, <1>4, <1>10
  <2>5. LinesOf(t, Itself(t) \union (Children(p) \ op[t].pending))'
        = LinesOf(t, Itself(t) \union (Children(p) \ op[t].pending))
    BY <1>1, <1>2, <1>4, <1>8, <1>10, <2>2
  <2>6. LinesOf(t, {p} \union (IF req[t].depth > 0 THEN Children(p) ELSE {}))'
        = LinesOf(t, {p} \union (IF req[t].depth > 0 THEN Children(p) ELSE {}))
    BY <1>1, <1>2, <1>4, <1>10
  <2> QED
    BY <1>1, <1>2, <1>4, <2>1, <2>3, <2>4, <2>5, <2>6 DEF Lists
<1>12. Copies(t)'
  <2> SUFFICES ASSUME pc[t] = "copy"
               PROVE  /\ fs'[p] = op[t].dest
                      /\ ~shortened' =>
                           /\ op[t].from = op[t].tr
                           /\ inodes'[op[t].dest].blocks = SubSeq(inodes'[op[t].file].blocks, 1, op[t].tr)
    BY <1>1 DEF Copies
  <2>1. /\ fs[p] = op[t].dest
        /\ ~shortened => /\ op[t].from = op[t].tr
                         /\ inodes[op[t].dest].blocks = SubSeq(inodes[op[t].file].blocks, 1, op[t].tr)
    BY <1>3 DEF Knows, Copies
  <2>2. req[t].method = "PUT" /\ op[t].dest # Missing
    BY DEF FilesInv, Placed, Sent
  <2>3. inodes'[op[t].dest] = inodes[op[t].dest]
    BY <1>6, <2>1, <2>2 DEF There
  <2>4. shortened => shortened'
    BY DEF Apart
  <2> QED
    BY <1>2, <1>7, <2>1, <2>2, <2>3, <2>4
<1>13. Finds(t)'
  <2>1. Finds(t)
    BY <1>3 DEF Knows
  <2> QED
    BY <1>1, <1>8, <2>1 DEF Finds
<1>14. pc'[t] = "done" => Effect(t)'
  <2> SUFFICES ASSUME pc[t] = "done"
               PROVE  Effect(t)'
    BY <1>1
  <2>1. Effect(t)
    BY <1>3 DEF Knows
  <2>2. Multistatus(t)' = Multistatus(t)
    <3>1. {<<q, IsDir(q)>> : q \in {p} \union (IF req[t].depth > 0 THEN Children(p) ELSE {})}'
          = {<<q, IsDir(q)>> : q \in {p} \union (IF req[t].depth > 0 THEN Children(p) ELSE {})}
      BY <1>1, <1>2
    <3> QED
      BY <1>1, <1>2, <3>1 DEF Multistatus
  <2>3. Page(t)' = Page(t)
    <3>1. {[path |-> q, dir |-> IsDir(q)] : q \in Children(p)}'
          = {[path |-> q, dir |-> IsDir(q)] : q \in Children(p)}
      BY <1>1, <1>2
    <3> QED
      BY <1>1, <1>2, <3>1 DEF Page
  <2>4. (shortened => shortened') /\ otherDevice' = otherDevice
    BY DEF Apart
  <2> QED
    BY <1>1, <1>2, <1>7, <2>1, <2>2, <2>3, <2>4 DEF Effect
<1> QED
  BY <1>1, <1>2, <1>3, <1>9, <1>11, <1>12, <1>13, <1>14 DEF Knows

\* What a step says nothing of stays as it was for the other threads.
LEMMA OthersKeep ==
  ASSUME FilesInv, NEW u \in Threads, Apart(u), Fresh(u), NEW t \in Threads \ {u}
  PROVE  Uploaded(t)' /\ Targeted(t)' /\ Placed(t)' /\ Sent(t)'
<1> DEFINE p == req[u].path
<1>1. /\ pc'[t] = pc[t] /\ req'[t] = req[t] /\ op'[t] = op[t] /\ answer'[t] = answer[t]
      /\ before'[t] = before[t] /\ otherDevice' = otherDevice
  BY DEF Apart, FilesInv, Types
<1>2. Types /\ Uploaded(t) /\ Targeted(t) /\ Placed(t) /\ Sent(t) /\ Uploaded(u) /\ Targeted(u)
  BY DEF FilesInv
<1>3. /\ DOMAIN inodes \subseteq DOMAIN inodes' /\ \A i \in DOMAIN inodes : inodes'[i].dir = inodes[i].dir
      /\ \A q \in Paths : q # p => fs'[q] = fs[q]
      /\ req[t].method = "PUT" => inodes'[op[t].file].blocks = inodes[op[t].file].blocks
  BY DEF Apart
<1>4. \A w \in Threads \ {u} : op'[w] = op[w] /\ req'[w] = req[w]
  BY <1>2 DEF Apart, Types
<1>5. Len(inodes) + 1 \notin DOMAIN inodes /\ Missing \notin DOMAIN inodes /\ DOMAIN inodes \subseteq Nat
  BY <1>2, FilesAssumption DEF Types
<1>6. /\ p \in Paths /\ fs'[p] # fs[p] =>
           \/ fs'[p] \in {Missing, Len(inodes) + 1}
           \/ req[u].method = "PUT" /\ fs'[p] = op[u].file
      /\ \/ op'[u].dest \in {op[u].dest, Missing, Len(inodes) + 1}
         \/ otherDevice /\ p \in Paths /\ op'[u].dest = fs[p]
      /\ req'[u].method = "PUT" =>
           \/ op'[u].file = op[u].file /\ req[u].method = "PUT"
           \/ op'[u].file = Len(inodes) + 1
  BY DEF Fresh
<1> HIDE DEF p
<1>7. Uploaded(t)'
  <2> SUFFICES ASSUME req[t].method = "PUT"
               PROVE  /\ op[t].file \in DOMAIN inodes' /\ ~inodes'[op[t].file].dir
                      /\ \A q \in Paths : fs'[q] = op[t].file => q = req[t].path /\ pc[t] = "done" /\ ~otherDevice
                      /\ \A w \in Threads : op'[w].dest # op[t].file
                      /\ \A w \in Threads \ {t} : req'[w].method = "PUT" => op'[w].file # op[t].file
    BY <1>1 DEF Uploaded
  <2>1. /\ op[t].file \in DOMAIN inodes /\ ~inodes[op[t].file].dir
        /\ \A q \in Paths : fs[q] = op[t].file => q = req[t].path /\ pc[t] = "done" /\ ~otherDevice
        /\ \A w \in Threads : op[w].dest # op[t].file
        /\ \A w \in Threads \ {t} : req[w].method = "PUT" => op[w].file # op[t].file
    BY <1>2 DEF Uploaded
  <2>2. \A q \in Paths : fs'[q] = op[t].file => fs[q] = op[t].file
    BY <1>3, <1>5, <1>6, <2>1
  <2>3. \A w \in Threads : op'[w].dest # op[t].file
    BY <1>4, <1>5, <1>6, <2>1
  <2>4. \A w \in Threads \ {t} : req'[w].method = "PUT" => op'[w].file # op[t].file
    BY <1>4, <1>5, <1>6, <2>1
  <2> QED
    BY <1>3, <2>1, <2>2, <2>3, <2>4
<1>8. Targeted(t)'
  <2> SUFFICES ASSUME op[t].dest # Missing
               PROVE  /\ op[t].dest \in DOMAIN inodes' /\ ~inodes'[op[t].dest].dir
                      /\ \A q \in Paths : fs'[q] = op[t].dest => q = req[t].path
    BY <1>1 DEF Targeted
  <2>1. /\ op[t].dest \in DOMAIN inodes /\ ~inodes[op[t].dest].dir
        /\ \A q \in Paths : fs[q] = op[t].dest => q = req[t].path
    BY <1>2 DEF Targeted
  <2>2. req[u].method = "PUT" => op[u].file # op[t].dest
    BY <1>2 DEF Uploaded
  <2>3. \A q \in Paths : fs'[q] = op[t].dest => fs[q] = op[t].dest
    BY <1>3, <1>5, <1>6, <2>1, <2>2
  <2> QED
    BY <1>3, <2>1, <2>3
<1>9. Placed(t)'
  BY <1>1, <1>2 DEF Placed, IsGet
<1>10. Sent(t)'
  <2>1. pc[t] = "copy" => req[t].method = "PUT"
    BY <1>2 DEF Placed
  <2> QED
    BY <1>1, <1>2, <1>3, <2>1 DEF Sent
<1> QED
  BY <1>7, <1>8, <1>9, <1>10

\* So a step only has to be looked at where it happens.
LEMMA StepInv ==
  ASSUME FilesInv, NEW u \in Threads, Apart(u), Fresh(u), Types', Rooted',
         Uploaded(u)', Targeted(u)', Placed(u)', Sent(u)',
         pc'[u] # "idle" /\ ~disturbed'[u] => Knows(u)'
  PROVE  FilesInv'
<1>1. \A t \in Threads : Uploaded(t)' /\ Targeted(t)' /\ Placed(t)' /\ Sent(t)'
  BY OthersKeep
<1>2. \A t \in Threads : pc'[t] # "idle" /\ ~disturbed'[t] => Knows(t)'
  <2> SUFFICES ASSUME NEW t \in Threads \ {u}, pc'[t] # "idle", ~disturbed'[t]
               PROVE  Knows(t)'
    OBVIOUS
  <2>1. pc[t] # "idle"
    BY DEF Apart, FilesInv, Types
  <2> QED
    BY <2>1, KnowsKept
<1> QED
  BY <1>1, <1>2 DEF FilesInv

\* A step that changes nothing but where its thread is, and what it holds and has said
Quiet(u, next, o, a) ==
  /\ pc[u] \notin {"idle", "done"} /\ next \in Places \ {"idle"}
  /\ pc' = [pc EXCEPT ![u] = next] /\ op' = [op EXCEPT ![u] = o] /\ answer' = [answer EXCEPT ![u] = a]
  /\ UNCHANGED <<req, left, before, otherDevice, fs, inodes, disturbed, shortened>>
  /\ o \in Ops /\ o.dest = op[u].dest /\ (req[u].method = "PUT" => o.file = op[u].file)
  /\ a \in AnAnswer

\* Then only what the thread itself holds, said and knows has to be looked at.
LEMMA QuietStep ==
  ASSUME FilesInv, NEW u \in Threads, NEW next, NEW o, NEW a, Quiet(u, next, o, a),
         Placed(u)', Sent(u)', ~disturbed[u] => Knows(u)'
  PROVE  FilesInv'
<1>1. Types /\ Uploaded(u) /\ Targeted(u)
  BY DEF FilesInv
<1>2. pc'[u] = next /\ op'[u] = o /\ answer'[u] = a /\ req'[u] = req[u] /\ before'[u] = before[u]
  BY <1>1 DEF Quiet, Types
<1>3. Types'
  BY <1>1 DEF Quiet, Types
<1>4. Apart(u)
  BY <1>1, <1>2 DEF Quiet, Types, Apart
<1>5. Fresh(u)
  BY <1>1, <1>2 DEF Quiet, Fresh
<1>6. Rooted'
  BY DEF FilesInv, Quiet, Rooted, There, IsDir
<1>7. \A w \in Threads : op'[w].dest = op[w].dest /\ (req[w].method = "PUT" => op'[w].file = op[w].file)
  BY <1>1, <1>2 DEF Quiet, Types
<1>8. Uploaded(u)'
  BY <1>1, <1>2, <1>7 DEF Quiet, Uploaded
<1>9. Targeted(u)'
  BY <1>1, <1>2, <1>7 DEF Quiet, Targeted
<1>10. disturbed' = disturbed
  BY DEF Quiet
<1> QED
  BY <1>3, <1>4, <1>5, <1>6, <1>8, <1>9, <1>10, StepInv

\* All the names and files are then the same.
LEMMA QuietSame ==
  ASSUME NEW u \in Threads, NEW next, NEW o, NEW a, Quiet(u, next, o, a), FilesInv
  PROVE  /\ \A q : There(q)' = There(q) /\ IsDir(q)' = IsDir(q)
                   /\ Holds(q)' = Holds(q) /\ Children(q)' = Children(q)
         /\ pc'[u] = next /\ op'[u] = o /\ answer'[u] = a /\ req'[u] = req[u] /\ before'[u] = before[u]
         /\ IsGet(u)' = IsGet(u) /\ File(u)' = File(u) /\ Within(u)' = Within(u)
         /\ First(u)' = First(u) /\ Final(u)' = Final(u)
         /\ Page(u)' = (a.listed = {[path |-> q, dir |-> IsDir(q)] : q \in Children(req[u].path)})
         /\ fs' = fs /\ inodes' = inodes /\ shortened' = shortened /\ otherDevice' = otherDevice
<1>1. pc'[u] = next /\ op'[u] = o /\ answer'[u] = a /\ req'[u] = req[u] /\ before'[u] = before[u]
  BY DEF Quiet, FilesInv, Types
<1>2. \A q : There(q)' = There(q) /\ IsDir(q)' = IsDir(q)
             /\ Holds(q)' = Holds(q) /\ Children(q)' = Children(q)
  BY DEF Quiet, There, IsDir, Holds, Children
<1>3. /\ IsGet(u)' = IsGet(u) /\ File(u)' = File(u) /\ Within(u)' = Within(u)
      /\ First(u)' = First(u) /\ Final(u)' = Final(u)
  BY <1>1 DEF IsGet, File, Within, First, Final
<1>4. Page(u)' = (a.listed = {[path |-> q, dir |-> IsDir(q)] : q \in Children(req[u].path)})
  BY <1>1, <1>2 DEF Page
<1> QED
  BY <1>1, <1>2, <1>3, <1>4 DEF Quiet

\* A thread that is on a request knows what it is, and where it came from.
LEMMA OnRequest ==
  ASSUME FilesInv, NEW t \in Threads, pc[t] # "idle"
  PROVE  /\ req[t] \in Requests /\ IsRequest(req[t]) /\ req[t].path \in Paths
         /\ op[t] \in Ops /\ answer[t] \in AnAnswer /\ before[t] \in Inode \union {Missing}
         /\ Placed(t) /\ Sent(t) /\ Uploaded(t) /\ Targeted(t) /\ Rooted /\ Types
         /\ ~disturbed[t] => Knows(t)
<1>1. Types /\ Placed(t) /\ Sent(t) /\ Uploaded(t) /\ Targeted(t) /\ Rooted /\ (~disturbed[t] => Knows(t))
  BY DEF FilesInv
<1>2. req[t] \in Requests
  BY <1>1 DEF Placed
<1>3. IsRequest(req[t])
  BY <1>2, FilesAssumption
<1>4. req[t].path \in Paths
  BY <1>3 DEF IsRequest
<1> QED
  BY <1>1, <1>2, <1>3, <1>4 DEF Types

\* A request that is answered with a code alone, having changed nothing: a refusal, or one that
\* has nothing to do.
LEMMA Answered ==
  ASSUME FilesInv, NEW t \in Threads, NEW o, NEW c \in Nat, Quiet(t, "done", o, Code(c)),
         pc[t] # "copy", o.fds = {}, o.tr = op[t].tr, o.length = op[t].length,
         IsGet(t) => c \notin {200, 206},
         req[t].method \in {"PUT", "DELETE", "MKCOL", "PROPPATCH", "PROPFIND"} => c >= 300,
         ~disturbed[t] /\ IsGet(t) =>
           /\ c \in {403, 404} <=> (before[t] = Missing \/ (before[t].dir /\ req[t].via = "webdav"))
           /\ ~(req[t].method = "GET" /\ req[t].via = "export" /\ IsDir(req[t].path))
  PROVE  FilesInv'
<1>1. pc[t] # "idle" /\ pc[t] # "done"
  BY DEF Quiet
<1>2. /\ req[t] \in Requests /\ IsRequest(req[t]) /\ op[t] \in Ops
      /\ Placed(t) /\ Sent(t) /\ (~disturbed[t] => Knows(t))
  BY <1>1, OnRequest
<1>3. /\ \A q : There(q)' = There(q) /\ IsDir(q)' = IsDir(q) /\ Holds(q)' = Holds(q)
      /\ pc'[t] = "done" /\ op'[t] = o /\ answer'[t] = Code(c) /\ req'[t] = req[t] /\ before'[t] = before[t]
      /\ IsGet(t)' = IsGet(t)
  BY QuietSame
<1>4. Code(c).code = c /\ Code(c).length = 0 /\ Code(c).body = <<>>
  BY DEF Code, NoAnswer
<1>5. Placed(t)'
  BY <1>2, <1>3 DEF Placed, Sending, Listing, Calls
<1>6. Sent(t)'
  BY <1>2, <1>3, <1>4 DEF Sent
<1>7. ASSUME ~disturbed[t]
      PROVE  Knows(t)'
  <2>1. Holds(req[t].path) = before[t]
    BY <1>1, <1>2, <1>7 DEF Knows
  <2>2. Finds(t)'
    BY <1>3, <1>4, <1>7 DEF Finds
  <2>3. Effect(t)'
    BY <1>3, <1>4, <1>7, <2>1 DEF Effect, IsGet
  <2> QED
    BY <1>3, <2>2, <2>3 DEF Knows, Reads, Lists, Copies
<1> QED
  BY <1>5, <1>6, <1>7, QuietStep

\* A request that goes on to its next call, knowing what it knew
LEMMA GoesOn ==
  ASSUME FilesInv, NEW t \in Threads, NEW next \in {"open", "opendir", "create"} \union Calls,
         pc[t] \in {"export", "webdav", "PUT"}, Quiet(t, next, op[t], answer[t]),
         next = "open" => IsGet(t) /\ (~disturbed[t] /\ req[t].via = "export" => File(t)),
         next = "opendir" => req[t].via = "export" /\ (~disturbed[t] => before[t] # Missing /\ before[t].dir),
         next \in Calls => req[t].method = next,
         next = "create" => req[t].method = "PUT" /\ otherDevice
  PROVE  FilesInv'
<1>1. pc[t] # "idle" /\ pc[t] # "done"
  BY DEF Quiet
<1>2. /\ req[t] \in Requests /\ IsRequest(req[t]) /\ op[t] \in Ops
      /\ Placed(t) /\ Sent(t) /\ (~disturbed[t] => Knows(t))
  BY <1>1, OnRequest
<1>3. /\ \A q : There(q)' = There(q) /\ IsDir(q)' = IsDir(q) /\ Holds(q)' = Holds(q)
      /\ pc'[t] = next /\ op'[t] = op[t] /\ answer'[t] = answer[t] /\ req'[t] = req[t]
      /\ before'[t] = before[t] /\ IsGet(t)' = IsGet(t) /\ File(t)' = File(t)
      /\ otherDevice' = otherDevice
  BY QuietSame
<1>4. Placed(t)'
  BY <1>2, <1>3 DEF Placed, Sending, Listing, Calls
<1>5. Sent(t)'
  BY <1>2, <1>3 DEF Sent, Calls
<1>6. ASSUME ~disturbed[t]
      PROVE  Knows(t)'
  <2>1. Holds(req[t].path) = before[t]
    BY <1>1, <1>2, <1>6 DEF Knows
  <2>2. Reads(t)'
    BY <1>3, <1>6 DEF Reads, Calls
  <2>3. Lists(t)'
    BY <1>3, <1>6 DEF Lists, Calls
  <2> QED
    BY <1>3, <2>1, <2>2, <2>3 DEF Knows, Copies, Finds, Calls
<1> QED
  BY <1>4, <1>5, <1>6, QuietStep

\* A code alone is an answer.
LEMMA CodeIsAnswer ==
  ASSUME NEW c \in Nat
  PROVE  Code(c) \in AnAnswer
<1>1. <<>> \in Seq(Block)
  OBVIOUS
<1>2. NoAnswer \in AnAnswer
  BY <1>1 DEF NoAnswer, AnAnswer
<1> QED
  BY <1>2 DEF Code, AnAnswer

\* A step that leaves the tree alone is quiet.
LEMMA GoesQuiet ==
  ASSUME FilesInv, NEW t \in Threads, pc[t] \notin {"idle", "done"}, Keep,
         UNCHANGED <<op, answer>>, NEW next \in Places \ {"idle"}, Goes(t, next)
  PROVE  Quiet(t, next, op[t], answer[t])
BY DEF FilesInv, Types, Quiet, Goes, Keep

\* Without a descriptor, what a request holds stays what it is.
LEMMA Refused ==
  ASSUME FilesInv, NEW t \in Threads, Keep, UNCHANGED op, NEW c \in Nat, Answers(t, Code(c)),
         pc[t] \in {"export", "webdav", "open", "opendir", "create"} \union Calls,
         IsGet(t) => c \notin {200, 206},
         req[t].method \in {"PUT", "DELETE", "MKCOL", "PROPPATCH", "PROPFIND"} => c >= 300,
         ~disturbed[t] /\ IsGet(t) =>
           /\ c \in {403, 404} <=> (before[t] = Missing \/ (before[t].dir /\ req[t].via = "webdav"))
           /\ ~(req[t].method = "GET" /\ req[t].via = "export" /\ IsDir(req[t].path))
  PROVE  FilesInv'
<1>1. pc[t] \notin {"idle", "done", "copy"}
  BY DEF Calls
<1>2. op[t] \in Ops /\ op' = [op EXCEPT ![t] = op[t]] /\ op[t].fds = {}
  BY <1>1, OnRequest DEF FilesInv, Types, Placed, Calls, Sending
<1>3. Quiet(t, "done", op[t], Code(c))
  <2>1. /\ pc' = [pc EXCEPT ![t] = "done"] /\ answer' = [answer EXCEPT ![t] = Code(c)]
        /\ UNCHANGED <<req, left, before, otherDevice, fs, inodes, disturbed, shortened>>
    BY DEF Answers, Goes, Keep
  <2>2. "done" \in Places \ {"idle"} /\ Code(c) \in AnAnswer
    BY CodeIsAnswer DEF Places
  <2>3. pc[t] \notin {"idle", "done"}
    BY <1>1
  <2> QED
    BY <1>2, <2>1, <2>2, <2>3 DEF Quiet
<1> QED
  BY <1>1, <1>2, <1>3, Answered

\* onion_handler_export_local_handler: to the page or to the file, or to the next handler
LEMMA ExportInv ==
  ASSUME FilesInv, NEW t \in Threads, Export(t)
  PROVE  FilesInv'
<1> DEFINE p == req[t].path
<1>1. pc[t] = "export" /\ Keep /\ UNCHANGED op
  BY DEF Export
<1>2. /\ req[t] \in Requests /\ IsRequest(req[t]) /\ req[t].via = "export"
      /\ ~disturbed[t] => before[t] = Holds(p)
  BY <1>1, OnRequest DEF Placed, Knows
<1>3. IsGet(t)
  BY <1>2 DEF IsGet, IsRequest
<1>4. Holds(p) = Missing <=> ~There(p)
  BY <1>1, <1>2, OnRequest, FilesAssumption DEF Holds, There, Types
<1>5. There(p) => (Holds(p).dir <=> IsDir(p))
  BY DEF Holds, IsDir
<1>6. CASE ~There(p)
  <2>1. Answers(t, Code(404)) /\ ~IsDir(p)
    BY <1>6 DEF Export, IsDir
  <2> QED
    BY <1>1, <1>2, <1>4, <1>6, <2>1, Refused
<1>7. CASE There(p)
  <2>1. UNCHANGED answer /\ Goes(t, IF IsDir(p) THEN "opendir" ELSE "open")
    BY <1>7 DEF Export
  <2>2. Quiet(t, IF IsDir(p) THEN "opendir" ELSE "open", op[t], answer[t])
    BY <1>1, <2>1, GoesQuiet DEF Places, Listing
  <2> QED
    BY <1>1, <1>2, <1>3, <1>4, <1>5, <1>7, <2>2, GoesOn DEF Calls, File
<1> QED
  BY <1>6, <1>7

\* onion_webdav_handler: what is not permitted is refused, the rest goes to its method.
LEMMA CheckInv ==
  ASSUME FilesInv, NEW t \in Threads, Check(t)
  PROVE  FilesInv'
<1> DEFINE r == req[t]
           p == req[t].path
<1>1. pc[t] = "webdav" /\ Keep /\ UNCHANGED op
  BY DEF Check
<1>2. /\ r \in Requests /\ IsRequest(r) /\ r.via = "webdav"
      /\ ~disturbed[t] => before[t] = Holds(p)
  BY <1>1, OnRequest DEF Placed, Knows
<1>3. Holds(p) = Missing <=> ~There(p)
  BY <1>1, <1>2, OnRequest, FilesAssumption DEF Holds, There, Types
<1>4. CASE ~Permitted(p)
  <2>1. Answers(t, Code(403)) /\ ~There(p)
    BY <1>4 DEF Check, Permitted
  <2> QED
    BY <1>1, <1>2, <1>3, <2>1, Refused
<1>5. CASE Permitted(p) /\ IsGet(t)
  <2>1. UNCHANGED answer /\ Goes(t, "open")
    BY <1>5 DEF Check, IsGet
  <2>2. Quiet(t, "open", op[t], answer[t])
    BY <1>1, <2>1, GoesQuiet DEF Places
  <2> QED
    BY <1>1, <1>2, <1>5, <2>2, GoesOn DEF Calls
<1>6. CASE Permitted(p) /\ r.method = "OPTIONS"
  <2>1. Answers(t, Code(200)) /\ ~IsGet(t)
    BY <1>6 DEF Check, Options, IsGet
  <2> QED
    BY <1>1, <1>6, <2>1, Refused
<1>7. CASE Permitted(p) /\ r.method = "COPY"
  <2>1. Answers(t, Code(501)) /\ ~IsGet(t)
    BY <1>7 DEF Check, IsGet
  <2> QED
    BY <1>1, <1>7, <2>1, Refused
<1>8. CASE Permitted(p) /\ r.method \in Calls
  <2>1. UNCHANGED answer /\ Goes(t, r.method)
    BY <1>8 DEF Check, Calls
  <2>2. Quiet(t, r.method, op[t], answer[t])
    BY <1>1, <1>8, <2>1, GoesQuiet DEF Places, Calls
  <2> QED
    BY <1>1, <1>2, <1>8, <2>2, GoesOn DEF Calls
<1>9. IsGet(t) \/ r.method \in {"OPTIONS", "COPY"} \union Calls
  BY <1>2 DEF IsRequest, IsGet, Calls
<1> QED
  BY <1>4, <1>5, <1>6, <1>7, <1>8, <1>9

\* The file is opened, and it is the one of the path.
LEMMA OpenInv ==
  ASSUME FilesInv, NEW t \in Threads, Open(t)
  PROVE  FilesInv'
<1> DEFINE p == req[t].path
           o == [op[t] EXCEPT !.file = fs[p], !.fds = {"file"}]
<1>1. pc[t] = "open" /\ Keep
  BY DEF Open
<1>2. /\ p \in Paths /\ op[t] \in Ops /\ answer[t] \in AnAnswer /\ Placed(t) /\ Sent(t) /\ Types
      /\ ~disturbed[t] => Knows(t)
  BY <1>1, OnRequest
<1>3. IsGet(t) /\ (~disturbed[t] => before[t] = Holds(p) /\ Reads(t))
  BY <1>1, <1>2 DEF Placed, Knows
<1>4. Holds(p) = Missing <=> ~There(p)
  BY <1>1, <1>2, FilesAssumption DEF Holds, There, Types
<1>5. CASE ~There(p)
  <2>1. Answers(t, Code(404)) /\ UNCHANGED op /\ ~IsDir(p)
    BY <1>5 DEF Open, IsDir
  <2> QED
    BY <1>1, <1>3, <1>4, <1>5, <2>1, Refused DEF IsGet
<1>6. CASE There(p)
  <2>1. op' = [op EXCEPT ![t] = o] /\ Goes(t, "stat") /\ UNCHANGED answer
    BY <1>2, <1>6 DEF Open, Types
  <2>2. fs[p] \in DOMAIN inodes /\ DOMAIN inodes \subseteq Nat
    BY <1>2, <1>6 DEF Types, There
  <2>3. o \in Ops
    BY <1>2, <2>2 DEF Ops
  <2>4. Quiet(t, "stat", o, answer[t])
    <3>1. "stat" \in Places \ {"idle"}
      BY DEF Places, Sending
    <3>2. o.dest = op[t].dest /\ req[t].method # "PUT"
      BY <1>2, <1>3 DEF Ops, IsGet
    <3> QED
      BY <1>1, <1>2, <2>1, <2>3, <3>1, <3>2 DEF Quiet, Goes, Keep, Types
  <2>5. /\ There(p)' = There(p) /\ Holds(p)' = Holds(p) /\ fs' = fs /\ inodes' = inodes
        /\ pc'[t] = "stat" /\ op'[t] = o /\ answer'[t] = answer[t] /\ req'[t] = req[t]
        /\ before'[t] = before[t] /\ IsGet(t)' = IsGet(t) /\ File(t)' = File(t)
    BY <2>4, QuietSame
  <2>6. o.file = fs[p] /\ o.tr = op[t].tr /\ o.length = op[t].length /\ o.from = op[t].from
    BY <1>2 DEF Ops
  <2>7. Placed(t)'
    BY <1>1, <1>2, <1>3, <2>5, <2>6 DEF Placed, Sending, Listing, Calls
  <2>8. Sent(t)'
    BY <1>2, <2>2, <2>5, <2>6 DEF Sent
  <2>9. ASSUME ~disturbed[t] PROVE Knows(t)'
    <3>1. Reads(t)'
      BY <1>1, <1>3, <1>6, <2>5, <2>6, <2>9 DEF Reads
    <3> QED
      BY <1>3, <2>5, <2>9, <3>1 DEF Knows, Lists, Copies, Finds
  <2> QED
    BY <2>4, <2>7, <2>8, <2>9, QuietStep
<1> QED
  BY <1>5, <1>6

\* A length is a number.
LEMMA WNat == W \in Nat
BY DEF W

\* A file is shorter than size_t can say.
LEMMA FileBlocks ==
  ASSUME FilesInv, NEW ino \in DOMAIN inodes
  PROVE  /\ inodes[ino] \in Inode /\ inodes[ino].blocks \in Seq(Block)
         /\ Len(inodes[ino].blocks) \in 0..W-1
<1>1. inodes[ino] \in Inode /\ Len(inodes[ino].blocks) < W
  BY DEF FilesInv, Types
<1>2. inodes[ino].blocks \in Seq(Block)
  BY <1>1 DEF Inode
<1>3. Len(inodes[ino].blocks) \in Nat
  BY <1>2
<1>4. Len(inodes[ino].blocks) \in 0..W-1
  BY <1>1, <1>3, WNat
<1> QED
  BY <1>1, <1>2, <1>4

\* A part of a file: never more than is asked for, and all of it where the file has it.
IsPart(c, b, i, n) ==
  /\ b \in Seq(Block) /\ Len(b) < W
  /\ c \in Seq(Block) /\ Len(c) <= n
  /\ i <= Len(b) => i + Len(c) <= Len(b)
  /\ c = SubSeq(b, i + 1, i + Len(c))
  /\ i + n <= Len(b) => Len(c) = n

\* That is what read() gets.
LEMMA BlocksOf ==
  ASSUME FilesInv, NEW ino \in DOMAIN inodes, NEW i \in Nat, NEW n \in Nat
  PROVE  IsPart(Blocks(ino, i, n), inodes[ino].blocks, i, n)
<1> DEFINE b == inodes[ino].blocks
           hi == Lower(i + n, Len(b))
<1>1. b \in Seq(Block) /\ Len(b) < W /\ Len(b) \in Nat
  <2>1. b \in Seq(Block) /\ Len(b) \in 0..W-1
    BY FileBlocks
  <2> QED
    BY <2>1, WNat
<1>2. hi \in Nat /\ hi <= i + n /\ hi <= Len(b) /\ (i + n <= Len(b) => hi = i + n)
  BY <1>1 DEF Lower
<1>3. Blocks(ino, i, n) = SubSeq(b, i + 1, hi)
  BY DEF Blocks
<1> HIDE DEF b, hi
<1>4. /\ SubSeq(b, i + 1, hi) \in Seq(Block)
      /\ Len(SubSeq(b, i + 1, hi)) = IF i + 1 <= hi THEN hi - i ELSE 0
  <2>1. \A k \in i + 1..hi : k \in 1..Len(b)
    BY <1>1, <1>2
  <2> QED
    BY <1>1, <1>2, <2>1
<1>5. hi < i + 1 => SubSeq(b, i + 1, hi) = SubSeq(b, i + 1, i)
  <2>1. SubSeq(b, i + 1, i) \in Seq(Block) /\ Len(SubSeq(b, i + 1, i)) = 0
    BY <1>1
  <2> QED
    BY <1>4, <2>1
<1>6. LET c == SubSeq(b, i + 1, hi) IN
      /\ Len(c) <= n /\ (i <= Len(b) => i + Len(c) <= Len(b))
      /\ c = SubSeq(b, i + 1, i + Len(c))
      /\ i + n <= Len(b) => Len(c) = n
  BY <1>1, <1>2, <1>4, <1>5
<1>7. IsPart(SubSeq(b, i + 1, hi), b, i, n)
  BY <1>1, <1>4, <1>6 DEF IsPart
<1> QED
  BY <1>3, <1>7 DEF b

\* A range within the file is the blocks it says.
LEMMA SliceWithin ==
  ASSUME NEW size \in 0..W-1, NEW r, {r.start, r.end} \subseteq Nat \union {Missing}, r.start # Missing
  PROVE  /\ Slice(size, r).length \in Nat /\ Slice(size, r).from = r.start
         /\ Slice(size, r).ok /\ WithinFile(size, r) /\ r # Missing =>
              LET final == IF r.end = Missing THEN size ELSE r.end + 1
              IN Slice(size, r).length = final - r.start /\ final <= size
<1> DEFINE ends == IF r.end = Missing THEN (size - 1) % W ELSE r.end
<1>1. ends \in Nat /\ r.start \in Nat
  BY FilesAssumption DEF W
<1>2. (ends - r.start + 1) % W \in Nat
  BY <1>1 DEF W
<1>3. /\ Slice(size, r).length = (ends - r.start + 1) % W /\ Slice(size, r).from = r.start
      /\ Slice(size, r).ok <=> r.start <= ends /\ r.start <= size
  BY DEF Slice
<1>4. ASSUME r.start <= ends, WithinFile(size, r), r # Missing
      PROVE  /\ ends + 1 = IF r.end = Missing THEN size ELSE r.end + 1
             /\ ends < size
  BY <1>1, <1>4, FilesAssumption DEF WithinFile, W
<1>5. r.start <= ends /\ ends < size => (ends - r.start + 1) % W = ends - r.start + 1
  BY <1>1 DEF W
<1> QED
  BY <1>1, <1>2, <1>3, <1>4, <1>5

\* What stat says is what is announced, and what is to be sent is the range within it.
LEMMA StatInv ==
  ASSUME FilesInv, NEW t \in Threads, Stat(t)
  PROVE  FilesInv'
<1> DEFINE r == req[t]
           p == req[t].path
           size == Len(inodes[fs[p]].blocks)
           whole == r.range = Missing \/ r.range.start = Missing
           part == IF whole THEN Whole(size) ELSE Slice(size, r.range)
           code == IF r.range = Missing THEN 200 ELSE 206
           closed == [op[t] EXCEPT !.fds = {}]
<1>1. pc[t] = "stat" /\ Keep
  BY DEF Stat
<1>2. /\ p \in Paths /\ op[t] \in Ops /\ answer[t] \in AnAnswer /\ Placed(t) /\ Sent(t) /\ Types
      /\ IsRequest(r) /\ r \in Requests
      /\ ~disturbed[t] => Knows(t)
  BY <1>1, OnRequest
<1>3. IsGet(t) /\ (~disturbed[t] => before[t] = Holds(p) /\ Reads(t))
  BY <1>1, <1>2 DEF Placed, Knows, Sending
<1>4. /\ r.cached \in BOOLEAN /\ (r.range # Missing => {r.range.start, r.range.end} \subseteq Nat \union {Missing})
      /\ op[t].from = 0 /\ op[t].tr = 0 /\ op[t].file \in DOMAIN inodes /\ answer[t] = NoAnswer
  BY <1>1, <1>2, <1>3 DEF IsRequest, IsGet, Placed, Sent
<1>5. ~disturbed[t] => /\ There(p) /\ before[t] = inodes[fs[p]] /\ before[t] # Missing
                       /\ op[t].file = fs[p]
                       /\ r.via = "export" => File(t)
                       /\ before[t].dir <=> IsDir(p)
  <2>1. There(p) => fs[p] \in DOMAIN inodes /\ inodes[fs[p]] \in Inode
    BY <1>2 DEF Types, There
  <2> QED
    BY <1>1, <1>3, <2>1, FilesAssumption DEF Holds, IsDir, Reads
<1>6. /\ closed \in Ops /\ closed.fds = {} /\ closed.tr = op[t].tr
      /\ closed.length = op[t].length /\ closed.dest = op[t].dest
  BY <1>2 DEF Ops
<1>7. \A c \in Nat : Answers(t, Code(c)) /\ op' = [op EXCEPT ![t] = closed] => Quiet(t, "done", closed, Code(c))
  <2> SUFFICES ASSUME NEW c \in Nat, Answers(t, Code(c)), op' = [op EXCEPT ![t] = closed]
               PROVE  Quiet(t, "done", closed, Code(c))
    OBVIOUS
  <2>1. "done" \in Places \ {"idle"} /\ Code(c) \in AnAnswer
    BY CodeIsAnswer DEF Places
  <2> QED
    BY <1>1, <1>3, <1>6, <2>1 DEF Quiet, Answers, Goes, Keep, IsGet
<1>8. [op EXCEPT ![t].fds = {}] = [op EXCEPT ![t] = closed]
  BY <1>2 DEF Types
<1> HIDE DEF closed, part, size, code, whole
<1>9. CASE ~There(p) \/ IsDir(p)
  <2>1. Quiet(t, "done", closed, Code(404))
    <3>1. Answers(t, Code(404)) /\ op' = [op EXCEPT ![t] = closed]
      BY <1>8, <1>9 DEF Stat, part, size, whole
    <3> QED
      BY <1>7, <3>1
  <2>2. ~disturbed[t] => before[t].dir /\ r.via = "webdav"
    BY <1>2, <1>5, <1>9 DEF File, IsRequest
  <2> QED
    BY <1>1, <1>3, <1>6, <2>1, <2>2, Answered DEF IsGet
<1>10. CASE There(p) /\ ~IsDir(p) /\ ~part.ok
  <2>1. Quiet(t, "done", closed, Code(416))
    <3>1. Answers(t, Code(416)) /\ op' = [op EXCEPT ![t] = closed]
      BY <1>8, <1>10 DEF Stat, part, size, whole
    <3> QED
      BY <1>7, <3>1
  <2> QED
    BY <1>1, <1>3, <1>5, <1>6, <1>10, <2>1, Answered DEF IsGet
<1>11. CASE There(p) /\ ~IsDir(p) /\ part.ok /\ r.cached
  <2>1. Quiet(t, "done", closed, Code(304))
    <3>1. Answers(t, Code(304)) /\ op' = [op EXCEPT ![t] = closed]
      BY <1>8, <1>11 DEF Stat, part, size, whole
    <3> QED
      BY <1>7, <3>1
  <2> QED
    BY <1>1, <1>3, <1>5, <1>6, <1>11, <2>1, Answered DEF IsGet
<1>12. CASE There(p) /\ ~IsDir(p) /\ part.ok /\ ~r.cached
  <2> DEFINE sends == IF r.method = "HEAD" THEN 0 ELSE part.length
             next == IF sends = 0 THEN "close" ELSE IF size >= SendfileFrom THEN "sendfile" ELSE "loop"
             o == [op[t] EXCEPT !.from = part.from, !.length = sends]
             a == [NoAnswer EXCEPT !.code = code, !.length = part.length]
  <2>1. /\ op' = [op EXCEPT ![t].from = part.from, ![t].length = sends]
        /\ Goes(t, next) /\ answer' = [answer EXCEPT ![t] = a]
    BY <1>12 DEF Stat, part, size, whole, code
  <2>2. op' = [op EXCEPT ![t] = o]
    BY <1>2, <2>1 DEF Types
  <2>3. fs[p] \in DOMAIN inodes /\ size \in 0..W-1
    BY <1>2, <1>12, FileBlocks DEF Types, There, size
  <2>4. /\ part.length \in Nat /\ part.from \in Nat
        /\ ~disturbed[t] /\ Within(t) => /\ part.from = First(t) - 1 /\ part.length = Final(t) - part.from
                                         /\ Final(t) <= size
    <3>1. before[t] = inodes[fs[p]] => (Within(t) <=> WithinFile(size, r.range))
      BY DEF Within, size
    <3>2. CASE whole
      BY <1>5, <2>3, <3>2 DEF Whole, First, Final, part, whole, size
    <3>3. CASE ~whole
      <4>1. part = Slice(size, r.range)
        BY <3>3 DEF part
      <4>2. First(t) = r.range.start + 1
            /\ Final(t) = IF r.range.end = Missing THEN Len(before[t].blocks) ELSE r.range.end + 1
        BY <3>3 DEF First, Final, whole
      <4>3. /\ part.length \in Nat /\ part.from = r.range.start /\ r.range.start \in Nat
            /\ WithinFile(size, r.range) =>
                 LET final == IF r.range.end = Missing THEN size ELSE r.range.end + 1
                 IN part.length = final - r.range.start /\ final <= size
        BY <1>4, <1>12, <2>3, <3>3, <4>1, SliceWithin DEF whole
      <4> QED
        BY <1>5, <3>1, <4>2, <4>3 DEF size
    <3> QED
      BY <3>2, <3>3
  <2>5. sends \in Nat /\ next \in Sending /\ (sends = 0 <=> next = "close")
        /\ (next # "close" => r.method # "HEAD")
        /\ (r.method # "HEAD" => sends = part.length)
        /\ next # "stat"
    <3>1. sends \in Nat /\ (sends # 0 => r.method # "HEAD") /\ (r.method # "HEAD" => sends = part.length)
      BY <2>4
    <3> HIDE DEF sends
    <3>2. IF sends = 0 THEN next = "close" ELSE next \in {"sendfile", "loop"}
      OBVIOUS
    <3> QED
      BY <3>1, <3>2 DEF Sending
  <2> HIDE DEF sends, next
  <2>6. /\ o \in Ops /\ o.from = part.from /\ o.length = sends /\ o.tr = 0 /\ o.dest = op[t].dest
        /\ o.file = op[t].file /\ o.mode = op[t].mode
    BY <1>2, <1>4, <2>4, <2>5 DEF Ops
  <2>7. /\ a \in AnAnswer /\ a.code = code /\ a.length = part.length /\ a.body = <<>> /\ a.broken = FALSE
        /\ code \in {200, 206}
    <3>1. NoAnswer \in AnAnswer
      BY <1>2, <1>4
    <3>2. code \in {200, 206} /\ code \in Nat
      BY DEF code
    <3> HIDE DEF code, part
    <3>3. a \in AnAnswer
      BY <2>4, <3>1, <3>2 DEF AnAnswer
    <3> QED
      BY <3>2, <3>3 DEF NoAnswer
  <2>8. Quiet(t, next, o, a)
    <3>1. next \in Places \ {"idle"}
      BY <2>5 DEF Places, Sending
    <3> QED
      BY <1>1, <1>2, <1>3, <2>1, <2>2, <2>6, <2>7, <3>1 DEF Quiet, Goes, Keep, IsGet
  <2> HIDE DEF o, a
  <2>9. /\ There(p)' = There(p) /\ Holds(p)' = Holds(p) /\ fs' = fs /\ inodes' = inodes
        /\ pc'[t] = next /\ op'[t] = o /\ answer'[t] = a /\ req'[t] = req[t]
        /\ before'[t] = before[t] /\ IsGet(t)' = IsGet(t) /\ File(t)' = File(t) /\ Within(t)' = Within(t)
        /\ First(t)' = First(t) /\ Final(t)' = Final(t)
    BY <2>8, QuietSame
  <2>10. Placed(t)'
    BY <1>2, <1>3, <2>5, <2>9 DEF Placed, Sending, Listing, Calls
  <2>11. Sent(t)'
    BY <1>3, <1>4, <2>4, <2>5, <2>6, <2>7, <2>9 DEF Sent, Sending, IsGet
  <2>12. ASSUME ~disturbed[t] PROVE Knows(t)'
    <3>1. File(t)
      BY <1>5, <1>12, <2>12 DEF File
    <3>2. /\ First(t) \in Nat /\ Len(before[t].blocks) \in Nat /\ before[t].blocks \in Seq(Block)
          /\ Final(t) \in Nat
      BY <1>4, <1>5, <2>3, <2>12, FileBlocks DEF First, Final
    <3>3. Within(t) => SubSeq(before[t].blocks, First(t), First(t) - 1) = <<>>
      BY <2>4, <2>12, <3>2
    <3>4. size = Len(before[t].blocks)
      BY <1>5, <2>12 DEF size
    <3>5. Reads(t)'
      <4>1. CASE next = "close"
        <5>1. ASSUME r.method = "GET", Within(t)
              PROVE  part.length = 0 /\ SubSeq(before[t].blocks, First(t), Final(t)) = <<>>
          <6>1. part.length = 0
            BY <2>5, <4>1, <5>1
          <6>2. Final(t) = First(t) - 1
            BY <2>4, <2>12, <3>2, <5>1, <6>1
          <6> QED
            BY <3>3, <5>1, <6>1, <6>2
        <5>2. Len(<<>>) = 0
          OBVIOUS
        <5> QED
          BY <2>7, <2>9, <3>1, <4>1, <5>1, <5>2 DEF Reads
      <4>2. CASE next = "sendfile"
        BY <1>5, <2>4, <2>5, <2>6, <2>7, <2>9, <2>12, <3>1, <3>2, <3>4, <4>2 DEF Reads
      <4>3. CASE next = "loop"
        <5>1. Within(t) => SubSeq(before[t].blocks, First(t), o.from + o.tr) = <<>>
          <6>1. Within(t) => o.from + o.tr = First(t) - 1
            BY <2>4, <2>6, <2>12, <3>2
          <6> QED
            BY <3>3, <6>1
        <5>2. Within(t) => /\ o.from = First(t) - 1 /\ o.length = Final(t) - o.from
                           /\ Final(t) <= Len(before[t].blocks)
          BY <2>4, <2>5, <2>6, <2>12, <3>4, <4>3
        <5>3. o.file = fs[p]
          BY <1>5, <2>6, <2>12
        <5>4. /\ File(t)' /\ a.code \in {200, 206} /\ a.body = <<>> /\ pc'[t] = "loop"
          BY <2>7, <2>9, <3>1, <4>3
        <5> HIDE DEF next
        <5> QED
          BY <2>9, <5>1, <5>2, <5>3, <5>4 DEF Reads
      <4> QED
        BY <2>5, <4>1, <4>2, <4>3 DEF Sending
    <3> QED
      BY <1>3, <2>5, <2>9, <2>12, <3>5 DEF Knows, Lists, Copies, Finds, Sending
  <2> QED
    BY <2>8, <2>10, <2>11, <2>12, QuietStep
<1> QED
  BY <1>9, <1>10, <1>11, <1>12, <1>4

\* What is known while a file is sent
LEMMA SendingFile ==
  ASSUME FilesInv, NEW t \in Threads, pc[t] \in {"loop", "sendfile"}
  PROVE  LET b == before[t].blocks IN
         /\ op[t] \in Ops /\ answer[t] \in AnAnswer /\ Placed(t) /\ Sent(t) /\ Types
         /\ op[t].file \in DOMAIN inodes /\ IsGet(t) /\ req[t].method = "GET"
         /\ op[t].length = answer[t].length /\ op[t].tr <= op[t].length
         /\ op[t].from \in Nat /\ op[t].length \in Nat /\ op[t].tr \in Nat
         /\ answer[t].body \in Seq(Block)
         /\ ~disturbed[t] =>
              /\ Holds(req[t].path) = before[t] /\ File(t) /\ answer[t].code \in {200, 206}
              /\ b = inodes[op[t].file].blocks /\ b \in Seq(Block) /\ op[t].file = fs[req[t].path]
              /\ Within(t) => /\ op[t].from = First(t) - 1 /\ Final(t) = op[t].from + op[t].length
                              /\ op[t].from + op[t].length <= Len(b)
                              /\ pc[t] = "loop" => answer[t].body = SubSeq(b, op[t].from + 1, op[t].from + op[t].tr)
<1>1. /\ req[t].path \in Paths /\ IsRequest(req[t]) /\ op[t] \in Ops /\ answer[t] \in AnAnswer
      /\ before[t] \in Inode \union {Missing}
      /\ Placed(t) /\ Sent(t) /\ Types /\ (~disturbed[t] => Knows(t))
  BY OnRequest
<1>2. /\ op[t].file \in DOMAIN inodes /\ req[t].method = "GET" /\ IsGet(t)
      /\ op[t].length = answer[t].length /\ op[t].tr <= op[t].length
  BY <1>1 DEF Sent, IsGet
<1>3. /\ op[t].from \in Nat /\ op[t].length \in Nat /\ op[t].tr \in Nat
      /\ answer[t].body \in Seq(Block)
  BY <1>1 DEF Ops, AnAnswer
<1>4. ASSUME ~disturbed[t]
      PROVE  /\ Holds(req[t].path) = before[t] /\ File(t) /\ answer[t].code \in {200, 206}
             /\ op[t].file = fs[req[t].path]
             /\ Within(t) => /\ op[t].from = First(t) - 1 /\ op[t].length = Final(t) - op[t].from
                             /\ Final(t) <= Len(before[t].blocks)
                             /\ pc[t] = "loop" => answer[t].body = SubSeq(before[t].blocks, First(t), op[t].from + op[t].tr)
  BY <1>1, <1>4 DEF Knows, Reads
<1>5. ASSUME ~disturbed[t]
      PROVE  before[t].blocks = inodes[op[t].file].blocks /\ before[t].blocks \in Seq(Block)
  <2>1. before[t] = inodes[op[t].file]
    BY <1>4, <1>5, <1>1 DEF Holds, File
  <2> QED
    BY <1>2, <2>1, FileBlocks
<1>6. First(t) \in Nat /\ (~disturbed[t] => Final(t) \in Nat)
  BY <1>1, <1>2, <1>5 DEF First, Final, IsRequest
<1>7. ASSUME ~disturbed[t], Within(t)
      PROVE  /\ First(t) = op[t].from + 1 /\ Final(t) = op[t].from + op[t].length
             /\ op[t].from + op[t].length <= Len(before[t].blocks)
  BY <1>3, <1>4, <1>5, <1>6, <1>7
<1> QED
  BY <1>1, <1>2, <1>3, <1>4, <1>5, <1>7

\* A piece more, of what is still to be sent: the body goes on where it was.
LEMMA SendsPiece ==
  ASSUME FilesInv, NEW t \in Threads, pc[t] = "loop", NEW n \in Nat, op[t].tr + n <= op[t].length,
         NEW next \in {"loop", "close"}, Goes(t, next), Keep,
         Sends(t, Blocks(op[t].file, op[t].from + op[t].tr, n)),
         next = "close" => op[t].tr + n = op[t].length
  PROVE  FilesInv'
<1> DEFINE c == Blocks(op[t].file, op[t].from + op[t].tr, n)
           o == [op[t] EXCEPT !.tr = op[t].tr + Len(c)]
           a == [answer[t] EXCEPT !.body = answer[t].body \o c]
           b == before[t].blocks
           i == op[t].from + op[t].tr
<1>1. /\ op[t] \in Ops /\ answer[t] \in AnAnswer /\ Placed(t) /\ Sent(t) /\ Types
      /\ op[t].file \in DOMAIN inodes /\ IsGet(t) /\ req[t].method = "GET"
      /\ op[t].length = answer[t].length /\ op[t].tr <= op[t].length
      /\ op[t].from \in Nat /\ op[t].length \in Nat /\ op[t].tr \in Nat
      /\ answer[t].body \in Seq(Block)
  BY SendingFile
<1>2. i \in Nat
  BY <1>1
<1> HIDE DEF i
<1>3. /\ c \in Seq(Block) /\ Len(c) \in Nat /\ Len(c) <= n
      /\ c = SubSeq(inodes[op[t].file].blocks, i + 1, i + Len(c))
      /\ i + n <= Len(inodes[op[t].file].blocks) => Len(c) = n
  <2> DEFINE d == Blocks(op[t].file, i, n)
  <2>1. /\ d \in Seq(Block) /\ Len(d) <= n
        /\ d = SubSeq(inodes[op[t].file].blocks, i + 1, i + Len(d))
        /\ i + n <= Len(inodes[op[t].file].blocks) => Len(d) = n
    <3>1. IsPart(d, inodes[op[t].file].blocks, i, n)
      BY <1>1, <1>2, BlocksOf
    <3> QED
      BY <3>1 DEF IsPart
  <2>2. c = d
    BY DEF i
  <2> HIDE DEF d, c
  <2>3. Len(d) \in Nat
    BY <2>1
  <2> QED
    BY <2>1, <2>2, <2>3
<1>4. op' = [op EXCEPT ![t] = o] /\ answer' = [answer EXCEPT ![t] = a]
  BY <1>1 DEF Sends, Types
<1> HIDE DEF c
<1>5. op[t].tr + Len(c) \in Nat
  BY <1>1, <1>3
<1>6. /\ o \in Ops /\ o.tr = op[t].tr + Len(c) /\ o.length = op[t].length /\ o.from = op[t].from
      /\ o.file = op[t].file /\ o.dest = op[t].dest /\ o.fds = op[t].fds
  BY <1>1, <1>5 DEF Ops
<1>7. /\ a \in AnAnswer /\ a.body = answer[t].body \o c /\ Len(a.body) = Len(answer[t].body) + Len(c)
      /\ a.length = answer[t].length /\ a.code = answer[t].code
  <2> DEFINE body == answer[t].body \o c
  <2>1. body \in Seq(Block) /\ Len(body) = Len(answer[t].body) + Len(c)
    BY <1>1, <1>3
  <2> HIDE DEF body
  <2>2. a \in AnAnswer /\ a.body = body /\ a.length = answer[t].length /\ a.code = answer[t].code
    BY <1>1, <2>1 DEF AnAnswer, body
  <2> QED
    BY <2>1, <2>2 DEF body
<1>8. Quiet(t, next, o, a)
  <2>1. next \in Places \ {"idle"}
    BY DEF Places, Sending
  <2> QED
    BY <1>1, <1>4, <1>6, <1>7, <2>1 DEF Quiet, Goes, Keep
<1> HIDE DEF o, a
<1>9. /\ Holds(req[t].path)' = Holds(req[t].path) /\ fs' = fs /\ inodes' = inodes
      /\ pc'[t] = next /\ op'[t] = o /\ answer'[t] = a /\ req'[t] = req[t]
      /\ before'[t] = before[t] /\ IsGet(t)' = IsGet(t) /\ File(t)' = File(t) /\ Within(t)' = Within(t)
      /\ First(t)' = First(t) /\ Final(t)' = Final(t)
  BY <1>8, QuietSame
<1>10. Len(answer[t].body) = op[t].tr
  BY <1>1 DEF Sent
<1>11. Placed(t)'
  BY <1>1, <1>6, <1>9 DEF Placed, Sending, Listing, Calls
<1>12. Sent(t)'
  <2>1. Len(a.body) <= a.length /\ o.tr <= o.length
    <3>1. Len(a.body) = op[t].tr + Len(c)
      BY <1>7, <1>10
    <3> QED
      BY <1>1, <1>3, <1>6, <1>7, <3>1
  <2> QED
    BY <1>1, <1>6, <1>7, <1>9, <1>10, <2>1 DEF Sent
<1>13. ASSUME ~disturbed[t] PROVE Knows(t)'
  <2>1. /\ Holds(req[t].path) = before[t] /\ File(t) /\ answer[t].code \in {200, 206}
        /\ b = inodes[op[t].file].blocks /\ b \in Seq(Block) /\ op[t].file = fs[req[t].path]
        /\ Within(t) => /\ op[t].from = First(t) - 1 /\ Final(t) = op[t].from + op[t].length
                        /\ op[t].from + op[t].length <= Len(b)
                        /\ answer[t].body = SubSeq(b, op[t].from + 1, i)
    BY <1>13, SendingFile DEF i
  <2> HIDE DEF b
  <2>2. First(t) \in Nat
    BY <1>1, OnRequest DEF First, IsRequest, IsGet
  <2> DEFINE L == Len(b)
  <2>3. ASSUME Within(t)
        PROVE  /\ Len(c) = n /\ First(t) = op[t].from + 1
               /\ a.body = SubSeq(b, First(t), i + n) /\ i + n <= L
    <3>1. L \in Nat /\ op[t].from + op[t].length <= L /\ i = op[t].from + op[t].tr
      BY <2>1, <2>3 DEF i
    <3>2. op[t].from + 1 \in Nat /\ First(t) = op[t].from + 1
      BY <1>1, <2>1, <2>2, <2>3
    <3>3. Len(c) = n /\ c = SubSeq(b, i + 1, i + n) /\ i + n <= L
      <4> HIDE DEF L
      <4>1. i + n <= L
        BY <1>1, <3>1, SMTT(40)
      <4>2. i + n <= Len(b)
        BY <4>1 DEF L
      <4> QED
        BY <1>3, <2>1, <4>1, <4>2
    <3>4. SubSeq(b, op[t].from + 1, i) \o SubSeq(b, i + 1, i + n) = SubSeq(b, op[t].from + 1, i + n)
      <4> HIDE DEF L
      <4>1. op[t].from + 1 \in 1..L+1 /\ i \in (op[t].from + 1) - 1..L /\ i + n \in i..L
        <5>1. op[t].from \in Nat /\ op[t].tr \in Nat /\ n \in Nat /\ i \in Nat /\ L \in Nat
              /\ i + n <= L /\ i = op[t].from + op[t].tr
          BY <1>1, <1>2, <3>1, <3>3
        <5> QED
          BY ONLY <5>1
      <4>2. b \in Seq(Block)
        BY <2>1
      <4> DEFINE m == op[t].from + 1
      <4>3. m \in 1..Len(b)+1 /\ i \in m - 1..Len(b) /\ i + n \in i..Len(b)
        BY <4>1 DEF L
      <4> HIDE DEF b, m
      <4>4. SubSeq(b, m, i) \o SubSeq(b, i + 1, i + n) = SubSeq(b, m, i + n)
        BY ONLY <4>2, <4>3, ConcatAdjacentSubSeq
      <4> QED
        BY <4>4 DEF m
    <3>5. a.body = answer[t].body \o c /\ answer[t].body = SubSeq(b, op[t].from + 1, i)
      BY <1>7, <2>1, <2>3
    <3> QED
      BY <3>2, <3>3, <3>4, <3>5
  <2>4. ASSUME Within(t), next = "close"
        PROVE  Final(t) = i + n /\ a.length = Len(a.body)
    <3>1. op[t].tr + n = op[t].length
      BY <2>4
    <3>2. Len(a.body) = op[t].tr + n /\ a.length = op[t].length
      BY <1>1, <1>7, <1>10, <2>3, <2>4
    <3>3. i + n = op[t].from + op[t].length
      BY <1>1, <3>1 DEF i
    <3> QED
      BY <2>1, <2>4, <3>1, <3>2, <3>3
  <2>5. Reads(t)'
    <3>1. CASE next = "loop"
      <4>1. Within(t) => o.from + o.tr = i + n
        BY <1>1, <1>6, <2>3 DEF i
      <4>2. Within(t) => o.length = Final(t) - o.from /\ Final(t) <= Len(b) /\ o.from = First(t) - 1
        BY <1>1, <1>6, <2>1, <2>2
      <4> QED
        BY <1>6, <1>7, <1>9, <2>1, <2>3, <3>1, <4>1, <4>2 DEF Reads, b
    <3>2. CASE next = "close"
      BY <1>7, <1>9, <2>1, <2>3, <2>4, <3>2 DEF Reads, b
    <3> QED
      BY <3>1, <3>2
  <2> QED
    BY <1>9, <2>1, <2>5 DEF Knows, Lists, Copies, Finds
<1> QED
  BY <1>8, <1>11, <1>12, <1>13, QuietStep

\* A full buffer is a piece.
LEMMA LoopInv ==
  ASSUME FilesInv, NEW t \in Threads, Loop(t)
  PROVE  FilesInv'
<1>1. /\ pc[t] = "loop" /\ More(t)
      /\ Sends(t, Blocks(op[t].file, op[t].from + op[t].tr, Buffer)) /\ Goes(t, "loop") /\ Keep
  BY DEF Loop
<1>2. op[t].length \in Nat /\ op[t].tr \in Nat /\ Buffer \in Nat
  BY <1>1, SendingFile, FilesAssumption
<1>3. op[t].tr + Buffer <= op[t].length
  BY <1>1, <1>2 DEF More
<1> QED
  BY <1>1, <1>2, <1>3, SendsPiece

\* What is left is a piece, and the last one.
LEMMA LoopLastInv ==
  ASSUME FilesInv, NEW t \in Threads, LoopLast(t)
  PROVE  FilesInv'
<1> DEFINE n == op[t].length - op[t].tr
<1>1. pc[t] = "loop" /\ ~More(t) /\ Goes(t, "close") /\ Keep
  BY DEF LoopLast
<1>2. op[t].length \in Nat /\ op[t].tr \in Nat /\ Buffer \in Nat /\ op[t].tr <= op[t].length
  BY <1>1, SendingFile, FilesAssumption
<1>3. n \in Nat /\ op[t].tr + n = op[t].length /\ Buffer >= n
  BY <1>1, <1>2 DEF More
<1>4. Sends(t, Blocks(op[t].file, op[t].from + op[t].tr, n))
  BY <1>3 DEF LoopLast
<1> HIDE DEF n
<1>5. op[t].tr + n <= op[t].length
  BY <1>2, <1>3
<1> QED
  BY <1>1, <1>3, <1>4, <1>5, SendsPiece

\* The client has gone: what is read meanwhile goes nowhere.
LEMMA LoopBrokenInv ==
  ASSUME FilesInv, NEW t \in Threads, LoopBroken(t)
  PROVE  FilesInv'
<1> DEFINE n == Piece(t)
           c == Blocks(op[t].file, op[t].from + op[t].tr, n)
           o == [op[t] EXCEPT !.tr = op[t].tr + Len(c)]
           a == [answer[t] EXCEPT !.broken = TRUE]
<1>1. pc[t] = "loop" /\ Goes(t, "close") /\ Keep
  BY DEF LoopBroken
<1>2. /\ op[t] \in Ops /\ answer[t] \in AnAnswer /\ Placed(t) /\ Sent(t) /\ Types /\ IsGet(t)
      /\ req[t].method = "GET" /\ op[t].file \in DOMAIN inodes
      /\ op[t].from \in Nat /\ op[t].length \in Nat /\ op[t].tr \in Nat /\ op[t].tr <= op[t].length
      /\ ~disturbed[t] => Holds(req[t].path) = before[t] /\ File(t) /\ answer[t].code \in {200, 206}
  BY <1>1, SendingFile
<1>3. n \in Nat /\ op[t].tr + n <= op[t].length
  BY <1>2, FilesAssumption DEF Piece, More
<1> HIDE DEF n
<1>4. Len(c) \in Nat /\ Len(c) <= n
  <2> DEFINE i == op[t].from + op[t].tr
  <2>1. i \in Nat /\ op[t].file \in DOMAIN inodes
    BY <1>2
  <2> HIDE DEF i
  <2>2. IsPart(Blocks(op[t].file, i, n), inodes[op[t].file].blocks, i, n)
    BY <1>3, <2>1, BlocksOf
  <2> DEFINE d == Blocks(op[t].file, i, n)
  <2>3. d \in Seq(Block) /\ Len(d) <= n
    BY <2>2 DEF IsPart
  <2>4. c = d
    BY DEF i
  <2> HIDE DEF c, d
  <2> QED
    BY <2>3, <2>4
<1>5. answer' = [answer EXCEPT ![t] = a] /\ op' = [op EXCEPT ![t] = o]
  BY <1>1, <1>2 DEF LoopBroken, Types, n
<1> HIDE DEF c
<1>6. op[t].tr + Len(c) \in Nat /\ op[t].tr + Len(c) <= op[t].length
  BY <1>2, <1>3, <1>4
<1>7. /\ o \in Ops /\ o.tr <= o.length /\ o.file = op[t].file /\ o.dest = op[t].dest /\ o.fds = op[t].fds
  BY <1>2, <1>6 DEF Ops
<1>8. /\ a \in AnAnswer /\ a.body = answer[t].body /\ a.length = answer[t].length /\ a.code = answer[t].code
      /\ a.broken = TRUE /\ a.failed = answer[t].failed
  BY <1>2 DEF AnAnswer
<1>9. Quiet(t, "close", o, a)
  <2>1. "close" \in Places \ {"idle"}
    BY DEF Places, Sending
  <2> QED
    BY <1>1, <1>2, <1>5, <1>7, <1>8, <2>1 DEF Quiet, Goes, Keep
<1> HIDE DEF a, o
<1>10. /\ Holds(req[t].path)' = Holds(req[t].path) /\ fs' = fs /\ inodes' = inodes
      /\ pc'[t] = "close" /\ op'[t] = o /\ answer'[t] = a /\ req'[t] = req[t]
      /\ before'[t] = before[t] /\ IsGet(t)' = IsGet(t) /\ File(t)' = File(t)
  BY <1>9, QuietSame
<1>11. Placed(t)'
  BY <1>1, <1>2, <1>7, <1>10 DEF Placed, Sending, Listing, Calls
<1>12. Sent(t)'
  BY <1>2, <1>7, <1>8, <1>10 DEF Sent
<1>13. ASSUME ~disturbed[t] PROVE Knows(t)'
  <2>1. Reads(t)'
    BY <1>2, <1>8, <1>10, <1>13 DEF Reads
  <2> QED
    BY <1>2, <1>10, <1>13, <2>1 DEF Knows, Lists, Copies, Finds
<1> QED
  BY <1>9, <1>11, <1>12, <1>13, QuietStep

\* sendfile() is all of it, or the page of the error comes behind what there was.
LEMMA SendfileInv ==
  ASSUME FilesInv, NEW t \in Threads, Sendfile(t)
  PROVE  FilesInv'
<1> DEFINE c == Blocks(op[t].file, op[t].from, op[t].length)
           short == Len(c) # op[t].length
           body == IF short THEN c \o ErrorPage ELSE c
           a == [answer[t] EXCEPT !.body = body, !.failed = short]
           b == before[t].blocks
<1>1. pc[t] = "sendfile" /\ Goes(t, "close") /\ UNCHANGED op /\ Keep
  BY DEF Sendfile
<1>2. /\ op[t] \in Ops /\ answer[t] \in AnAnswer /\ Placed(t) /\ Sent(t) /\ Types
      /\ op[t].file \in DOMAIN inodes /\ IsGet(t) /\ req[t].method = "GET"
      /\ op[t].length = answer[t].length /\ op[t].tr <= op[t].length
      /\ op[t].from \in Nat /\ op[t].length \in Nat
      /\ ~disturbed[t] =>
           /\ Holds(req[t].path) = before[t] /\ File(t) /\ answer[t].code \in {200, 206}
           /\ b = inodes[op[t].file].blocks
           /\ Within(t) => /\ op[t].from = First(t) - 1 /\ Final(t) = op[t].from + op[t].length
                           /\ op[t].from + op[t].length <= Len(b)
  BY <1>1, SendingFile
<1>3. /\ c \in Seq(Block) /\ Len(c) <= op[t].length
      /\ c = SubSeq(inodes[op[t].file].blocks, op[t].from + 1, op[t].from + Len(c))
      /\ op[t].from + op[t].length <= Len(inodes[op[t].file].blocks) => Len(c) = op[t].length
  <2>1. op[t].file \in DOMAIN inodes /\ op[t].from \in Nat /\ op[t].length \in Nat
    BY <1>2
  <2>2. IsPart(c, inodes[op[t].file].blocks, op[t].from, op[t].length)
    BY <2>1, BlocksOf
  <2> HIDE DEF c
  <2> QED
    BY <2>2 DEF IsPart
<1>4. answer' = [answer EXCEPT ![t] = a] /\ op' = [op EXCEPT ![t] = op[t]]
  BY <1>1, <1>2 DEF Sendfile, Types
<1> HIDE DEF c
<1>5. /\ a \in AnAnswer /\ a.length = answer[t].length /\ a.code = answer[t].code
      /\ a.failed \/ (a.body = c /\ Len(c) = op[t].length)
      /\ Len(c) = op[t].length => a.body = c
  <2>1. ErrorPage \in Seq(Block)
    BY FilesAssumption DEF ErrorPage, Block
  <2>2. body \in Seq(Block) /\ short \in BOOLEAN
    BY <1>3, <2>1
  <2>3. short \/ body = c
    OBVIOUS
  <2>4. Len(c) = op[t].length => ~short
    OBVIOUS
  <2> HIDE DEF body, short
  <2>5. a \in AnAnswer /\ a.length = answer[t].length /\ a.code = answer[t].code /\ a.body = body
        /\ a.failed = short
    BY <1>2, <2>2 DEF AnAnswer
  <2>6. ~short => Len(c) = op[t].length
    BY DEF short
  <2> QED
    BY <2>3, <2>4, <2>5, <2>6
<1>6. Quiet(t, "close", op[t], a)
  <2>1. "close" \in Places \ {"idle"}
    BY DEF Places, Sending
  <2> QED
    BY <1>1, <1>2, <1>4, <1>5, <2>1 DEF Quiet, Goes, Keep
<1> HIDE DEF a
<1>7. /\ Holds(req[t].path)' = Holds(req[t].path) /\ fs' = fs /\ inodes' = inodes
      /\ pc'[t] = "close" /\ op'[t] = op[t] /\ answer'[t] = a /\ req'[t] = req[t]
      /\ before'[t] = before[t] /\ IsGet(t)' = IsGet(t) /\ File(t)' = File(t) /\ Within(t)' = Within(t)
      /\ First(t)' = First(t) /\ Final(t)' = Final(t)
  BY <1>6, QuietSame
<1>8. Placed(t)'
  BY <1>1, <1>2, <1>7 DEF Placed, Sending, Listing, Calls
<1>9. Sent(t)'
  BY <1>2, <1>3, <1>5, <1>7 DEF Sent
<1>10. ASSUME ~disturbed[t] PROVE Knows(t)'
  <2>1. First(t) \in Nat
    BY <1>1, <1>2, OnRequest DEF First, IsRequest, IsGet
  <2>2. ASSUME Within(t)
        PROVE  a.body = SubSeq(b, First(t), Final(t)) /\ a.length = Len(a.body)
    <3>1. Len(c) = op[t].length
      BY <1>2, <1>3, <1>10, <2>2
    <3>2. First(t) = op[t].from + 1 /\ Final(t) = op[t].from + Len(c)
      BY <1>2, <1>10, <2>1, <2>2, <3>1
    <3> QED
      BY <1>2, <1>3, <1>5, <1>10, <3>1, <3>2
  <2>3. Reads(t)'
    BY <1>2, <1>5, <1>7, <1>10, <2>2 DEF Reads
  <2> QED
    BY <1>2, <1>7, <1>10, <2>3 DEF Knows, Lists, Copies, Finds
<1> QED
  BY <1>6, <1>8, <1>9, <1>10, QuietStep

\* The client has gone while sendfile() was at it.
LEMMA SendfileBrokenInv ==
  ASSUME FilesInv, NEW t \in Threads, SendfileBroken(t)
  PROVE  FilesInv'
<1> DEFINE c == Blocks(op[t].file, op[t].from, op[t].length)
<1>1. pc[t] = "sendfile" /\ Goes(t, "close") /\ UNCHANGED op /\ Keep
  BY DEF SendfileBroken
<1>2. PICK n \in 0..Len(c) : answer' = [answer EXCEPT ![t].body = SubSeq(c, 1, n), ![t].broken = TRUE]
  BY DEF SendfileBroken
<1> DEFINE body == SubSeq(c, 1, n)
           a == [answer[t] EXCEPT !.body = body, !.broken = TRUE]
<1>3. /\ op[t] \in Ops /\ answer[t] \in AnAnswer /\ Placed(t) /\ Sent(t) /\ Types
      /\ op[t].file \in DOMAIN inodes /\ IsGet(t) /\ req[t].method = "GET"
      /\ op[t].length = answer[t].length /\ op[t].tr <= op[t].length
      /\ op[t].from \in Nat /\ op[t].length \in Nat
      /\ ~disturbed[t] => Holds(req[t].path) = before[t] /\ File(t) /\ answer[t].code \in {200, 206}
  BY <1>1, SendingFile
<1>4. c \in Seq(Block) /\ Len(c) <= op[t].length
  <2>1. IsPart(c, inodes[op[t].file].blocks, op[t].from, op[t].length)
    BY <1>3, BlocksOf
  <2> HIDE DEF c
  <2> QED
    BY <2>1 DEF IsPart
<1>5. answer' = [answer EXCEPT ![t] = a] /\ op' = [op EXCEPT ![t] = op[t]]
  BY <1>1, <1>2, <1>3 DEF Types
<1> HIDE DEF c
<1>6. body \in Seq(Block) /\ Len(body) <= op[t].length
  <2>1. n \in Nat /\ n <= Len(c) /\ Len(c) \in Nat
    BY <1>2, <1>4
  <2>2. body \in Seq(Block) /\ Len(body) = n
    BY <1>4, <2>1
  <2> QED
    BY <1>3, <1>4, <2>1, <2>2
<1> HIDE DEF body
<1>7. /\ a \in AnAnswer /\ a.body = body /\ a.length = answer[t].length /\ a.code = answer[t].code
      /\ a.broken = TRUE
  BY <1>3, <1>6 DEF AnAnswer
<1>8. Quiet(t, "close", op[t], a)
  <2>1. "close" \in Places \ {"idle"}
    BY DEF Places, Sending
  <2> QED
    BY <1>1, <1>3, <1>5, <1>7, <2>1 DEF Quiet, Goes, Keep
<1> HIDE DEF a
<1>9. /\ Holds(req[t].path)' = Holds(req[t].path) /\ fs' = fs /\ inodes' = inodes
      /\ pc'[t] = "close" /\ op'[t] = op[t] /\ answer'[t] = a /\ req'[t] = req[t]
      /\ before'[t] = before[t] /\ IsGet(t)' = IsGet(t) /\ File(t)' = File(t)
  BY <1>8, QuietSame
<1>10. Placed(t)'
  BY <1>1, <1>3, <1>9 DEF Placed, Sending, Listing, Calls
<1>11. Sent(t)'
  BY <1>3, <1>6, <1>7, <1>9 DEF Sent
<1>12. ASSUME ~disturbed[t] PROVE Knows(t)'
  <2>1. Reads(t)'
    BY <1>3, <1>7, <1>9, <1>12 DEF Reads
  <2> QED
    BY <1>3, <1>9, <1>12, <2>1 DEF Knows, Lists, Copies, Finds
<1> QED
  BY <1>8, <1>10, <1>11, <1>12, QuietStep

\* The response is over: it says what the file held.
LEMMA CloseInv ==
  ASSUME FilesInv, NEW t \in Threads, Close(t)
  PROVE  FilesInv'
<1> DEFINE o == [op[t] EXCEPT !.fds = {}]
           p == req[t].path
<1>1. pc[t] = "close" /\ Goes(t, "done") /\ Keep /\ answer' = [answer EXCEPT ![t] = answer[t]]
  BY DEF Close, Answers
<1>2. /\ p \in Paths /\ IsRequest(req[t]) /\ req[t] \in Requests /\ op[t] \in Ops /\ answer[t] \in AnAnswer
      /\ Placed(t) /\ Sent(t) /\ Types /\ (~disturbed[t] => Knows(t))
  BY <1>1, OnRequest
<1>3. IsGet(t)
  BY <1>1, <1>2 DEF Placed, Sending
<1>4. op' = [op EXCEPT ![t] = o]
  BY <1>2 DEF Close, Types
<1>5. o \in Ops /\ o.fds = {} /\ o.dest = op[t].dest /\ o.tr = op[t].tr /\ o.length = op[t].length
  BY <1>2 DEF Ops
<1>6. Quiet(t, "done", o, answer[t])
  BY <1>1, <1>2, <1>3, <1>4, <1>5 DEF Quiet, Goes, Keep, Places, IsGet
<1> HIDE DEF o
<1>7. /\ \A q : There(q)' = There(q) /\ IsDir(q)' = IsDir(q) /\ Holds(q)' = Holds(q)
      /\ pc'[t] = "done" /\ op'[t] = o /\ answer'[t] = answer[t] /\ req'[t] = req[t]
      /\ before'[t] = before[t] /\ IsGet(t)' = IsGet(t) /\ File(t)' = File(t) /\ Within(t)' = Within(t)
      /\ First(t)' = First(t) /\ Final(t)' = Final(t)
  BY <1>6, QuietSame
<1>8. Placed(t)'
  BY <1>2, <1>5, <1>7 DEF Placed, Sending, Listing, Calls
<1>9. Sent(t)'
  BY <1>2, <1>5, <1>7 DEF Sent
<1>10. ASSUME ~disturbed[t] PROVE Knows(t)'
  <2>1. Holds(p) = before[t] /\ File(t) /\ answer[t].code \in {200, 206}
        /\ (req[t].method = "GET" /\ ~answer[t].broken /\ Within(t) =>
             /\ answer[t].body = SubSeq(before[t].blocks, First(t), Final(t))
             /\ answer[t].length = Len(answer[t].body))
    BY <1>1, <1>2, <1>10 DEF Knows, Reads
  <2>2. Finds(t)'
    BY <1>7, <2>1 DEF Finds, File
  <2>3. ~IsDir(p)
    BY <2>1 DEF Holds, IsDir, File
  <2>4. Effect(t)'
    BY <1>3, <1>7, <2>1, <2>3 DEF Effect, IsGet
  <2> QED
    BY <1>7, <2>2, <2>4 DEF Knows, Reads, Lists, Copies
<1> QED
  BY <1>6, <1>8, <1>9, <1>10, QuietStep

\* A line says what it is of.
LEMMA LineIsLine ==
  ASSUME FilesInv, NEW t \in Threads, NEW q \in Paths, NEW d \in BOOLEAN
  PROVE  Line(t, q, d) \in Lines
<1>1. Asked(req[t]) \subseteq KnownProps
  BY DEF Asked, KnownProps
<1>2. Props(q, d, Asked(req[t])) \in
        [path : Paths, dir : BOOLEAN, found : SUBSET KnownProps, missing : SUBSET KnownProps]
  BY <1>1 DEF Props
<1> QED
  BY <1>2 DEF Line, Lines

\* Whether a path is a directory is TRUE or FALSE.
LEMMA DirIsBoolean ==
  ASSUME FilesInv, NEW q \in Paths
  PROVE  IsDir(q) \in BOOLEAN
BY DEF IsDir

\* The lines of a multistatus are right, whatever was asked for.
LEMMA LinesAreRight ==
  ASSUME FilesInv, NEW t \in Threads, req[t].via # "export", NEW S, S \subseteq Paths
  PROVE  /\ {<<l.path, l.dir>> : l \in LinesOf(t, S)} = {<<q, IsDir(q)>> : q \in S}
         /\ \A l \in LinesOf(t, S) :
              /\ l.found \intersect l.missing = {}
              /\ l.found \union l.missing = Asked(req[t]) \ (IF l.dir THEN {"executable"} ELSE {})
<1> DEFINE asked == Asked(req[t])
           L(q) == Props(q, IsDir(q), asked)
<1>1. LinesOf(t, S) = {L(q) : q \in S}
  BY DEF LinesOf, Line
<1>2. \A q \in S : L(q).path = q /\ L(q).dir = IsDir(q)
  BY DEF Props
<1>3. \A q \in S : /\ L(q).found \intersect L(q).missing = {}
                   /\ L(q).found \union L(q).missing = asked \ (IF L(q).dir THEN {"executable"} ELSE {})
  <2> HIDE DEF asked
  <2> SUFFICES ASSUME NEW q \in S
               PROVE  /\ L(q).found \intersect L(q).missing = {}
                      /\ L(q).found \union L(q).missing = asked \ (IF L(q).dir THEN {"executable"} ELSE {})
    OBVIOUS
  <2>1. CASE IsDir(q)
    <3>1. /\ L(q).dir = IsDir(q)
          /\ L(q).found = asked \ {"displayname", "getcontentlength", "executable"}
          /\ L(q).missing = asked \intersect {"displayname", "getcontentlength"}
      BY <2>1 DEF Props, OnlyFiles
    <3> HIDE DEF L
    <3> QED
      BY <2>1, <3>1
  <2>2. CASE ~IsDir(q)
    <3>1. /\ L(q).dir = IsDir(q)
          /\ L(q).found = asked \ {"displayname", "getcontenttype"}
          /\ L(q).missing = asked \intersect {"displayname", "getcontenttype"}
      BY <2>2 DEF Props
    <3> HIDE DEF L
    <3> QED
      BY <2>2, <3>1
  <2> QED
    BY <2>1, <2>2
<1> HIDE DEF L
<1> QED
  BY <1>1, <1>2, <1>3

\* A quiet step leaves the lines as they are.
LEMMA QuietLines ==
  ASSUME FilesInv, NEW t \in Threads, NEW next, NEW o, NEW a, Quiet(t, next, o, a)
  PROVE  /\ \A S : LinesOf(t, S)' = LinesOf(t, S)
         /\ Itself(t)' = Itself(t)
<1>1. \A q : IsDir(q)' = IsDir(q)
  BY QuietSame
<1>2. req'[t] = req[t]
  BY QuietSame
<1> QED
  BY <1>1, <1>2, LinesUnchanged DEF LinesOf, Itself

\* Nothing is in what is not a directory.
LEMMA NoChildren ==
  ASSUME FilesInv, NEW p \in Paths, ~IsDir(p)
  PROVE  Children(p) = {}
BY DEF FilesInv, Rooted, Children, There

\* The lines so far, and where they are read on
LinesKnown(t, next, o, a) ==
  LET p == req[t].path
      export == req[t].via = "export"
  IN \/ next = "opendir" /\ ~export /\ a.code = 404 /\ ~There(p)
     \/ next = "opendir" /\ ~export /\ a.code = 207 /\ a.listed = LinesOf(t, {p}) /\ req[t].depth > 0
     \/ /\ next = "readdir" /\ IsDir(p) /\ o.pending \subseteq Children(p)
        /\ a.listed = LinesOf(t, Itself(t) \union (Children(p) \ o.pending))
        /\ IF export THEN a.code = 200 ELSE a.code = 207 /\ req[t].depth > 0
     \/ next = "listed" /\ export /\ IsDir(p) /\ a.code = 200 /\ a.listed = LinesOf(t, Children(p))
     \/ next = "listed" /\ ~export /\ a.code = 404
     \/ /\ next = "listed" /\ ~export /\ a.code = 207
        /\ a.listed = LinesOf(t, {p} \union (IF req[t].depth > 0 THEN Children(p) ELSE {}))

\* A step that keeps to the listing keeps what is known of it.
LEMMA ListingStep ==
  ASSUME FilesInv, NEW t \in Threads, NEW next \in Listing, NEW o, NEW a, Quiet(t, next, o, a),
         pc[t] \in {"PROPFIND"} \union Listing,
         o.fds # {} => next = "readdir", a.failed \/ Len(a.body) <= a.length, o.tr = op[t].tr, o.length = op[t].length,
         ~disturbed[t] => LinesKnown(t, next, o, a)
  PROVE  FilesInv'
<1> DEFINE p == req[t].path
<1>1. pc[t] \notin {"idle", "copy"}
  BY DEF Listing
<1>2. /\ p \in Paths /\ IsRequest(req[t]) /\ req[t] \in Requests
      /\ Placed(t) /\ Sent(t) /\ Types /\ (~disturbed[t] => Knows(t))
  BY <1>1, OnRequest
<1>3. req[t].via = "export" \/ req[t].method = "PROPFIND"
  BY <1>2 DEF Placed, Calls, Listing
<1>4. /\ \A q : There(q)' = There(q) /\ IsDir(q)' = IsDir(q)
                /\ Holds(q)' = Holds(q) /\ Children(q)' = Children(q)
      /\ pc'[t] = next /\ op'[t] = o /\ answer'[t] = a /\ req'[t] = req[t] /\ before'[t] = before[t]
  BY QuietSame
<1>5. (\A S : LinesOf(t, S)' = LinesOf(t, S)) /\ Itself(t)' = Itself(t)
  BY QuietLines
<1>6. Placed(t)'
  BY <1>1, <1>2, <1>3, <1>4 DEF Placed, Sending, Listing, Calls
<1>7. Sent(t)'
  BY <1>2, <1>4 DEF Sent, Listing
<1>8. ASSUME ~disturbed[t] PROVE Knows(t)'
  <2>1. Holds(p) = before[t]
    BY <1>1, <1>2, <1>8 DEF Knows, Listing
  <2>2. req[t].via \in {"export", "webdav"}
    BY <1>2 DEF IsRequest
  <2>3. req[t].path' = p /\ Children(p)' = Children(p)
    BY <1>4
  <2>4. LinesOf(t, Itself(t) \union (Children(p) \ op[t].pending))'
        = LinesOf(t, Itself(t) \union (Children(p) \ o.pending))
    BY <1>4, <1>5, <2>3
  <2>5. LinesOf(t, Children(p))' = LinesOf(t, Children(p))
    BY <1>4, <1>5, <2>3
  <2>6. LinesOf(t, {p} \union (IF req[t].depth > 0 THEN Children(p) ELSE {}))'
        = LinesOf(t, {p} \union (IF req[t].depth > 0 THEN Children(p) ELSE {}))
    BY <1>4, <1>5, <2>3
  <2>7. Lists(t)'
    <3>1. CASE next = "opendir"
      BY <1>4, <1>5, <1>8, <2>2, <3>1 DEF Lists, LinesKnown
    <3>2. CASE next = "readdir"
      BY <1>4, <1>8, <2>3, <2>4, <3>2 DEF Lists, LinesKnown
    <3>3. CASE next = "listed"
      BY <1>4, <1>8, <2>3, <2>5, <2>6, <3>3 DEF Lists, LinesKnown
    <3> QED
      BY <3>1, <3>2, <3>3 DEF Listing
  <2>8. Reads(t)'
    BY <1>4 DEF Reads, Listing
  <2> QED
    BY <1>4, <2>1, <2>7, <2>8 DEF Knows, Copies, Finds, Listing
<1> QED
  BY <1>6, <1>7, <1>8, QuietStep

\* onion_webdav_propfind: the first line is that of the path.
LEMMA PropfindInv ==
  ASSUME FilesInv, NEW t \in Threads, Propfind(t)
  PROVE  FilesInv'
<1> DEFINE p == req[t].path
           line == Line(t, p, IsDir(p))
           a == [Code(207) EXCEPT !.listed = {line}]
<1>1. pc[t] = "PROPFIND" /\ UNCHANGED op /\ Keep
  BY DEF Propfind
<1>2. /\ p \in Paths /\ IsRequest(req[t]) /\ op[t] \in Ops /\ answer[t] \in AnAnswer
      /\ Placed(t) /\ Sent(t) /\ Types
  BY <1>1, OnRequest
<1>3. req[t].method = "PROPFIND" /\ req[t].via = "webdav" /\ req[t].depth \in Nat \union {Missing}
      /\ op' = [op EXCEPT ![t] = op[t]] /\ op[t].fds = {}
  BY <1>1, <1>2 DEF Placed, Calls, IsRequest, Types, Sending
<1>4. CASE req[t].depth = Missing
  <2>1. Answers(t, Code(500))
    BY <1>4 DEF Propfind
  <2> QED
    BY <1>1, <1>3, <2>1, Refused DEF Calls, IsGet
<1>5. CASE req[t].depth # Missing /\ ~There(p)
  <2>1. Goes(t, "opendir") /\ answer' = [answer EXCEPT ![t] = Code(404)]
    BY <1>5 DEF Propfind
  <2>2. Code(404) \in AnAnswer /\ Code(404).code = 404 /\ Code(404).body = <<>> /\ Code(404).length = 0
    BY CodeIsAnswer DEF Code, NoAnswer
  <2>3. Quiet(t, "opendir", op[t], Code(404))
    BY <1>1, <1>2, <1>3, <2>1, <2>2 DEF Quiet, Goes, Keep, Places, Listing
  <2>4. Len(Code(404).body) <= Code(404).length
    BY <2>2
  <2>5. "opendir" \in Listing /\ pc[t] \in {"PROPFIND"} \union Listing /\ req[t].via # "export"
    BY <1>1, <1>3 DEF Listing
  <2> DEFINE c == Code(404)
  <2>6. c.code = 404 /\ Len(c.body) <= c.length /\ Quiet(t, "opendir", op[t], c)
    BY <2>2, <2>3, <2>4
  <2> HIDE DEF c
  <2>7. LinesKnown(t, "opendir", op[t], c)
    BY <1>5, <2>5, <2>6 DEF LinesKnown
  <2> QED
    BY <1>3, <2>5, <2>6, <2>7, ListingStep
<1>6. CASE req[t].depth # Missing /\ There(p)
  <2>1. {"opendir", "listed"} \subseteq Listing /\ pc[t] \in {"PROPFIND"} \union Listing /\ req[t].via # "export"
    BY <1>1, <1>3 DEF Listing
  <2> DEFINE next == IF req[t].depth > 0 THEN "opendir" ELSE "listed"
  <2>2. Goes(t, next) /\ answer' = [answer EXCEPT ![t] = a]
    BY <1>6 DEF Propfind
  <2>3. line \in Lines
    BY <1>2, LineIsLine, DirIsBoolean
  <2>4. a \in AnAnswer /\ a.code = 207 /\ a.body = <<>> /\ a.length = 0 /\ a.listed = {line}
    <3> HIDE DEF line
    <3>1. Code(207) \in AnAnswer /\ Code(207).code = 207 /\ Code(207).body = <<>> /\ Code(207).length = 0
      BY CodeIsAnswer DEF Code, NoAnswer
    <3> QED
      BY <2>3, <3>1 DEF AnAnswer
  <2>5. LinesOf(t, {p}) = {line}
    BY DEF LinesOf
  <2> HIDE DEF a, line
  <2>6. Quiet(t, next, op[t], a)
    BY <1>1, <1>2, <1>3, <2>2, <2>4 DEF Quiet, Goes, Keep, Places, Listing
  <2>7. Len(a.body) <= a.length
    BY <2>4
  <2>8. CASE req[t].depth > 0
    <3>1. Quiet(t, "opendir", op[t], a)
      BY <2>6, <2>8
    <3>2. a.listed = LinesOf(t, {p})
      BY <2>4, <2>5
    <3>3. LinesKnown(t, "opendir", op[t], a)
      BY <2>1, <2>4, <2>8, <3>2 DEF LinesKnown
    <3> QED
      BY <1>3, <2>1, <2>4, <2>7, <3>1, <3>3, ListingStep
  <2>9. CASE ~(req[t].depth > 0)
    <3>1. {p} \union (IF req[t].depth > 0 THEN Children(p) ELSE {}) = {p}
      BY <2>9
    <3>2. Quiet(t, "listed", op[t], a)
      BY <2>6, <2>9
    <3>3. a.listed = LinesOf(t, {p} \union (IF req[t].depth > 0 THEN Children(p) ELSE {}))
      BY <2>4, <2>5, <3>1
    <3>4. LinesKnown(t, "listed", op[t], a)
      BY <2>1, <2>4, <3>3 DEF LinesKnown
    <3> QED
      BY <1>3, <2>1, <2>4, <2>7, <3>2, <3>4, ListingStep
  <2> QED
    BY <2>8, <2>9
<1> QED
  BY <1>4, <1>5, <1>6

\* What is known while a directory is listed
LEMMA Listings ==
  ASSUME FilesInv, NEW t \in Threads, pc[t] \in Listing
  PROVE  LET p == req[t].path
             export == req[t].via = "export"
         IN /\ p \in Paths /\ op[t] \in Ops /\ answer[t] \in AnAnswer /\ Placed(t) /\ Types /\ Rooted
            /\ answer[t].failed \/ Len(answer[t].body) <= answer[t].length
            /\ op[t].tr <= op[t].length
            /\ req[t].method # "PUT" /\ req[t].via \in {"export", "webdav"} /\ (export => IsGet(t))
            /\ ~export => req[t].method = "PROPFIND"
            /\ pc[t] # "readdir" => op[t].fds = {}
            /\ ~disturbed[t] => Lists(t) /\ Holds(p) = before[t]
<1>1. pc[t] \notin {"idle", "copy", "done"}
  BY DEF Listing
<1>2. /\ req[t].path \in Paths /\ IsRequest(req[t]) /\ op[t] \in Ops /\ answer[t] \in AnAnswer
      /\ Placed(t) /\ Sent(t) /\ Types /\ Rooted /\ (~disturbed[t] => Knows(t))
  BY <1>1, OnRequest
<1>3. /\ req[t].method # "PUT" /\ req[t].via \in {"export", "webdav"} /\ (req[t].via = "export" => IsGet(t))
      /\ req[t].via # "export" => req[t].method = "PROPFIND"
  BY <1>2 DEF Placed, IsRequest, IsGet
<1>4. pc[t] # "readdir" => op[t].fds = {}
  BY <1>2 DEF Placed, Listing, Sending
<1> QED
  BY <1>1, <1>2, <1>3, <1>4 DEF Sent, Knows

\* What is to be listed is what the directory has now.
LEMMA OpendirInv ==
  ASSUME FilesInv, NEW t \in Threads, Opendir(t)
  PROVE  FilesInv'
<1> DEFINE p == req[t].path
           export == req[t].via = "export"
           o == [op[t] EXCEPT !.pending = Children(p), !.fds = {"dir"}]
           a == IF export THEN Code(200) ELSE answer[t]
<1>1. pc[t] = "opendir" /\ Keep
  BY DEF Opendir
<1>2. /\ p \in Paths /\ op[t] \in Ops /\ answer[t] \in AnAnswer /\ Placed(t) /\ Types
      /\ answer[t].failed \/ Len(answer[t].body) <= answer[t].length
      /\ req[t].method # "PUT" /\ req[t].via \in {"export", "webdav"} /\ (export => IsGet(t))
      /\ op[t].fds = {}
      /\ ~disturbed[t] => Lists(t) /\ Holds(p) = before[t]
  BY <1>1, Listings DEF Listing
<1>3. ~disturbed[t] =>
        /\ export => before[t] # Missing /\ before[t].dir
        /\ ~export => \/ answer[t].code = 404 /\ ~There(p)
                      \/ answer[t].code = 207 /\ answer[t].listed = LinesOf(t, {p}) /\ req[t].depth > 0
  BY <1>1, <1>2 DEF Lists
<1>4. CASE IsDir(p)
  <2>1. op' = [op EXCEPT ![t] = o] /\ answer' = [answer EXCEPT ![t] = a] /\ Goes(t, "readdir")
    BY <1>2, <1>4 DEF Opendir, Types
  <2>2. /\ o \in Ops /\ o.pending = Children(p) /\ o.fds = {"dir"} /\ o.tr = op[t].tr
        /\ o.length = op[t].length
        /\ o.dest = op[t].dest
    <3>1. Children(p) \in SUBSET Paths
      BY DEF Children
    <3> QED
      BY <1>2, <3>1 DEF Ops
  <2>3. a \in AnAnswer /\ (a.failed \/ Len(a.body) <= a.length)
    <3>1. Code(200) \in AnAnswer /\ Code(200).body = <<>> /\ Code(200).length = 0
      BY CodeIsAnswer DEF Code, NoAnswer
    <3>2. Len(Code(200).body) <= Code(200).length
      BY <3>1
    <3> QED
      BY <1>2, <3>1, <3>2
  <2>4. ~disturbed[t] => /\ a.listed = LinesOf(t, Itself(t) \union (Children(p) \ o.pending))
                         /\ IF export THEN a.code = 200 ELSE a.code = 207 /\ req[t].depth > 0
    <3>1. Itself(t) \union (Children(p) \ o.pending) = Itself(t)
      BY <2>2
    <3>2. CASE export
      <4>1. a.listed = {} /\ a.code = 200 /\ Itself(t) = {}
        BY <3>2 DEF Code, NoAnswer, Itself
      <4>2. LinesOf(t, {}) = {}
        BY DEF LinesOf
      <4> QED
        BY <3>1, <3>2, <4>1, <4>2
    <3>3. CASE ~export
      <4>1. Itself(t) = {p} /\ There(p) /\ a = answer[t]
        BY <1>4, <3>3 DEF Itself, IsDir
      <4> QED
        BY <1>3, <3>1, <3>3, <4>1
    <3> QED
      BY <3>2, <3>3
  <2> HIDE DEF o, a
  <2>5. Quiet(t, "readdir", o, a)
    <3>1. "readdir" \in Places \ {"idle"}
      BY DEF Places, Listing
    <3> QED
      BY <1>1, <1>2, <2>1, <2>2, <2>3, <3>1 DEF Quiet, Goes, Keep
  <2>6. ~disturbed[t] => LinesKnown(t, "readdir", o, a)
    BY <1>4, <2>2, <2>4 DEF LinesKnown
  <2>7. "readdir" \in Listing /\ pc[t] \in {"PROPFIND"} \union Listing
    BY <1>1 DEF Listing
  <2> QED
    BY <2>2, <2>3, <2>5, <2>6, <2>7, ListingStep
<1>5. CASE ~IsDir(p) /\ export
  <2>1. UNCHANGED op /\ Answers(t, Code(404))
    BY <1>5 DEF Opendir
  <2>2. ~disturbed[t] => FALSE
    <3>1. There(p) => inodes[fs[p]].dir = FALSE
      BY <1>2, <1>5, FileBlocks DEF IsDir, Types, There, Inode
    <3> QED
      BY <1>2, <1>3, <1>5, <3>1 DEF Holds
  <2> QED
    BY <1>1, <1>2, <1>5, <2>1, <2>2, Refused DEF IsGet
<1>6. CASE ~IsDir(p) /\ ~export
  <2>1. op' = [op EXCEPT ![t] = op[t]] /\ answer' = [answer EXCEPT ![t] = answer[t]] /\ Goes(t, "listed")
    BY <1>2, <1>6 DEF Opendir, Types
  <2>2. Quiet(t, "listed", op[t], answer[t])
    <3>1. "listed" \in Places \ {"idle"}
      BY DEF Places, Listing
    <3> QED
      BY <1>1, <1>2, <2>1, <3>1 DEF Quiet, Goes, Keep
  <2>3. {p} \union (IF req[t].depth > 0 THEN Children(p) ELSE {}) = {p}
    BY <1>2, <1>6, NoChildren
  <2>4. "listed" \in Listing /\ pc[t] \in {"PROPFIND"} \union Listing /\ req[t].via # "export"
    BY <1>1, <1>6 DEF Listing
  <2>5. ~disturbed[t] =>
          \/ answer[t].code = 404
          \/ answer[t].code = 207 /\ answer[t].listed = LinesOf(t, {p} \union (IF req[t].depth > 0 THEN Children(p) ELSE {}))
    BY <1>3, <1>6, <2>3
  <2>6. op[t].fds = {} /\ (answer[t].failed \/ Len(answer[t].body) <= answer[t].length)
    BY <1>2
  <2>7. ~disturbed[t] => LinesKnown(t, "listed", op[t], answer[t])
    BY <2>4, <2>5 DEF LinesKnown
  <2> QED
    BY <2>2, <2>4, <2>6, <2>7, ListingStep
<1> QED
  BY <1>4, <1>5, <1>6

\* A name more is listed, or has gone.
LEMMA ReaddirInv ==
  ASSUME FilesInv, NEW t \in Threads, Readdir(t)
  PROVE  FilesInv'
<1> DEFINE p == req[t].path
           export == req[t].via = "export"
<1>1. pc[t] = "readdir" /\ Keep /\ Goes(t, "readdir")
  BY DEF Readdir
<1>2. /\ p \in Paths /\ op[t] \in Ops /\ answer[t] \in AnAnswer /\ Placed(t) /\ Types
      /\ answer[t].failed \/ Len(answer[t].body) <= answer[t].length
      /\ req[t].method # "PUT" /\ req[t].via \in {"export", "webdav"}
      /\ ~disturbed[t] => Lists(t)
  BY <1>1, Listings DEF Listing
<1>3. ~disturbed[t] =>
        /\ IsDir(p) /\ op[t].pending \subseteq Children(p)
        /\ answer[t].listed = LinesOf(t, Itself(t) \union (Children(p) \ op[t].pending))
        /\ IF export THEN answer[t].code = 200 ELSE answer[t].code = 207 /\ req[t].depth > 0
  BY <1>1, <1>2 DEF Lists
<1>4. PICK q \in op[t].pending :
        /\ op' = [op EXCEPT ![t].pending = @ \ {q}]
        /\ \/ There(q) /\ answer' = [answer EXCEPT ![t].listed = @ \union {Line(t, q, IsDir(q))}]
           \/ ~There(q) /\ req[t].via = "export" /\ \E d \in BOOLEAN : answer' = [answer EXCEPT ![t].listed = @ \union {Line(t, q, d)}]
           \/ ~There(q) /\ req[t].via = "webdav" /\ UNCHANGED answer
  BY DEF Readdir
<1> DEFINE o == [op[t] EXCEPT !.pending = op[t].pending \ {q}]
<1>5. q \in Paths /\ op' = [op EXCEPT ![t] = o]
  BY <1>2, <1>4 DEF Types, Ops
<1>6. /\ o \in Ops /\ o.pending = op[t].pending \ {q} /\ o.tr = op[t].tr /\ o.length = op[t].length
      /\ o.dest = op[t].dest
  BY <1>2 DEF Ops
<1> HIDE DEF o
<1>7. PICK lines \in SUBSET Lines :
        /\ answer' = [answer EXCEPT ![t] = [answer[t] EXCEPT !.listed = lines]]
        /\ There(q) => lines = answer[t].listed \union {Line(t, q, IsDir(q))}
  <2>1. answer[t].listed \in SUBSET Lines /\ answer[t] = [answer[t] EXCEPT !.listed = answer[t].listed]
    BY <1>2 DEF AnAnswer
  <2>2. CASE There(q)
    <3>1. answer' = [answer EXCEPT ![t] = [answer[t] EXCEPT !.listed = answer[t].listed \union {Line(t, q, IsDir(q))}]]
      BY <1>2, <1>4, <2>2 DEF Types
    <3>2. Line(t, q, IsDir(q)) \in Lines
      BY <1>5, LineIsLine, DirIsBoolean
    <3> QED
      BY <2>1, <3>1, <3>2
  <2>3. ASSUME ~There(q), NEW d \in BOOLEAN, answer' = [answer EXCEPT ![t].listed = @ \union {Line(t, q, d)}]
        PROVE  \E lines \in SUBSET Lines : answer' = [answer EXCEPT ![t] = [answer[t] EXCEPT !.listed = lines]]
    <3>1. answer' = [answer EXCEPT ![t] = [answer[t] EXCEPT !.listed = answer[t].listed \union {Line(t, q, d)}]]
      BY <1>2, <2>3 DEF Types
    <3>2. Line(t, q, d) \in Lines
      BY <1>5, LineIsLine
    <3> QED
      BY <2>1, <3>1, <3>2
  <2>4. CASE ~There(q) /\ UNCHANGED answer
    <3>1. answer' = [answer EXCEPT ![t] = answer[t]]
      BY <1>2, <2>4 DEF Types
    <3> QED
      BY <2>1, <2>4, <3>1
  <2> QED
    BY <1>4, <2>2, <2>3, <2>4
<1> DEFINE a == [answer[t] EXCEPT !.listed = lines]
<1>8. /\ a \in AnAnswer /\ a.listed = lines /\ a.code = answer[t].code /\ a.body = answer[t].body
      /\ a.length = answer[t].length /\ a.failed = answer[t].failed /\ answer' = [answer EXCEPT ![t] = a]
  BY <1>2, <1>7 DEF AnAnswer
<1> HIDE DEF a
<1>9. Quiet(t, "readdir", o, a)
  <2>1. "readdir" \in Places \ {"idle"}
    BY DEF Places, Listing
  <2> QED
    BY <1>1, <1>2, <1>5, <1>6, <1>8, <2>1 DEF Quiet, Goes, Keep
<1>10. ~disturbed[t] =>
         /\ IsDir(p) /\ o.pending \subseteq Children(p)
         /\ a.listed = LinesOf(t, Itself(t) \union (Children(p) \ o.pending))
         /\ IF export THEN a.code = 200 ELSE a.code = 207 /\ req[t].depth > 0
  <2> SUFFICES ASSUME ~disturbed[t]
               PROVE  a.listed = LinesOf(t, Itself(t) \union (Children(p) \ o.pending))
    BY <1>3, <1>6, <1>8
  <2>1. q \in Children(p) /\ There(q)
    BY <1>3, <1>4 DEF Children, There
  <2> DEFINE X == Itself(t) \union (Children(p) \ op[t].pending)
             Y == Itself(t) \union (Children(p) \ o.pending)
  <2>2. Y = X \union {q}
    BY <1>3, <1>4, <1>6, <2>1
  <2> HIDE DEF X, Y
  <2>3. LinesOf(t, Y) = LinesOf(t, X) \union {Line(t, q, IsDir(q))}
    BY <2>2 DEF LinesOf
  <2>4. a.listed = LinesOf(t, X) \union {Line(t, q, IsDir(q))}
    BY <1>3, <1>7, <1>8, <2>1 DEF X
  <2> QED
    BY <2>3, <2>4 DEF Y
<1>11. ~disturbed[t] => LinesKnown(t, "readdir", o, a)
  BY <1>10 DEF LinesKnown
<1>12. "readdir" \in Listing /\ pc[t] \in {"PROPFIND"} \union Listing
  BY <1>1 DEF Listing
<1> QED
  BY <1>2, <1>6, <1>8, <1>9, <1>11, <1>12, ListingStep

\* All of them are listed.
LEMMA ClosedirInv ==
  ASSUME FilesInv, NEW t \in Threads, Closedir(t)
  PROVE  FilesInv'
<1> DEFINE p == req[t].path
           export == req[t].via = "export"
           o == [op[t] EXCEPT !.fds = {}]
<1>1. pc[t] = "readdir" /\ op[t].pending = {} /\ Keep /\ Goes(t, "listed") /\ UNCHANGED answer
  BY DEF Closedir
<1>2. /\ op[t] \in Ops /\ answer[t] \in AnAnswer /\ Types
      /\ answer[t].failed \/ Len(answer[t].body) <= answer[t].length
      /\ req[t].method # "PUT" /\ req[t].via \in {"export", "webdav"}
      /\ ~disturbed[t] => Lists(t)
  BY <1>1, Listings DEF Listing
<1>3. op' = [op EXCEPT ![t] = o] /\ answer' = [answer EXCEPT ![t] = answer[t]]
  BY <1>1, <1>2 DEF Closedir, Types
<1>4. o \in Ops /\ o.fds = {} /\ o.tr = op[t].tr /\ o.length = op[t].length /\ o.dest = op[t].dest
  BY <1>2 DEF Ops
<1> HIDE DEF o
<1>5. Quiet(t, "listed", o, answer[t])
  <2>1. "listed" \in Places \ {"idle"}
    BY DEF Places, Listing
  <2> QED
    BY <1>1, <1>2, <1>3, <1>4, <2>1 DEF Quiet, Goes, Keep
<1>6. ~disturbed[t] =>
        \/ export /\ IsDir(p) /\ answer[t].code = 200 /\ answer[t].listed = LinesOf(t, Children(p))
        \/ /\ ~export /\ answer[t].code = 207
           /\ answer[t].listed = LinesOf(t, {p} \union (IF req[t].depth > 0 THEN Children(p) ELSE {}))
  <2> SUFFICES ASSUME ~disturbed[t]
               PROVE  \/ export /\ IsDir(p) /\ answer[t].code = 200 /\ answer[t].listed = LinesOf(t, Children(p))
                      \/ /\ ~export /\ answer[t].code = 207
                         /\ answer[t].listed = LinesOf(t, {p} \union (IF req[t].depth > 0 THEN Children(p) ELSE {}))
    OBVIOUS
  <2>1. /\ IsDir(p) /\ answer[t].listed = LinesOf(t, Itself(t) \union (Children(p) \ op[t].pending))
        /\ IF export THEN answer[t].code = 200 ELSE answer[t].code = 207 /\ req[t].depth > 0
    BY <1>1, <1>2 DEF Lists
  <2>2. Children(p) \ op[t].pending = Children(p)
    BY <1>1
  <2>3. CASE export
    <3>1. Itself(t) \union (Children(p) \ op[t].pending) = Children(p)
      BY <2>2, <2>3 DEF Itself
    <3> QED
      BY <2>1, <2>3, <3>1
  <2>4. CASE ~export
    <3>1. Itself(t) \union (Children(p) \ op[t].pending) = {p} \union (IF req[t].depth > 0 THEN Children(p) ELSE {})
      BY <2>1, <2>2, <2>4 DEF Itself
    <3> QED
      BY <2>1, <2>4, <3>1
  <2> QED
    BY <2>3, <2>4
<1>7. "listed" \in Listing /\ pc[t] \in {"PROPFIND"} \union Listing
  BY <1>1 DEF Listing
<1>8. ~disturbed[t] => LinesKnown(t, "listed", o, answer[t])
  BY <1>6 DEF LinesKnown
<1> QED
  BY <1>2, <1>4, <1>5, <1>7, <1>8, ListingStep

\* The listing is over: its lines are those of the path and of what is in it.
LEMMA ListedInv ==
  ASSUME FilesInv, NEW t \in Threads, Listed(t)
  PROVE  FilesInv'
<1> DEFINE p == req[t].path
           export == req[t].via = "export"
           a == answer[t]
<1>1. pc[t] = "listed" /\ Keep /\ Goes(t, "done") /\ UNCHANGED op /\ answer' = [answer EXCEPT ![t] = a]
  BY DEF Listed, Answers
<1>2. /\ p \in Paths /\ op[t] \in Ops /\ a \in AnAnswer /\ Placed(t) /\ Types
      /\ a.failed \/ Len(a.body) <= a.length
      /\ op[t].tr <= op[t].length
      /\ req[t].method # "PUT" /\ req[t].via \in {"export", "webdav"} /\ (export => IsGet(t))
      /\ ~export => req[t].method = "PROPFIND"
      /\ op[t].fds = {}
      /\ ~disturbed[t] => Lists(t) /\ Holds(p) = before[t]
  BY <1>1, Listings DEF Listing
<1>3. Quiet(t, "done", op[t], a)
  <2>1. "done" \in Places \ {"idle"} /\ op' = [op EXCEPT ![t] = op[t]]
    BY <1>1, <1>2 DEF Places, Types
  <2> QED
    BY <1>1, <1>2, <2>1 DEF Quiet, Goes, Keep
<1>4. /\ \A q : There(q)' = There(q) /\ IsDir(q)' = IsDir(q)
                /\ Holds(q)' = Holds(q) /\ Children(q)' = Children(q)
      /\ pc'[t] = "done" /\ op'[t] = op[t] /\ answer'[t] = a /\ req'[t] = req[t]
      /\ before'[t] = before[t] /\ IsGet(t)' = IsGet(t) /\ File(t)' = File(t)
      /\ Page(t)' = (a.listed = {[path |-> q, dir |-> IsDir(q)] : q \in Children(p)})
  BY <1>3, QuietSame
<1>5. Placed(t)'
  BY <1>1, <1>2, <1>4 DEF Placed, Sending, Listing, Calls
<1>6. Sent(t)'
  BY <1>2, <1>4 DEF Sent
<1>7. ASSUME ~disturbed[t], export PROVE Knows(t)'
  <2>1. IsDir(p) /\ a.code = 200 /\ a.listed = LinesOf(t, Children(p)) /\ Holds(p) = before[t]
    BY <1>1, <1>2, <1>7 DEF Lists
  <2>2. Page(t)'
    <3>1. LinesOf(t, Children(p)) = {[path |-> q, dir |-> IsDir(q)] : q \in Children(p)}
      BY <1>7 DEF LinesOf, Line
    <3> QED
      BY <1>4, <2>1, <3>1
  <2>3. before[t].dir /\ before[t] # Missing
    <3>1. fs[p] \in DOMAIN inodes /\ before[t] = inodes[fs[p]]
      BY <1>2, <2>1 DEF IsDir, Holds, There, Types
    <3>2. before[t] \in Inode
      BY <3>1, FileBlocks
    <3> QED
      BY <2>1, <3>1, <3>2, FilesAssumption DEF IsDir
  <2>4. Finds(t)'
    BY <1>4, <1>7, <2>1, <2>3 DEF Finds, File
  <2>5. Effect(t)'
    BY <1>2, <1>4, <1>7, <2>1, <2>2 DEF Effect, IsGet
  <2> QED
    BY <1>4, <2>4, <2>5 DEF Knows, Reads, Lists, Copies
<1>8. ASSUME ~disturbed[t], ~export PROVE Knows(t)'
  <2> DEFINE S == {p} \union (IF req[t].depth > 0 THEN Children(p) ELSE {})
  <2>1. /\ req[t].method = "PROPFIND" /\ Holds(p) = before[t]
        /\ a.code = 404 \/ (a.code = 207 /\ a.listed = LinesOf(t, S))
    BY <1>1, <1>2, <1>8 DEF Lists
  <2>2. a.code = 207 => Multistatus(t)'
    <3> SUFFICES ASSUME a.code = 207 PROVE Multistatus(t)'
      OBVIOUS
    <3>1. S \subseteq Paths
      BY <1>2 DEF Children
    <3>2. /\ {<<l.path, l.dir>> : l \in LinesOf(t, S)} = {<<q, IsDir(q)>> : q \in S}
          /\ \A l \in LinesOf(t, S) :
               /\ l.found \intersect l.missing = {}
               /\ l.found \union l.missing = Asked(req[t]) \ (IF l.dir THEN {"executable"} ELSE {})
      BY <1>8, <3>1, LinesAreRight
    <3>3. a.listed = LinesOf(t, S)
      BY <2>1
    <3>4. Multistatus(t)
      <4>1. {<<l.path, l.dir>> : l \in a.listed} = {<<q, IsDir(q)>> : q \in S}
        BY <3>2, <3>3
      <4>2. \A l \in a.listed :
              /\ l.found \intersect l.missing = {}
              /\ l.found \union l.missing = Asked(req[t]) \ (IF l.dir THEN {"executable"} ELSE {})
        BY <3>2, <3>3
      <4> QED
        BY <4>1, <4>2 DEF Multistatus
    <3>5. {<<q, IsDir(q)>> : q \in {p} \union (IF req[t].depth > 0 THEN Children(p) ELSE {})}'
          = {<<q, IsDir(q)>> : q \in {p} \union (IF req[t].depth > 0 THEN Children(p) ELSE {})}
      BY <1>4
    <3> QED
      BY <1>4, <3>4, <3>5 DEF Multistatus
  <2>3. Finds(t)'
    BY <1>4, <2>1 DEF Finds, IsGet
  <2>4. Effect(t)'
    BY <1>4, <2>1, <2>2 DEF Effect
  <2> QED
    BY <1>4, <2>3, <2>4 DEF Knows, Reads, Lists, Copies
<1> QED
  BY <1>3, <1>5, <1>6, <1>7, <1>8, QuietStep

\* onion_webdav_move answers, and moves nothing.
LEMMA MoveInv ==
  ASSUME FilesInv, NEW t \in Threads, Move(t)
  PROVE  FilesInv'
<1>1. pc[t] = "MOVE" /\ UNCHANGED op /\ Keep
  BY DEF Move
<1>2. req[t].method = "MOVE"
  BY <1>1, OnRequest DEF Placed, Calls
<1>3. PICK c \in Nat : Answers(t, Code(c))
  <2>1. CASE req[t].dest = Missing
    BY <2>1 DEF Move
  <2>2. CASE req[t].dest # Missing /\ req[t].dest = "outside"
    BY <2>2 DEF Move
  <2>3. CASE req[t].dest # Missing /\ req[t].dest # "outside"
    BY <2>3 DEF Move
  <2> QED
    BY <2>1, <2>2, <2>3
<1> QED
  BY <1>1, <1>2, <1>3, Refused DEF Calls, IsGet

\* onion_webdav_proppatch: what is there is to have the mode asked for.
LEMMA PatchStatInv ==
  ASSUME FilesInv, NEW t \in Threads, PatchStat(t)
  PROVE  FilesInv'
<1> DEFINE o == [op[t] EXCEPT !.mode = req[t].executable]
<1>1. pc[t] = "PROPPATCH" /\ Keep
  BY DEF PatchStat
<1>2. /\ IsRequest(req[t]) /\ op[t] \in Ops /\ answer[t] \in AnAnswer /\ Placed(t) /\ Sent(t) /\ Types
      /\ ~disturbed[t] => Knows(t)
  BY <1>1, OnRequest
<1>3. /\ req[t].method = "PROPPATCH" /\ req[t].executable \in BOOLEAN \union {Missing}
      /\ answer[t] = NoAnswer /\ op[t].fds = {}
  BY <1>1, <1>2 DEF Placed, Calls, IsRequest, Sending
<1>4. CASE req[t].executable = Missing
  <2>1. Answers(t, Code(500)) /\ UNCHANGED op
    BY <1>4 DEF PatchStat
  <2> QED
    BY <1>1, <1>3, <2>1, Refused DEF Calls, IsGet
<1>5. CASE req[t].executable # Missing
  <2>1. op' = [op EXCEPT ![t] = o] /\ answer' = [answer EXCEPT ![t] = answer[t]] /\ Goes(t, "chmod")
    BY <1>2, <1>5 DEF PatchStat, Types
  <2>2. /\ o \in Ops /\ o.mode = req[t].executable /\ o.fds = {} /\ o.tr = op[t].tr /\ o.length = op[t].length
        /\ o.dest = op[t].dest
    BY <1>2, <1>3 DEF Ops
  <2> HIDE DEF o
  <2>3. Quiet(t, "chmod", o, answer[t])
    BY <1>1, <1>2, <1>3, <2>1, <2>2 DEF Quiet, Goes, Keep, Places
  <2>4. /\ Holds(req[t].path)' = Holds(req[t].path)
        /\ pc'[t] = "chmod" /\ op'[t] = o /\ answer'[t] = answer[t] /\ req'[t] = req[t]
        /\ before'[t] = before[t]
    BY <2>3, QuietSame
  <2>5. Placed(t)'
    BY <1>1, <1>2, <1>3, <1>5, <2>2, <2>4 DEF Placed, Sending, Listing, Calls
  <2>6. Sent(t)'
    BY <1>2, <2>2, <2>4 DEF Sent
  <2>7. ASSUME ~disturbed[t] PROVE Knows(t)'
    <3>1. Holds(req[t].path) = before[t]
      BY <1>1, <1>2, <2>7 DEF Knows
    <3> QED
      BY <2>4, <3>1 DEF Knows, Reads, Lists, Copies, Finds
  <2> QED
    BY <2>3, <2>5, <2>6, <2>7, QuietStep
<1> QED
  BY <1>4, <1>5

\* A step that changes the tree at its path, and tells the others
Alters(t, next, o, a) ==
  LET p == req[t].path
  IN /\ pc[t] \notin {"idle", "done"} /\ next \in Places \ {"idle"} /\ o \in Ops /\ a \in AnAnswer
     /\ pc' = [pc EXCEPT ![t] = next] /\ op' = [op EXCEPT ![t] = o] /\ answer' = [answer EXCEPT ![t] = a]
     /\ UNCHANGED <<req, left, before, otherDevice>> /\ Touches(t, p)
     /\ shortened' \in BOOLEAN /\ (shortened => shortened')
     /\ inodes' \in Seq(Inode) /\ (\A i \in DOMAIN inodes' : Len(inodes'[i].blocks) < W)
     /\ DOMAIN inodes \subseteq DOMAIN inodes' /\ \A i \in DOMAIN inodes : inodes'[i].dir = inodes[i].dir
     /\ \A i \in DOMAIN inodes : inodes'[i] = inodes[i] \/ \A q \in Paths : fs[q] = i => q = p
     /\ \A u \in Threads \ {t} :
          req[u].method = "PUT" => inodes'[op[u].file].blocks = inodes[op[u].file].blocks
     /\ fs' \in [Paths -> DOMAIN inodes' \union {Missing}] /\ \A q \in Paths : q # p => fs'[q] = fs[q]

\* What such a step leaves alone, and that it tells nothing to its own request
LEMMA AltersSame ==
  ASSUME FilesInv, NEW t \in Threads, NEW next, NEW o, NEW a, Alters(t, next, o, a)
  PROVE  /\ pc'[t] = next /\ op'[t] = o /\ answer'[t] = a /\ req'[t] = req[t] /\ before'[t] = before[t]
         /\ \A u \in Threads \ {t} : op'[u] = op[u]
         /\ req' = req /\ otherDevice' = otherDevice
         /\ disturbed' \in [Threads -> BOOLEAN] /\ (disturbed'[t] => disturbed[t]) /\ (disturbed[t] => disturbed'[t])
<1>1. disturbed' \in [Threads -> BOOLEAN] /\ (disturbed'[t] => disturbed[t]) /\ (disturbed[t] => disturbed'[t])
  <2>1. /\ disturbed' = [u \in Threads |->
           disturbed[u] \/ (u # t /\ pc[u] # "idle" /\
             (IsPrefix(req[t].path, req[u].path) \/ IsPrefix(req[u].path, req[t].path)))]
        /\ disturbed \in [Threads -> BOOLEAN]
    BY DEF Alters, Touches, FilesInv, Types
  <2> QED
    BY <2>1
<1> QED
  BY <1>1 DEF Alters, FilesInv, Types

\* Then only its own path, and what is known of it, have to be looked at.
LEMMA AlterStep ==
  ASSUME FilesInv, NEW t \in Threads, NEW next, NEW o, NEW a, Alters(t, next, o, a),
         Fresh(t), Rooted', Uploaded(t)', Targeted(t)', Placed(t)', Sent(t)',
         ~disturbed[t] => Knows(t)'
  PROVE  FilesInv'
<1>1. /\ pc'[t] = next /\ op'[t] = o /\ answer'[t] = a /\ req'[t] = req[t] /\ before'[t] = before[t]
      /\ disturbed' \in [Threads -> BOOLEAN] /\ (disturbed[t] => disturbed'[t])
  BY AltersSame
<1>2. Types'
  BY <1>1 DEF Alters, FilesInv, Types
<1>3. Apart(t)
  <2>1. req' = req /\ before' = before
    BY DEF Alters
  <2>2. req' = [req EXCEPT ![t] = req'[t]] /\ before' = [before EXCEPT ![t] = before'[t]]
    BY <2>1 DEF FilesInv, Types
  <2> QED
    BY <1>1, <2>2 DEF Alters, Apart
<1> QED
  BY <1>1, <1>2, <1>3, StepInv

\* The tree stays one when a name goes, or comes where its directory is.
LEMMA RootedKept ==
  ASSUME FilesInv, NEW p \in Paths,
         DOMAIN inodes \subseteq DOMAIN inodes', \A i \in DOMAIN inodes : inodes'[i].dir = inodes[i].dir,
         \A q \in Paths : q # p => fs'[q] = fs[q],
         \/ fs'[p] = fs[p]
         \/ fs'[p] = Missing /\ Children(p) = {}
         \/ ~IsDir(p) /\ IsDir(Parent(p)) /\ \A q \in Paths : fs[q] # fs'[p]
  PROVE  Rooted'
<1>1. Types /\ Rooted
  BY DEF FilesInv
<1>2. \A q \in Paths : fs'[q] = fs[q] => There(q)' = There(q) /\ IsDir(q)' = IsDir(q)
  BY <1>1 DEF There, IsDir, Types
<1>3. \A q, s \in Paths : There(q)' /\ fs'[q] = fs'[s] => q = s
  BY <1>1 DEF Rooted, There
<1>4. ASSUME NEW q \in Paths, There(q)', q # <<>> PROVE IsDir(Parent(q))'
  <2>1. Parent(q) \in Paths
    BY <1>4, FilesAssumption DEF Parent
  <2>2. CASE fs'[q] = fs[q]
    <3>1. There(q) /\ IsDir(Parent(q))
      BY <1>1, <1>2, <1>4, <2>2 DEF Rooted
    <3>2. CASE fs'[Parent(q)] = fs[Parent(q)]
      BY <1>2, <2>1, <3>1, <3>2
    <3>3. CASE fs'[Parent(q)] # fs[Parent(q)]
      <4>1. Parent(q) = p /\ q \in Children(p)
        BY <1>4, <2>1, <3>1, <3>3 DEF Children, There
      <4>2. ~IsDir(p)
        BY <3>3, <4>1
      <4> QED
        BY <3>1, <4>1, <4>2
    <3> QED
      BY <3>2, <3>3
  <2>3. CASE fs'[q] # fs[q]
    <3>1. q = p /\ IsDir(Parent(p)) /\ ~IsDir(p)
      BY <1>4, <2>3 DEF There
    <3>2. Parent(p) # p
      BY <3>1
    <3> QED
      BY <1>2, <2>1, <3>1, <3>2
  <2> QED
    BY <2>2, <2>3
<1> QED
  BY <1>3, <1>4 DEF Rooted

\* onion_webdav_delete: the name is gone.
LEMMA DeleteInv ==
  ASSUME FilesInv, NEW t \in Threads, Delete(t)
  PROVE  FilesInv'
<1> DEFINE p == req[t].path
<1>1. pc[t] = "DELETE" /\ UNCHANGED op
  BY DEF Delete
<1>2. /\ p \in Paths /\ IsRequest(req[t]) /\ op[t] \in Ops /\ answer[t] \in AnAnswer
      /\ Placed(t) /\ Sent(t) /\ Targeted(t) /\ Types /\ (~disturbed[t] => Knows(t))
  BY <1>1, OnRequest
<1>3. req[t].method = "DELETE" /\ op' = [op EXCEPT ![t] = op[t]] /\ op[t].fds = {}
  BY <1>1, <1>2 DEF Placed, Calls, Types, Sending
<1>4. CASE ~(There(p) /\ Children(p) = {})
  <2>1. Keep /\ Answers(t, Code(500))
    BY <1>4 DEF Delete
  <2> QED
    BY <1>1, <1>3, <2>1, Refused DEF Calls, IsGet
<1>5. CASE There(p) /\ Children(p) = {}
  <2>1. fs' = [fs EXCEPT ![p] = Missing] /\ Touches(t, p) /\ UNCHANGED <<inodes, shortened>> /\ Answers(t, Code(200))
    BY <1>5 DEF Delete, Changes
  <2>2. Alters(t, "done", op[t], Code(200))
    <3>1. Code(200) \in AnAnswer /\ "done" \in Places \ {"idle"}
      BY CodeIsAnswer DEF Places
    <3> QED
      BY <1>1, <1>2, <1>3, <2>1, <3>1 DEF Alters, Answers, Goes, Types
  <2>3. /\ pc'[t] = "done" /\ op'[t] = op[t] /\ answer'[t] = Code(200) /\ req'[t] = req[t]
        /\ before'[t] = before[t]
        /\ fs'[p] = Missing
    BY <1>2, <2>1, <2>2, AltersSame DEF Types
  <2>4. Fresh(t)
    BY <1>3, <2>3 DEF Fresh
  <2>5. Rooted'
    BY <1>2, <1>5, <2>1, <2>3, RootedKept DEF Types
  <2>6. Uploaded(t)'
    BY <1>3, <2>3 DEF Uploaded
  <2>7. Targeted(t)'
    BY <1>2, <2>1, <2>3, FilesAssumption DEF Targeted, Types
  <2>8. Placed(t)'
    BY <1>1, <1>2, <1>3, <2>3 DEF Placed, Sending, Listing, Calls
  <2>9. Sent(t)'
    BY <1>2, <1>3, <2>3 DEF Sent, Code, NoAnswer
  <2>10. ASSUME ~disturbed[t] PROVE Knows(t)'
    <3>1. before[t] # Missing
      <4>1. before[t] = inodes[fs[p]] /\ fs[p] \in DOMAIN inodes
        BY <1>1, <1>2, <1>5, <2>10 DEF Knows, Holds, There, Types
      <4> QED
        BY <4>1, FileBlocks, FilesAssumption
    <3>2. ~There(p)' /\ Code(200).code = 200
      BY <2>3 DEF There, Code, NoAnswer
    <3>3. Effect(t)'
      BY <1>3, <2>3, <3>1, <3>2 DEF Effect
    <3> QED
      BY <1>3, <2>3, <3>3 DEF Knows, Reads, Lists, Copies, Finds, IsGet
  <2> QED
    BY <2>2, <2>4, <2>5, <2>6, <2>7, <2>8, <2>9, <2>10, AlterStep
<1> QED
  BY <1>4, <1>5

\* A new file or directory, at the end of all
LEMMA NewInode ==
  ASSUME FilesInv, NEW ino \in Inode, Len(ino.blocks) < W
  PROVE  LET all == Append(inodes, ino)
             new == Len(inodes) + 1
         IN /\ all \in Seq(Inode) /\ (\A i \in DOMAIN all : Len(all[i].blocks) < W)
            /\ DOMAIN inodes \subseteq DOMAIN all /\ (\A i \in DOMAIN inodes : all[i] = inodes[i])
            /\ new \in DOMAIN all /\ all[new] = ino /\ new \in Nat /\ new # Missing
            /\ \A q \in Paths : fs[q] # new
<1> DEFINE all == Append(inodes, ino)
           new == Len(inodes) + 1
<1>1. Types
  BY DEF FilesInv
<1>2. all \in Seq(Inode) /\ DOMAIN all = 1..new /\ DOMAIN inodes = 1..Len(inodes) /\ Len(inodes) \in Nat
  BY <1>1 DEF Types
<1>3. \A i \in DOMAIN inodes : all[i] = inodes[i]
  BY <1>1 DEF Types
<1>4. all[new] = ino
  BY <1>1 DEF Types
<1> HIDE DEF all
<1>5. new \in Nat /\ new # Missing /\ new \notin DOMAIN inodes /\ new \in DOMAIN all
      /\ DOMAIN inodes \subseteq DOMAIN all /\ \A i \in DOMAIN all : i = new \/ i \in DOMAIN inodes
  BY <1>2, FilesAssumption
<1> HIDE DEF new
<1>6. \A q \in Paths : fs[q] # new
  BY <1>1, <1>5 DEF Types
<1>7. \A i \in DOMAIN all : Len(all[i].blocks) < W
  BY <1>1, <1>3, <1>4, <1>5 DEF Types
<1> QED
  BY <1>2, <1>3, <1>4, <1>5, <1>6, <1>7 DEF all, new

\* Nothing is in a new file.
LEMMA EmptyInode ==
  ASSUME NEW d \in BOOLEAN, NEW e \in BOOLEAN
  PROVE  LET ino == [dir |-> d, exec |-> e, blocks |-> <<>>]
         IN ino \in Inode /\ Len(ino.blocks) < W /\ ino.dir = d /\ ino.blocks = <<>>
<1>1. <<>> \in Seq(Block) /\ Len(<<>>) = 0
  OBVIOUS
<1>2. 0 < W
  BY DEF W
<1> QED
  BY <1>1, <1>2 DEF Inode

\* onion_webdav_mkcol: there is a directory where nothing was.
LEMMA MkcolInv ==
  ASSUME FilesInv, NEW t \in Threads, Mkcol(t)
  PROVE  FilesInv'
<1> DEFINE p == req[t].path
           ino == [dir |-> TRUE, exec |-> TRUE, blocks |-> <<>>]
           new == Len(inodes) + 1
<1>1. pc[t] = "MKCOL" /\ UNCHANGED op
  BY DEF Mkcol
<1>2. /\ p \in Paths /\ IsRequest(req[t]) /\ op[t] \in Ops /\ answer[t] \in AnAnswer
      /\ Placed(t) /\ Sent(t) /\ Targeted(t) /\ Types /\ (~disturbed[t] => Knows(t))
  BY <1>1, OnRequest
<1>3. req[t].method = "MKCOL" /\ op' = [op EXCEPT ![t] = op[t]] /\ op[t].fds = {}
  BY <1>1, <1>2 DEF Placed, Calls, Types, Sending
<1>4. CASE ~(~There(p) /\ IsDir(Parent(p)))
  <2>1. Keep /\ Answers(t, Code(403))
    BY <1>4 DEF Mkcol
  <2> QED
    BY <1>1, <1>3, <2>1, Refused DEF Calls, IsGet
<1>5. CASE ~There(p) /\ IsDir(Parent(p))
  <2>1. /\ inodes' = Append(inodes, ino) /\ fs' = [fs EXCEPT ![p] = new] /\ Touches(t, p)
        /\ UNCHANGED shortened
        /\ Answers(t, Code(201))
    BY <1>5 DEF Mkcol
  <2>2. /\ inodes' \in Seq(Inode) /\ (\A i \in DOMAIN inodes' : Len(inodes'[i].blocks) < W)
        /\ DOMAIN inodes \subseteq DOMAIN inodes' /\ (\A i \in DOMAIN inodes : inodes'[i] = inodes[i])
        /\ new \in DOMAIN inodes' /\ inodes'[new].dir = TRUE /\ new # Missing
        /\ \A q \in Paths : fs[q] # new
    BY <2>1, NewInode, EmptyInode
  <2> HIDE DEF new
  <2>3. Alters(t, "done", op[t], Code(201))
    <3>1. Code(201) \in AnAnswer /\ "done" \in Places \ {"idle"}
      BY CodeIsAnswer DEF Places
    <3>2. \A u \in Threads : req[u].method = "PUT" => op[u].file \in DOMAIN inodes
      BY DEF FilesInv, Uploaded
    <3>3. fs' \in [Paths -> DOMAIN inodes' \union {Missing}] /\ \A q \in Paths : q # p => fs'[q] = fs[q]
      BY <1>2, <2>1, <2>2 DEF Types
    <3> QED
      BY <1>1, <1>2, <1>3, <2>1, <2>2, <3>1, <3>2, <3>3 DEF Alters, Answers, Goes, Types
  <2>4. /\ pc'[t] = "done" /\ op'[t] = op[t] /\ answer'[t] = Code(201) /\ req'[t] = req[t]
        /\ before'[t] = before[t]
        /\ fs'[p] = new
    BY <1>2, <2>1, <2>3, AltersSame DEF Types
  <2>5. Fresh(t)
    BY <1>3, <2>4 DEF Fresh, new
  <2>6. Rooted'
    <3>1. \A q \in Paths : q # p => fs'[q] = fs[q]
      BY <2>3 DEF Alters
    <3>2. ~IsDir(p)
      BY <1>5 DEF IsDir
    <3> QED
      BY <1>2, <1>5, <2>2, <2>4, <3>1, <3>2, RootedKept
  <2>7. Uploaded(t)'
    BY <1>3, <2>4 DEF Uploaded
  <2>8. Targeted(t)'
    <3>1. op[t].dest # Missing => op[t].dest # new
      BY <1>2 DEF Targeted, Types, new
    <3>2. \A q \in Paths : q # p => fs'[q] = fs[q]
      BY <2>3 DEF Alters
    <3> QED
      BY <1>2, <2>2, <2>4, <3>1, <3>2 DEF Targeted
  <2>9. Placed(t)'
    BY <1>1, <1>2, <1>3, <2>4 DEF Placed, Sending, Listing, Calls
  <2>10. Sent(t)'
    BY <1>2, <1>3, <2>4 DEF Sent, Code, NoAnswer
  <2>11. ASSUME ~disturbed[t] PROVE Knows(t)'
    <3>1. before[t] = Missing
      BY <1>1, <1>2, <1>5, <2>11 DEF Knows, Holds
    <3>2. IsDir(p)' /\ Code(201).code = 201
      BY <2>2, <2>4 DEF IsDir, There, Code, NoAnswer
    <3>3. Effect(t)'
      BY <1>3, <2>4, <3>1, <3>2 DEF Effect
    <3> QED
      BY <1>3, <2>4, <3>3 DEF Knows, Reads, Lists, Copies, Finds, IsGet
  <2> QED
    BY <2>3, <2>5, <2>6, <2>7, <2>8, <2>9, <2>10, <2>11, AlterStep
<1> QED
  BY <1>4, <1>5

\* One inode changes, and stays what it is.
LEMMA ChangedInode ==
  ASSUME FilesInv, NEW i \in DOMAIN inodes, NEW ino \in Inode, Len(ino.blocks) < W, ino.dir = inodes[i].dir
  PROVE  LET all == [inodes EXCEPT ![i] = ino]
         IN /\ all \in Seq(Inode) /\ (\A j \in DOMAIN all : Len(all[j].blocks) < W)
            /\ DOMAIN inodes = DOMAIN all /\ (\A j \in DOMAIN inodes : all[j].dir = inodes[j].dir)
            /\ all[i] = ino /\ \A j \in DOMAIN inodes : j # i => all[j] = inodes[j]
<1> DEFINE all == [inodes EXCEPT ![i] = ino]
<1>1. Types
  BY DEF FilesInv
<1>2. all \in Seq(Inode) /\ DOMAIN inodes = DOMAIN all
  BY <1>1 DEF Types
<1>3. all[i] = ino /\ \A j \in DOMAIN inodes : j # i => all[j] = inodes[j]
  BY <1>1 DEF Types
<1> HIDE DEF all
<1>4. \A j \in DOMAIN all : Len(all[j].blocks) < W
  BY <1>1, <1>2, <1>3 DEF Types
<1> QED
  BY <1>2, <1>3, <1>4 DEF all

\* The mode is what was asked for, and nothing else of the file is changed.
LEMMA PatchChmodInv ==
  ASSUME FilesInv, NEW t \in Threads, PatchChmod(t)
  PROVE  FilesInv'
<1> DEFINE p == req[t].path
           i == fs[p]
           ino == [inodes[i] EXCEPT !.exec = op[t].mode]
<1>1. pc[t] = "chmod" /\ UNCHANGED op /\ Answers(t, Code(200))
  BY DEF PatchChmod
<1>2. /\ p \in Paths /\ IsRequest(req[t]) /\ req[t] \in Requests /\ op[t] \in Ops /\ answer[t] \in AnAnswer
      /\ Placed(t) /\ Sent(t) /\ Targeted(t) /\ Types /\ Rooted /\ (~disturbed[t] => Knows(t))
  BY <1>1, OnRequest
<1>3. /\ req[t].method = "PROPPATCH" /\ op' = [op EXCEPT ![t] = op[t]] /\ op[t].fds = {}
      /\ op[t].mode \in BOOLEAN /\ op[t].mode = req[t].executable
  BY <1>1, <1>2 DEF Placed, Calls, Types, Sending
<1>4. Code(200) \in AnAnswer /\ "done" \in Places \ {"idle"} /\ Code(200).code = 200
  BY CodeIsAnswer DEF Places, Code, NoAnswer
<1>5. CASE ~There(p)
  <2>1. Keep
    BY <1>5 DEF PatchChmod
  <2>2. Quiet(t, "done", op[t], Code(200))
    BY <1>1, <1>2, <1>3, <1>4, <2>1 DEF Quiet, Answers, Goes, Keep
  <2>3. /\ There(p)' = There(p) /\ pc'[t] = "done" /\ op'[t] = op[t] /\ answer'[t] = Code(200)
        /\ req'[t] = req[t]
        /\ before'[t] = before[t]
    BY <2>2, QuietSame
  <2>4. Placed(t)'
    BY <1>1, <1>2, <1>3, <2>3 DEF Placed, Sending, Listing, Calls
  <2>5. Sent(t)'
    BY <1>2, <1>3, <2>3 DEF Sent, Code, NoAnswer
  <2>6. ASSUME ~disturbed[t] PROVE Knows(t)'
    <3>1. before[t] = Missing /\ Holds(p) = Missing
      BY <1>1, <1>2, <1>5, <2>6 DEF Knows, Holds
    <3>2. Holds(p)' = Holds(p)
      BY <2>2, QuietSame
    <3>3. Effect(t)'
      BY <1>3, <1>4, <2>3, <3>1, <3>2 DEF Effect
    <3> QED
      BY <1>3, <2>3, <3>3 DEF Knows, Reads, Lists, Copies, Finds, IsGet
  <2> QED
    BY <2>2, <2>4, <2>5, <2>6, QuietStep
<1>6. CASE There(p)
  <2>1. /\ inodes' = [inodes EXCEPT ![i].exec = op[t].mode] /\ Touches(t, p) /\ UNCHANGED <<fs, shortened>>
    BY <1>6 DEF PatchChmod
  <2>2. i \in DOMAIN inodes
    BY <1>2, <1>6 DEF There, Types
  <2>3. inodes' = [inodes EXCEPT ![i] = ino]
    BY <1>2, <2>1, <2>2 DEF Types
  <2>4. /\ ino \in Inode /\ ino.dir = inodes[i].dir /\ ino.blocks = inodes[i].blocks
        /\ Len(ino.blocks) < W
    <3>1. inodes[i] \in Inode /\ Len(inodes[i].blocks) \in 0..W-1
      BY <2>2, FileBlocks
    <3>2. ino \in Inode /\ ino.dir = inodes[i].dir /\ ino.blocks = inodes[i].blocks
      BY <1>3, <3>1 DEF Inode
    <3> QED
      BY <3>1, <3>2, WNat
  <2> HIDE DEF ino
  <2>5. /\ inodes' \in Seq(Inode) /\ (\A j \in DOMAIN inodes' : Len(inodes'[j].blocks) < W)
        /\ DOMAIN inodes = DOMAIN inodes' /\ (\A j \in DOMAIN inodes : inodes'[j].dir = inodes[j].dir)
        /\ inodes'[i] = ino /\ \A j \in DOMAIN inodes : j # i => inodes'[j] = inodes[j]
    BY <2>2, <2>3, <2>4, ChangedInode
  <2>6. Alters(t, "done", op[t], Code(200))
    <3>1. \A u \in Threads : req[u].method = "PUT" => op[u].file \in DOMAIN inodes
      BY DEF FilesInv, Uploaded
    <3>2. \A j \in DOMAIN inodes : inodes'[j] = inodes[j] \/ \A q \in Paths : fs[q] = j => q = p
      BY <1>2, <1>6, <2>5 DEF Rooted
    <3>3. \A j \in DOMAIN inodes : inodes'[j].blocks = inodes[j].blocks
      BY <2>4, <2>5
    <3> QED
      BY <1>1, <1>2, <1>3, <1>4, <2>1, <2>5, <3>1, <3>2, <3>3 DEF Alters, Answers, Goes, Types
  <2>7. /\ pc'[t] = "done" /\ op'[t] = op[t] /\ answer'[t] = Code(200) /\ req'[t] = req[t]
        /\ before'[t] = before[t]
    BY <2>6, AltersSame
  <2>8. Fresh(t)
    BY <1>3, <2>1, <2>7 DEF Fresh
  <2>9. Rooted'
    BY <1>2, <2>1, <2>5, RootedKept
  <2>10. Uploaded(t)'
    BY <1>3, <2>7 DEF Uploaded
  <2>11. Targeted(t)'
    BY <1>2, <2>1, <2>5, <2>7 DEF Targeted
  <2>12. Placed(t)'
    BY <1>1, <1>2, <1>3, <2>7 DEF Placed, Sending, Listing, Calls
  <2>13. Sent(t)'
    BY <1>2, <1>3, <2>7 DEF Sent, Code, NoAnswer
  <2>14. ASSUME ~disturbed[t] PROVE Knows(t)'
    <3>1. before[t] = inodes[i]
      BY <1>1, <1>2, <1>6, <2>14 DEF Knows, Holds
    <3>2. Holds(p)' = ino
      BY <1>6, <2>1, <2>5, <2>7 DEF Holds, There
    <3>3. Holds(p)' = [before[t] EXCEPT !.exec = req[t].executable]
      BY <1>3, <3>1, <3>2 DEF ino
    <3>4. before[t] # Missing /\ There(p)'
      BY <1>2, <1>6, <2>1, <2>2, <3>1, <2>7, FilesAssumption DEF There, Types
    <3>5. Effect(t)'
      BY <1>3, <1>4, <2>7, <3>3, <3>4 DEF Effect
    <3> QED
      BY <1>3, <2>7, <3>5 DEF Knows, Reads, Lists, Copies, Finds, IsGet
  <2> QED
    BY <2>6, <2>8, <2>9, <2>10, <2>11, <2>12, <2>13, <2>14, AlterStep
<1> QED
  BY <1>5, <1>6

\* onion_webdav_put: the upload takes the name, or is to be copied there.
LEMMA PutInv ==
  ASSUME FilesInv, NEW t \in Threads, Put(t)
  PROVE  FilesInv'
<1> DEFINE p == req[t].path
           renames == ~otherDevice /\ ~IsDir(p) /\ IsDir(Parent(p))
<1>1. pc[t] = "PUT" /\ UNCHANGED op
  BY DEF Put
<1>2. /\ p \in Paths /\ IsRequest(req[t]) /\ op[t] \in Ops /\ answer[t] \in AnAnswer
      /\ Placed(t) /\ Sent(t) /\ Uploaded(t) /\ Targeted(t) /\ Types /\ (~disturbed[t] => Knows(t))
  BY <1>1, OnRequest
<1>3. req[t].method = "PUT" /\ op' = [op EXCEPT ![t] = op[t]] /\ op[t].fds = {}
  BY <1>1, <1>2 DEF Placed, Calls, Types, Sending
<1>4. CASE renames
  <2>1. fs' = [fs EXCEPT ![p] = op[t].file] /\ Touches(t, p) /\ UNCHANGED <<inodes, shortened>> /\ Answers(t, Code(201))
    BY <1>4 DEF Put, Changes
  <2>2. /\ op[t].file \in DOMAIN inodes /\ ~inodes[op[t].file].dir
        /\ \A q \in Paths : fs[q] # op[t].file
        /\ \A u \in Threads : op[u].dest # op[t].file
        /\ \A u \in Threads \ {t} : req[u].method = "PUT" => op[u].file # op[t].file
    BY <1>1, <1>2, <1>3 DEF Uploaded
  <2>3. Alters(t, "done", op[t], Code(201))
    <3>1. Code(201) \in AnAnswer /\ "done" \in Places \ {"idle"}
      BY CodeIsAnswer DEF Places
    <3> QED
      BY <1>1, <1>2, <1>3, <2>1, <2>2, <3>1 DEF Alters, Answers, Goes, Types
  <2>4. /\ pc'[t] = "done" /\ op'[t] = op[t] /\ answer'[t] = Code(201) /\ req'[t] = req[t]
        /\ before'[t] = before[t]
        /\ fs'[p] = op[t].file /\ (\A q \in Paths : q # p => fs'[q] = fs[q]) /\ req' = req /\ op' = op
        /\ otherDevice' = otherDevice
    BY <1>1, <1>2, <2>1, <2>3, AltersSame DEF Types
  <2>5. Fresh(t)
    BY <1>3, <1>4, <2>4 DEF Fresh
  <2>6. Rooted'
    BY <1>2, <1>4, <2>1, <2>2, <2>4, RootedKept
  <2>7. Uploaded(t)'
    BY <1>4, <2>1, <2>2, <2>4 DEF Uploaded
  <2>8. Targeted(t)'
    BY <1>2, <2>1, <2>2, <2>4 DEF Targeted
  <2>9. Placed(t)'
    BY <1>1, <1>2, <1>3, <2>4 DEF Placed, Sending, Listing, Calls
  <2>10. Sent(t)'
    BY <1>3, <2>4 DEF Sent, Code, NoAnswer
  <2>11. Knows(t)'
    <3>1. There(p)' /\ Holds(p)'.blocks = inodes'[op[t].file].blocks
      BY <1>2, <2>2, <2>4, FilesAssumption DEF Holds, There, Types
    <3>2. Code(201).code = 201
      BY DEF Code, NoAnswer
    <3>3. Effect(t)'
      BY <1>3, <2>4, <3>1, <3>2 DEF Effect
    <3> QED
      BY <1>3, <2>4, <3>3 DEF Knows, Reads, Lists, Copies, Finds, IsGet
  <2> QED
    BY <2>3, <2>5, <2>6, <2>7, <2>8, <2>9, <2>10, <2>11, AlterStep
<1>5. CASE ~renames /\ otherDevice /\ IsDir(Parent(p))
  <2>1. Keep /\ Goes(t, "create") /\ UNCHANGED answer
    BY <1>5 DEF Put
  <2>2. Quiet(t, "create", op[t], answer[t])
    BY <1>1, <2>1, GoesQuiet DEF Places
  <2> QED
    BY <1>1, <1>3, <1>5, <2>2, GoesOn DEF Calls
<1>6. CASE ~renames /\ ~(otherDevice /\ IsDir(Parent(p)))
  <2>1. Keep /\ Answers(t, Code(403))
    BY <1>6 DEF Put
  <2> QED
    BY <1>1, <1>3, <2>1, Refused DEF Calls, IsGet
<1> QED
  BY <1>4, <1>5, <1>6

\* What is known of a copy just begun
LEMMA CopyBegins ==
  ASSUME FilesInv, NEW t \in Threads, pc[t] = "create", NEW d \in Nat, d \in DOMAIN inodes',
         LET p == req[t].path
             o == [op[t] EXCEPT !.dest = d, !.fds = {"orig", "dest"}]
         IN /\ Alters(t, "copy", o, answer[t])
            /\ fs'[p] = d /\ ~inodes'[d].dir /\ inodes'[d].blocks = <<>>
            /\ \A q \in Paths : q # p => fs[q] # d
            /\ fs[p] = d \/ (d = Len(inodes) + 1 /\ ~IsDir(p) /\ IsDir(Parent(p)) /\ fs[p] # d)
  PROVE  FilesInv'
<1> DEFINE p == req[t].path
           o == [op[t] EXCEPT !.dest = d, !.fds = {"orig", "dest"}]
<1>1. /\ p \in Paths /\ IsRequest(req[t]) /\ req[t] \in Requests /\ op[t] \in Ops /\ answer[t] \in AnAnswer
      /\ Placed(t) /\ Sent(t) /\ Uploaded(t) /\ Types /\ (~disturbed[t] => Knows(t))
  BY OnRequest
<1>2. req[t].method = "PUT" /\ otherDevice /\ op[t].tr = 0 /\ op[t].from = 0
  BY <1>1 DEF Placed
<1>3. /\ o.dest = d /\ o.fds = {"orig", "dest"} /\ o.file = op[t].file
      /\ o.tr = 0 /\ o.from = 0 /\ o.length = op[t].length
  BY <1>1, <1>2 DEF Ops
<1> HIDE DEF o
<1>4. /\ Alters(t, "copy", o, answer[t])
      /\ fs'[p] = d /\ ~inodes'[d].dir /\ inodes'[d].blocks = <<>>
      /\ \A q \in Paths : q # p => fs[q] # d
      /\ fs[p] = d \/ (d = Len(inodes) + 1 /\ ~IsDir(p) /\ IsDir(Parent(p)) /\ fs[p] # d)
  BY DEF o
<1>5. /\ pc'[t] = "copy" /\ op'[t] = o /\ answer'[t] = answer[t] /\ req'[t] = req[t] /\ before'[t] = before[t]
      /\ (\A u \in Threads \ {t} : op'[u] = op[u]) /\ req' = req /\ otherDevice' = otherDevice
  BY <1>4, AltersSame
<1>6. /\ DOMAIN inodes \subseteq DOMAIN inodes' /\ \A i \in DOMAIN inodes : inodes'[i].dir = inodes[i].dir
      /\ \A q \in Paths : q # p => fs'[q] = fs[q]
  BY <1>4 DEF Alters
<1>7. Len(inodes) + 1 \notin DOMAIN inodes /\ Missing \notin DOMAIN inodes /\ d # Missing
  BY <1>1, FilesAssumption DEF Types
<1>8. /\ op[t].file \in DOMAIN inodes /\ ~inodes[op[t].file].dir
      /\ \A q \in Paths : fs[q] # op[t].file
      /\ \A u \in Threads : op[u].dest # op[t].file
      /\ \A u \in Threads \ {t} : req[u].method = "PUT" => op[u].file # op[t].file
  BY <1>1, <1>2 DEF Uploaded
<1>9. d # op[t].file
  BY <1>1, <1>4, <1>7, <1>8
<1>10. Fresh(t)
  BY <1>1, <1>2, <1>3, <1>4, <1>5 DEF Fresh
<1>11. Rooted'
  BY <1>1, <1>4, <1>6, RootedKept
<1>12. Uploaded(t)'
  <2>1. \A q \in Paths : fs'[q] # op[t].file
    BY <1>4, <1>6, <1>8, <1>9
  <2>2. \A u \in Threads : op'[u].dest # op[t].file
    BY <1>3, <1>5, <1>8, <1>9
  <2> QED
    BY <1>3, <1>5, <1>6, <1>8, <2>1, <2>2 DEF Uploaded
<1>13. Targeted(t)'
  BY <1>3, <1>4, <1>5, <1>6 DEF Targeted
<1>14. Placed(t)'
  BY <1>1, <1>2, <1>3, <1>5 DEF Placed, Sending, Listing, Calls
<1>15. Sent(t)'
  <2>1. inodes'[op[t].file] \in Inode
    BY <1>4, <1>6, <1>8 DEF Alters
  <2>2. Len(inodes'[op[t].file].blocks) >= 0
    BY <2>1 DEF Inode
  <2> QED
    BY <1>1, <1>2, <1>3, <1>5, <1>7, <2>2 DEF Sent
<1>16. ASSUME ~disturbed[t] PROVE Knows(t)'
  <2>1. SubSeq(inodes'[op[t].file].blocks, 1, 0) = <<>>
    <3>1. inodes'[op[t].file] \in Inode
      BY <1>4, <1>6, <1>8 DEF Alters
    <3>2. inodes'[op[t].file].blocks \in Seq(Block)
      BY <3>1 DEF Inode
    <3> QED
      BY <3>2
  <2>2. Copies(t)'
    BY <1>3, <1>4, <1>5, <2>1 DEF Copies
  <2> QED
    BY <1>2, <1>5, <2>2 DEF Knows, Reads, Lists, Finds, IsGet
<1> QED
  BY <1>4, <1>10, <1>11, <1>12, <1>13, <1>14, <1>15, <1>16, AlterStep

\* Both are opened, and the one that is there is emptied.
LEMMA PutCreateInv ==
  ASSUME FilesInv, NEW t \in Threads, PutCreate(t)
  PROVE  FilesInv'
<1> DEFINE p == req[t].path
<1>1. pc[t] = "create"
  BY DEF PutCreate
<1>2. /\ p \in Paths /\ IsRequest(req[t]) /\ op[t] \in Ops /\ answer[t] \in AnAnswer
      /\ Placed(t) /\ Uploaded(t) /\ Types /\ Rooted
  BY <1>1, OnRequest
<1>3. req[t].method = "PUT" /\ otherDevice
  BY <1>1, <1>2 DEF Placed
<1>4. \A u \in Threads : req[u].method = "PUT" => op[u].file \in DOMAIN inodes
  BY DEF FilesInv, Uploaded
<1>5. \A d : [op EXCEPT ![t].dest = d, ![t].fds = {"orig", "dest"}]
             = [op EXCEPT ![t] = [op[t] EXCEPT !.dest = d, !.fds = {"orig", "dest"}]]
  BY <1>2 DEF Types
<1>6. \A d \in Nat : [op[t] EXCEPT !.dest = d, !.fds = {"orig", "dest"}] \in Ops
  BY <1>2 DEF Ops
<1>7. "copy" \in Places \ {"idle"}
  BY DEF Places
<1>8. CASE IsDir(p) \/ ~IsDir(Parent(p))
  <2>1. Keep /\ Answers(t, Code(403)) /\ UNCHANGED op
    BY <1>8 DEF PutCreate
  <2> QED
    BY <1>1, <1>3, <2>1, Refused DEF IsGet
<1>9. CASE IsDir(Parent(p)) /\ There(p) /\ ~IsDir(p)
  <2> DEFINE i == fs[p]
             o == [op[t] EXCEPT !.dest = i, !.fds = {"orig", "dest"}]
             ino == [inodes[i] EXCEPT !.blocks = <<>>]
  <2>1. /\ inodes' = [inodes EXCEPT ![i].blocks = <<>>]
        /\ op' = [op EXCEPT ![t].dest = i, ![t].fds = {"orig", "dest"}]
        /\ Touches(t, p) /\ Goes(t, "copy") /\ UNCHANGED <<fs, answer, shortened>>
    BY <1>9 DEF PutCreate
  <2>2. i \in DOMAIN inodes /\ i \in Nat /\ ~inodes[i].dir
    BY <1>2, <1>9 DEF There, IsDir, Types
  <2>3. inodes' = [inodes EXCEPT ![i] = ino]
    BY <1>2, <2>1, <2>2 DEF Types
  <2>4. ino \in Inode /\ Len(ino.blocks) < W /\ ino.dir = inodes[i].dir /\ ino.blocks = <<>>
    <3>1. inodes[i] \in Inode
      BY <2>2, FileBlocks
    <3>2. <<>> \in Seq(Block) /\ Len(<<>>) = 0 /\ 0 < W
      BY DEF W
    <3>3. ino \in Inode /\ ino.dir = inodes[i].dir /\ ino.blocks = <<>>
      BY <3>1, <3>2 DEF Inode
    <3> QED
      BY <3>2, <3>3
  <2> HIDE DEF ino
  <2>5. /\ inodes' \in Seq(Inode) /\ (\A j \in DOMAIN inodes' : Len(inodes'[j].blocks) < W)
        /\ DOMAIN inodes = DOMAIN inodes' /\ (\A j \in DOMAIN inodes : inodes'[j].dir = inodes[j].dir)
        /\ inodes'[i] = ino /\ \A j \in DOMAIN inodes : j # i => inodes'[j] = inodes[j]
    BY <2>2, <2>3, <2>4, ChangedInode
  <2>6. Alters(t, "copy", o, answer[t])
    <3>1. op' = [op EXCEPT ![t] = o] /\ o \in Ops
      BY <1>5, <1>6, <2>1, <2>2
    <3>2. \A j \in DOMAIN inodes : inodes'[j] = inodes[j] \/ \A q \in Paths : fs[q] = j => q = p
      BY <1>2, <1>9, <2>5 DEF Rooted
    <3>3. \A u \in Threads \ {t} : req[u].method = "PUT" =>
            inodes'[op[u].file].blocks = inodes[op[u].file].blocks
      <4>1. \A u \in Threads \ {t} : req[u].method = "PUT" => op[u].file # i
        <5> SUFFICES ASSUME NEW u \in Threads \ {t}, req[u].method = "PUT", op[u].file = i
                     PROVE  FALSE
          OBVIOUS
        <5>1. Uploaded(u)
          BY DEF FilesInv
        <5>2. ~otherDevice
          BY <1>2, <5>1 DEF Uploaded
        <5> QED
          BY <1>3, <5>2
      <4> QED
        BY <1>4, <2>5, <4>1
    <3> HIDE DEF o
    <3>4. answer' = [answer EXCEPT ![t] = answer[t]] /\ fs' \in [Paths -> DOMAIN inodes' \union {Missing}]
      BY <1>2, <2>1, <2>5 DEF Types
    <3> QED
      BY <1>1, <1>2, <1>7, <2>1, <2>5, <3>1, <3>2, <3>3, <3>4 DEF Alters, Goes, Types
  <2>7. \A q \in Paths : q # p => fs[q] # i
    BY <1>2, <1>9 DEF Rooted
  <2> QED
    BY <1>1, <2>1, <2>2, <2>4, <2>5, <2>6, <2>7, CopyBegins
<1>10. CASE IsDir(Parent(p)) /\ ~There(p)
  <2> DEFINE new == Len(inodes) + 1
             o == [op[t] EXCEPT !.dest = new, !.fds = {"orig", "dest"}]
             ino == [dir |-> FALSE, exec |-> FALSE, blocks |-> <<>>]
  <2>1. /\ inodes' = Append(inodes, ino)
        /\ fs' = [fs EXCEPT ![p] = new]
        /\ op' = [op EXCEPT ![t].dest = new, ![t].fds = {"orig", "dest"}]
        /\ Touches(t, p) /\ Goes(t, "copy") /\ UNCHANGED <<answer, shortened>>
    BY <1>10 DEF PutCreate, IsDir
  <2>2. /\ inodes' \in Seq(Inode) /\ (\A j \in DOMAIN inodes' : Len(inodes'[j].blocks) < W)
        /\ DOMAIN inodes \subseteq DOMAIN inodes' /\ (\A j \in DOMAIN inodes : inodes'[j] = inodes[j])
        /\ new \in DOMAIN inodes' /\ inodes'[new] = ino /\ new \in Nat /\ new # Missing
        /\ \A q \in Paths : fs[q] # new
    BY <2>1, NewInode, EmptyInode
  <2>3. ~ino.dir /\ ino.blocks = <<>>
    OBVIOUS
  <2> HIDE DEF new, ino
  <2>4. Alters(t, "copy", o, answer[t])
    <3>1. op' = [op EXCEPT ![t] = o] /\ o \in Ops
      BY <1>5, <1>6, <2>1, <2>2
    <3> HIDE DEF o
    <3>2. /\ answer' = [answer EXCEPT ![t] = answer[t]] /\ fs' \in [Paths -> DOMAIN inodes' \union {Missing}]
          /\ \A q \in Paths : q # p => fs'[q] = fs[q]
      BY <1>2, <2>1, <2>2 DEF Types
    <3> QED
      BY <1>1, <1>2, <1>4, <1>7, <2>1, <2>2, <3>1, <3>2 DEF Alters, Goes, Types
  <2>5. fs'[p] = new /\ ~IsDir(p)
    BY <1>2, <1>10, <2>1 DEF IsDir, Types
  <2>6. new = Len(inodes) + 1
    BY DEF new
  <2> QED
    BY <1>1, <1>2, <1>10, <2>2, <2>3, <2>4, <2>5, <2>6, CopyBegins
<1> QED
  BY <1>8, <1>9, <1>10

\* What is written is a sequence of blocks, as long as the old one or to where the writing ends.
LEMMA WrittenIs ==
  ASSUME NEW old \in Seq(Block), NEW at \in Nat, NEW new \in Seq(Block)
  PROVE  /\ Written(old, at, new) \in Seq(Block)
         /\ Len(Written(old, at, new)) = IF Len(old) > at + Len(new) THEN Len(old) ELSE at + Len(new)
         /\ \A i \in 1..Len(Written(old, at, new)) :
              /\ i > at /\ i <= at + Len(new) => Written(old, at, new)[i] = new[i - at]
              /\ ~(i > at /\ i <= at + Len(new)) /\ i <= Len(old) => Written(old, at, new)[i] = old[i]
<1> DEFINE n == IF Len(old) > at + Len(new) THEN Len(old) ELSE at + Len(new)
           e(i) == IF i > at /\ i <= at + Len(new) THEN new[i - at]
                   ELSE IF i <= Len(old) THEN old[i] ELSE <<0, 0>>
<1>1. n \in Nat
  OBVIOUS
<1>2. Written(old, at, new) = [i \in 1..n |-> e(i)]
  BY DEF Written
<1>3. <<0, 0>> \in Block
  BY DEF Block
<1>4. ASSUME NEW i \in 1..n PROVE e(i) \in Block
  <2>1. CASE i > at /\ i <= at + Len(new)
    <3>1. i - at \in 1..Len(new)
      BY <2>1
    <3> QED
      BY <2>1, <3>1
  <2>2. CASE ~(i > at /\ i <= at + Len(new))
    BY <1>3, <2>2
  <2> QED
    BY <2>1, <2>2
<1> HIDE DEF n, e
<1>5. [i \in 1..n |-> e(i)] \in Seq(Block) /\ Len([i \in 1..n |-> e(i)]) = n
  BY <1>1, <1>4
<1> QED
  BY <1>2, <1>5 DEF n, e

\* A copy that goes on where it was is a longer copy.
LEMMA CopyGrows ==
  ASSUME NEW f \in Seq(Block), NEW i \in Nat, NEW n \in Nat, i + n <= Len(f)
  PROVE  Written(SubSeq(f, 1, i), i, SubSeq(f, i + 1, i + n)) = SubSeq(f, 1, i + n)
<1> DEFINE old == SubSeq(f, 1, i)
           new == SubSeq(f, i + 1, i + n)
           all == SubSeq(f, 1, i + n)
<1>1. Len(f) \in Nat /\ \A k \in 1..Len(f) : f[k] \in Block
  OBVIOUS
<1>2. /\ old \in Seq(Block) /\ Len(old) = i /\ \A k \in 1..i : old[k] = f[k]
  <2>1. \A k \in 1..i : f[k] \in Block
    BY <1>1
  <2> QED
    BY <2>1, SubSeqProperties
<1>3. /\ new \in Seq(Block) /\ Len(new) = n /\ \A k \in 1..n : new[k] = f[i + k]
  <2>1. \A k \in i + 1..i + n : f[k] \in Block
    BY <1>1
  <2>2. /\ new \in Seq(Block) /\ Len(new) = IF i + 1 <= i + n THEN i + n - (i + 1) + 1 ELSE 0
        /\ \A k \in 1..i + n - (i + 1) + 1 : new[k] = f[i + 1 + k - 1]
    BY <2>1, SubSeqProperties
  <2> QED
    BY <2>2
<1>4. /\ all \in Seq(Block) /\ Len(all) = i + n /\ \A k \in 1..i + n : all[k] = f[k]
  <2>1. \A k \in 1..i + n : f[k] \in Block
    BY <1>1
  <2> QED
    BY <2>1, SubSeqProperties
<1> HIDE DEF old, new, all
<1> DEFINE copy == Written(old, i, new)
<1>5. /\ copy \in Seq(Block) /\ Len(copy) = i + n
      /\ \A k \in 1..i + n : (k > i => copy[k] = new[k - i]) /\ (k <= i => copy[k] = old[k])
  <2>1. /\ copy \in Seq(Block)
        /\ Len(copy) = IF Len(old) > i + Len(new) THEN Len(old) ELSE i + Len(new)
        /\ \A k \in 1..Len(copy) :
             /\ k > i /\ k <= i + Len(new) => copy[k] = new[k - i]
             /\ ~(k > i /\ k <= i + Len(new)) /\ k <= Len(old) => copy[k] = old[k]
    BY <1>2, <1>3, WrittenIs
  <2> HIDE DEF copy
  <2>2. Len(copy) = i + n
    BY <1>2, <1>3, <2>1
  <2> QED
    BY <1>2, <1>3, <2>1, <2>2
<1> HIDE DEF copy
<1>6. ASSUME NEW k \in 1..i + n PROVE copy[k] = all[k]
  <2>1. CASE k > i
    <3> DEFINE j == k - i
    <3>1. j \in 1..n /\ i + j = k
      BY <2>1
    <3>2. copy[k] = new[j]
      BY <1>5, <2>1
    <3> HIDE DEF j
    <3>3. new[j] = f[i + j]
      BY <1>3, <3>1
    <3>4. all[k] = f[k]
      BY <1>4
    <3> QED
      BY <3>1, <3>2, <3>3, <3>4
  <2>2. CASE ~(k > i)
    <3>1. k \in 1..i
      BY <2>2
    <3>2. copy[k] = old[k]
      BY <1>5, <3>1
    <3> QED
      BY <1>2, <1>4, <3>1, <3>2
  <2> QED
    BY <2>1, <2>2
<1>7. copy = all
  BY <1>4, <1>5, <1>6, SeqEqual
<1> QED
  BY <1>7 DEF copy, old, new, all

\* What a copy has to go on with: two files that are not the same one, and both this request's.
LEMMA Copying ==
  ASSUME FilesInv, NEW t \in Threads, pc[t] = "copy"
  PROVE  LET p == req[t].path
             b == inodes[op[t].file].blocks
             from == op[t].tr
             piece == Blocks(op[t].file, from, Buffer)
         IN /\ p \in Paths /\ op[t] \in Ops /\ answer[t] \in AnAnswer
            /\ Placed(t) /\ Sent(t) /\ Uploaded(t) /\ Targeted(t) /\ Types /\ (~disturbed[t] => Knows(t))
            /\ req[t].method = "PUT" /\ otherDevice
            /\ op[t].file \in DOMAIN inodes /\ op[t].dest \in DOMAIN inodes /\ op[t].dest # op[t].file
            /\ op[t].dest # Missing /\ ~inodes[op[t].dest].dir
            /\ \A q \in Paths : fs[q] = op[t].dest => q = p
            /\ op[t].from \in Nat /\ from \in Nat /\ op[t].from <= from
            /\ b \in Seq(Block) /\ Len(b) < W /\ Len(b) \in Nat /\ from <= Len(b)
            /\ piece \in Seq(Block) /\ Len(piece) \in Nat /\ from + Len(piece) <= Len(b)
            /\ piece = SubSeq(b, from + 1, from + Len(piece))
            /\ Copied(t) => from = Len(b)
<1>1. /\ req[t].path \in Paths /\ op[t] \in Ops /\ answer[t] \in AnAnswer
      /\ Placed(t) /\ Sent(t) /\ Uploaded(t) /\ Targeted(t) /\ Types /\ (~disturbed[t] => Knows(t))
  BY OnRequest
<1>2. req[t].method = "PUT" /\ otherDevice
  BY <1>1 DEF Placed
<1>3. op[t].file \in DOMAIN inodes /\ op[t].dest # op[t].file
  BY <1>1, <1>2 DEF Uploaded
<1>4. /\ op[t].dest # Missing /\ op[t].from <= op[t].tr /\ op[t].tr <= Len(inodes[op[t].file].blocks)
  BY <1>1 DEF Sent
<1>5. /\ op[t].dest \in DOMAIN inodes /\ ~inodes[op[t].dest].dir
      /\ \A q \in Paths : fs[q] = op[t].dest => q = req[t].path
  BY <1>1, <1>4 DEF Targeted
<1>6. op[t].from \in Nat /\ op[t].tr \in Nat
  BY <1>1 DEF Ops
<1> DEFINE b == inodes[op[t].file].blocks
           from == op[t].tr
           piece == Blocks(op[t].file, from, Buffer)
<1>7. Buffer \in Nat /\ Buffer # 0
  BY FilesAssumption
<1>8. /\ b \in Seq(Block) /\ Len(b) < W /\ piece \in Seq(Block)
      /\ from <= Len(b) => from + Len(piece) <= Len(b)
      /\ piece = SubSeq(b, from + 1, from + Len(piece))
  <2>1. op[t].file \in DOMAIN inodes /\ from \in Nat /\ Buffer \in Nat
    BY <1>3, <1>6, <1>7
  <2>2. IsPart(piece, b, from, Buffer)
    BY <2>1, BlocksOf
  <2> HIDE DEF from, b, piece
  <2> QED
    BY <2>2 DEF IsPart
<1>9. Copied(t) => from = Len(b)
  <2> SUFFICES ASSUME piece = <<>>, from < Len(b)
               PROVE  FALSE
    BY <1>4, <1>6, <1>8 DEF Copied
  <2> DEFINE hi == Lower(from + Buffer, Len(b))
  <2>1. Len(piece) = 0
    OBVIOUS
  <2>2. hi \in Nat /\ from + 1 <= hi /\ hi <= Len(b)
    BY <1>6, <1>7, <1>8, SMTT(40) DEF Lower
  <2>3. piece = SubSeq(b, from + 1, hi)
    BY DEF Blocks
  <2> HIDE DEF hi, b, piece, from
  <2>4. \A k \in from + 1..hi : b[k] \in Block
    BY <1>6, <1>8, <2>2 DEF from
  <2>5. from + 1 \in Int /\ hi \in Int
    BY <1>6, <2>2 DEF from
  <2>6. Len(SubSeq(b, from + 1, hi)) = hi - (from + 1) + 1
    BY <2>2, <2>4, <2>5, SubSeqProperties
  <2>7. hi - (from + 1) + 1 = 0
    BY <2>1, <2>3, <2>6
  <2>8. from \in Nat
    BY <1>6 DEF from
  <2> QED
    BY <2>2, <2>7, <2>8
<1>10. Len(piece) \in Nat /\ Len(b) \in Nat
  BY <1>8
<1> QED
  BY <1>1, <1>2, <1>3, <1>4, <1>5, <1>6, <1>8, <1>9, <1>10

\* A piece more is copied, or less of it than was read.
LEMMA PutCopyInv ==
  ASSUME FilesInv, NEW t \in Threads, PutCopy(t)
  PROVE  FilesInv'
<1> DEFINE p == req[t].path
           d == op[t].dest
           f == inodes[op[t].file].blocks
           from == op[t].tr
           piece == Blocks(op[t].file, from, Buffer)
<1>1. pc[t] = "copy" /\ Touches(t, p) /\ Goes(t, "copy") /\ UNCHANGED <<fs, answer>>
  BY DEF PutCopy
<1>2. PICK n \in 1..Len(piece) :
        /\ inodes' = [inodes EXCEPT ![d].blocks = Written(@, op[t].from, SubSeq(piece, 1, n))]
        /\ op' = [op EXCEPT ![t].tr = @ + Len(piece), ![t].from = @ + n]
        /\ shortened' = (shortened \/ n < Len(piece))
  BY DEF PutCopy
<1>3. /\ p \in Paths /\ op[t] \in Ops /\ answer[t] \in AnAnswer
      /\ Placed(t) /\ Sent(t) /\ Uploaded(t) /\ Targeted(t) /\ Types /\ (~disturbed[t] => Knows(t))
      /\ req[t].method = "PUT" /\ otherDevice
      /\ op[t].file \in DOMAIN inodes /\ d \in DOMAIN inodes /\ d # op[t].file
      /\ d # Missing /\ ~inodes[d].dir
      /\ \A q \in Paths : fs[q] = d => q = p
      /\ op[t].from \in Nat /\ from \in Nat /\ op[t].from <= from
      /\ f \in Seq(Block) /\ Len(f) < W /\ Len(f) \in Nat /\ from <= Len(f)
      /\ piece \in Seq(Block) /\ Len(piece) \in Nat /\ from + Len(piece) <= Len(f)
      /\ piece = SubSeq(f, from + 1, from + Len(piece))
  BY <1>1, Copying
<1> DEFINE old == inodes[d].blocks
           new == SubSeq(piece, 1, n)
           ino == [inodes[d] EXCEPT !.blocks = Written(old, op[t].from, new)]
           o == [op[t] EXCEPT !.tr = from + Len(piece), !.from = op[t].from + n]
<1>4. n \in Nat /\ 1 <= n /\ n <= Len(piece)
  BY <1>3
<1>5. ~shortened' => ~shortened /\ n = Len(piece)
  <2>1. ~shortened' => ~shortened /\ ~(n < Len(piece))
    BY <1>2
  <2> QED
    BY <1>3, <1>4, <2>1
<1>6. new \in Seq(Block) /\ Len(new) = n /\ (n = Len(piece) => new = piece)
  <2> HIDE DEF piece
  <2>1. \A k \in 1..n : piece[k] \in Block
    BY <1>3, <1>4
  <2>2. new \in Seq(Block) /\ Len(new) = n
    BY <1>4, <2>1, SubSeqProperties
  <2>3. SubSeq(piece, 1, Len(piece)) = piece
    BY <1>3, SubSeqFull
  <2> QED
    BY <2>2, <2>3
<1>7. inodes[d] \in Inode /\ old \in Seq(Block) /\ Len(old) < W
  BY <1>3, FileBlocks, WNat
<1> HIDE DEF piece, new, old
<1>8. /\ Written(old, op[t].from, new) \in Seq(Block) /\ Len(Written(old, op[t].from, new)) < W
  <2> DEFINE at == op[t].from
             all == Written(old, at, new)
  <2>1. at \in Nat
    BY <1>3
  <2>2. all \in Seq(Block) /\ Len(all) = IF Len(old) > at + Len(new) THEN Len(old) ELSE at + Len(new)
    <3> HIDE DEF at
    <3> QED
      BY <1>6, <1>7, <2>1, WrittenIs
  <2> HIDE DEF all
  <2>3. at + n <= Len(f)
    BY <1>3, <1>4, SMTT(40)
  <2>4. Len(all) < W
    BY <1>3, <1>4, <1>6, <1>7, <2>1, <2>2, <2>3, WNat, SMTT(40)
  <2> QED
    BY <2>2, <2>4 DEF all, at
<1>9. ino \in Inode /\ Len(ino.blocks) < W /\ ino.dir = inodes[d].dir /\ ino.exec = inodes[d].exec
      /\ ino.blocks = Written(old, op[t].from, new)
  BY <1>7, <1>8 DEF Inode
<1>10. inodes' = [inodes EXCEPT ![d] = ino]
  BY <1>2, <1>3 DEF Types, old, new
<1> HIDE DEF ino
<1>11. /\ inodes' \in Seq(Inode) /\ (\A j \in DOMAIN inodes' : Len(inodes'[j].blocks) < W)
       /\ DOMAIN inodes = DOMAIN inodes' /\ (\A j \in DOMAIN inodes : inodes'[j].dir = inodes[j].dir)
       /\ inodes'[d] = ino /\ \A j \in DOMAIN inodes : j # d => inodes'[j] = inodes[j]
  <2> HIDE DEF d
  <2> QED
    BY <1>3, <1>9, <1>10, ChangedInode
<1>12. o \in Ops /\ op' = [op EXCEPT ![t] = o]
       /\ o.tr = from + Len(piece) /\ o.from = op[t].from + n /\ o.fds = op[t].fds /\ o.length = op[t].length
       /\ o.file = op[t].file /\ o.dest = d
  <2>1. from + Len(piece) \in Nat /\ op[t].from + n \in Nat
    BY <1>3, <1>4, SMTT(40)
  <2>2. op' = [op EXCEPT ![t] = o]
    BY <1>2, <1>3 DEF Types, piece
  <2> QED
    BY <1>3, <2>1, <2>2 DEF Ops
<1> HIDE DEF o
<1>13. /\ \A u \in Threads \ {t} : req[u].method = "PUT" => op[u].file # d /\ op[u].file \in DOMAIN inodes
  <2> SUFFICES ASSUME NEW u \in Threads \ {t}, req[u].method = "PUT"
               PROVE  op[u].file # d /\ op[u].file \in DOMAIN inodes
    OBVIOUS
  <2>1. Uploaded(u)
    BY DEF FilesInv
  <2> QED
    BY <2>1 DEF Uploaded
<1>14. Alters(t, "copy", o, answer[t])
  <2>1. answer' = [answer EXCEPT ![t] = answer[t]] /\ fs' \in [Paths -> DOMAIN inodes' \union {Missing}]
    BY <1>1, <1>3, <1>11 DEF Types
  <2>2. shortened' \in BOOLEAN /\ (shortened => shortened')
    BY <1>2, <1>3 DEF Types
  <2>3. "copy" \in Places \ {"idle"}
    BY DEF Places
  <2> QED
    BY <1>1, <1>3, <1>11, <1>12, <1>13, <2>1, <2>2, <2>3 DEF Alters, Goes
<1>15. /\ pc'[t] = "copy" /\ op'[t] = o /\ answer'[t] = answer[t] /\ req'[t] = req[t]
       /\ before'[t] = before[t]
       /\ (\A u \in Threads \ {t} : op'[u] = op[u]) /\ req' = req /\ otherDevice' = otherDevice /\ fs' = fs
  BY <1>1, <1>14, AltersSame
<1>16. Fresh(t)
  BY <1>3, <1>12, <1>15 DEF Fresh
<1>17. Rooted'
  BY <1>3, <1>11, <1>15, RootedKept
<1>18. Uploaded(t)'
  BY <1>3, <1>11, <1>12, <1>15 DEF Uploaded
<1>19. Targeted(t)'
  BY <1>3, <1>11, <1>12, <1>15 DEF Targeted
<1>20. Placed(t)'
  BY <1>1, <1>3, <1>12, <1>15 DEF Placed, Sending, Listing, Calls
<1>21. inodes'[op[t].file].blocks = f
  BY <1>3, <1>11
<1>22. Sent(t)'
  <2>1. o.from <= o.tr /\ o.tr <= Len(f)
    BY <1>3, <1>4, <1>12
  <2> QED
    BY <1>1, <1>3, <1>12, <1>15, <1>21, <2>1 DEF Sent
<1>23. ASSUME ~disturbed[t] PROVE Knows(t)'
  <2>1. /\ fs[p] = d
        /\ ~shortened => op[t].from = from /\ old = SubSeq(f, 1, from)
    BY <1>1, <1>3, <1>23 DEF Knows, Copies, old
  <2>2. ASSUME ~shortened'
        PROVE  o.from = o.tr /\ inodes'[d].blocks = SubSeq(f, 1, o.tr)
    <3>1. ~shortened /\ n = Len(piece)
      BY <1>5, <2>2 DEF piece
    <3>2. new = SubSeq(f, from + 1, from + Len(piece))
      BY <1>3, <1>6, <3>1 DEF piece
    <3>3. inodes'[d].blocks = Written(SubSeq(f, 1, from), from, SubSeq(f, from + 1, from + Len(piece)))
      BY <1>9, <1>11, <2>1, <3>1, <3>2
    <3>4. Written(SubSeq(f, 1, from), from, SubSeq(f, from + 1, from + Len(piece))) = SubSeq(f, 1, from + Len(piece))
      <4> DEFINE k == Len(piece)
      <4>1. f \in Seq(Block) /\ from \in Nat /\ k \in Nat /\ from + k <= Len(f)
        BY <1>3 DEF piece
      <4> HIDE DEF f, from, k
      <4> QED
        BY <4>1, CopyGrows DEF k
    <3> QED
      BY <1>12, <2>1, <3>1, <3>3, <3>4
  <2>3. Copies(t)'
    BY <1>12, <1>15, <1>21, <2>1, <2>2 DEF Copies
  <2> QED
    BY <1>3, <1>15, <2>3 DEF Knows, Reads, Lists, Finds, IsGet
<1> QED
  BY <1>14, <1>16, <1>17, <1>18, <1>19, <1>20, <1>22, <1>23, AlterStep

\* The copy is over: the file is what came, unless a write fell short; or the disk is full.
LEMMA PutEndInv ==
  ASSUME FilesInv, NEW t \in Threads, PutFails(t) \/ PutEnd(t)
  PROVE  FilesInv'
<1> DEFINE p == req[t].path
           o == [op[t] EXCEPT !.fds = {}]
<1>1. pc[t] = "copy" /\ op' = [op EXCEPT ![t].fds = {}] /\ Keep
  BY DEF PutFails, PutEnd
<1>2. PICK c \in {201, 403} : Answers(t, Code(c)) /\ (c = 201 => Copied(t))
  BY DEF PutFails, PutEnd
<1>3. /\ p \in Paths /\ op[t] \in Ops /\ answer[t] \in AnAnswer
      /\ Placed(t) /\ Sent(t) /\ Types /\ (~disturbed[t] => Knows(t))
      /\ req[t].method = "PUT" /\ otherDevice
      /\ op[t].file \in DOMAIN inodes /\ op[t].dest \in DOMAIN inodes /\ op[t].dest # Missing
      /\ Copied(t) => op[t].tr = Len(inodes[op[t].file].blocks)
  BY <1>1, Copying
<1>4. o \in Ops /\ op' = [op EXCEPT ![t] = o] /\ o.fds = {} /\ o.dest = op[t].dest /\ o.file = op[t].file
  BY <1>1, <1>3 DEF Ops, Types
<1> HIDE DEF o
<1>5. Code(c) \in AnAnswer /\ Code(c).code = c /\ Code(c).body = <<>> /\ Code(c).length = 0
  BY CodeIsAnswer DEF Code, NoAnswer
<1>6. Quiet(t, "done", o, Code(c))
  BY <1>1, <1>2, <1>4, <1>5 DEF Quiet, Answers, Goes, Keep, Places
<1>7. /\ \A q : There(q)' = There(q) /\ Holds(q)' = Holds(q)
      /\ pc'[t] = "done" /\ op'[t] = o /\ answer'[t] = Code(c) /\ req'[t] = req[t] /\ before'[t] = before[t]
      /\ fs' = fs /\ inodes' = inodes /\ shortened' = shortened /\ otherDevice' = otherDevice
  BY <1>6, QuietSame
<1>8. Placed(t)'
  BY <1>3, <1>4, <1>7 DEF Placed, Sending, Listing, Calls
<1>9. Sent(t)'
  BY <1>3, <1>5, <1>7 DEF Sent
<1>10. ASSUME ~disturbed[t] PROVE Knows(t)'
  <2>1. Effect(t)'
    <3>1. CASE c = 201
      <4>1. Copies(t) /\ op[t].tr = Len(inodes[op[t].file].blocks)
        BY <1>2, <1>3, <1>10, <3>1 DEF Knows
      <4>2. fs[p] = op[t].dest /\ There(p)
        BY <1>1, <1>3, <4>1 DEF Copies, There
      <4>3. SubSeq(inodes[op[t].file].blocks, 1, op[t].tr) = inodes[op[t].file].blocks
        BY <1>3, <4>1, FileBlocks, SubSeqFull
      <4>4. shortened \/ Holds(p).blocks = inodes[op[t].file].blocks
        BY <1>1, <4>1, <4>2, <4>3 DEF Copies, Holds
      <4> QED
        BY <1>3, <1>4, <1>5, <1>7, <3>1, <4>2, <4>4 DEF Effect
    <3>2. CASE c = 403
      BY <1>3, <1>5, <1>7, <3>2 DEF Effect
    <3> QED
      BY <3>1, <3>2
  <2> QED
    BY <1>3, <1>7, <2>1 DEF Knows, Reads, Lists, Copies, Finds, IsGet
<1> QED
  BY <1>6, <1>8, <1>9, <1>10, QuietStep

\* A request comes: it knows what its path holds, and its upload is nobody else's.
LEMMA ArriveInv ==
  ASSUME FilesInv, NEW t \in Threads, Arrive(t)
  PROVE  FilesInv'
<1>1. PICK r \in Requests :
        /\ req' = [req EXCEPT ![t] = r]
        /\ pc' = [pc EXCEPT ![t] = IF r.via = "export" THEN "export" ELSE "webdav"]
        /\ inodes' = IF r.method = "PUT"
                       THEN Append(inodes, [dir |-> FALSE, exec |-> FALSE,
                                            blocks |-> [i \in 1..r.size |-> <<Len(inodes) + 1, i>>]])
                       ELSE inodes
        /\ op' = [op EXCEPT ![t] = [NoOp EXCEPT !.file = IF r.method = "PUT" THEN Len(inodes) + 1 ELSE Missing]]
        /\ before' = [before EXCEPT ![t] = IF fs[r.path] = Missing THEN Missing ELSE inodes[fs[r.path]]]
  BY DEF Arrive
<1>2. /\ pc[t] = "idle" /\ left > 0 /\ left' = left - 1
      /\ UNCHANGED <<fs, otherDevice, answer, disturbed, shortened>>
  BY DEF Arrive
<1>3. Types /\ Rooted /\ Placed(t) /\ Sent(t)
  BY DEF FilesInv
<1>4. IsRequest(r) /\ r.path \in Paths /\ r.via \in {"export", "webdav"}
  BY FilesAssumption DEF IsRequest
<1>5. req[t] = NoRequest /\ op[t].dest = Missing /\ answer[t] = NoAnswer
  BY <1>2, <1>3 DEF Placed
<1> DEFINE p == r.path
           new == Len(inodes) + 1
           up == r.method = "PUT"
           o == [NoOp EXCEPT !.file = IF up THEN new ELSE Missing]
           ino == [dir |-> FALSE, exec |-> FALSE, blocks |-> [i \in 1..r.size |-> <<new, i>>]]
           b == IF fs[p] = Missing THEN Missing ELSE inodes[fs[p]]
           next == IF r.via = "export" THEN "export" ELSE "webdav"
<1>6. up => ino \in Inode /\ Len(ino.blocks) < W /\ ~ino.dir
  <2> SUFFICES ASSUME up
               PROVE  ino \in Inode /\ Len(ino.blocks) < W /\ ~ino.dir
    OBVIOUS
  <2> DEFINE n == r.size
             all == [i \in 1..n |-> <<new, i>>]
  <2>1. n \in 0..W-1
    BY <1>4 DEF IsRequest
  <2>2. n \in Nat /\ n < W /\ new \in Nat
    BY <1>3, <2>1, WNat DEF Types
  <2> HIDE DEF n, new
  <2>3. \A i \in 1..n : <<new, i>> \in Block
    BY <2>2 DEF Block
  <2>4. all \in Seq(Block) /\ Len(all) = n
    BY <2>2, <2>3
  <2> HIDE DEF all
  <2> QED
    BY <2>2, <2>4 DEF Inode, all, n
<1>7. /\ inodes' \in Seq(Inode) /\ (\A i \in DOMAIN inodes' : Len(inodes'[i].blocks) < W)
      /\ DOMAIN inodes \subseteq DOMAIN inodes' /\ (\A i \in DOMAIN inodes : inodes'[i] = inodes[i])
      /\ up => new \in DOMAIN inodes' /\ inodes'[new] = ino
      /\ new \in Nat /\ new # Missing /\ (\A q \in Paths : fs[q] # new) /\ new \notin DOMAIN inodes
  <2>1. new \in Nat /\ new \notin DOMAIN inodes /\ new # Missing
    BY <1>3, FilesAssumption DEF Types
  <2>2. \A q \in Paths : fs[q] # new
    <3> HIDE DEF new
    <3> QED
      BY <1>3, <2>1 DEF Types
  <2> HIDE DEF ino
  <2>3. CASE up
    <3>1. inodes' = Append(inodes, ino)
      BY <1>1, <2>3 DEF ino
    <3>2. ino \in Inode /\ Len(ino.blocks) < W
      BY <1>6, <2>3
    <3> QED
      BY <2>1, <2>2, <3>1, <3>2, NewInode
  <2>4. CASE ~up
    <3>1. inodes' = inodes
      BY <1>1, <2>4
    <3> QED
      BY <1>3, <2>1, <2>2, <2>4, <3>1 DEF Types
  <2> QED
    BY <2>3, <2>4
<1>8. /\ o.file = (IF up THEN new ELSE Missing) /\ o.dest = Missing /\ o.fds = {} /\ o.tr = 0 /\ o.from = 0
      /\ o.length = 0 /\ o \in Ops
  BY <1>7 DEF NoOp, Ops
<1>9. b \in Inode \union {Missing} /\ (b = Missing <=> fs[p] = Missing)
  <2>1. CASE fs[p] = Missing
    BY <2>1
  <2>2. CASE fs[p] # Missing
    <3>1. fs[p] \in DOMAIN inodes
      BY <1>3, <1>4, <2>2 DEF Types
    <3>2. inodes[fs[p]] \in Inode
      BY <3>1, FileBlocks
    <3> QED
      BY <2>2, <3>2, FilesAssumption
  <2> QED
    BY <2>1, <2>2
<1>10. next \in Places /\ next \in {"export", "webdav"} /\ (next = "export" => r.via = "export")
       /\ (next = "webdav" => r.via = "webdav")
  BY <1>4 DEF Places
<1>11. /\ pc' = [pc EXCEPT ![t] = next] /\ req' = [req EXCEPT ![t] = r] /\ op' = [op EXCEPT ![t] = o]
       /\ before' = [before EXCEPT ![t] = b]
  BY <1>1
<1> HIDE DEF o, ino, b, next, new, p
<1>12. /\ pc'[t] = next /\ req'[t] = r /\ op'[t] = o /\ before'[t] = b /\ answer'[t] = NoAnswer
       /\ \A u \in Threads \ {t} : op'[u] = op[u] /\ req'[u] = req[u]
  BY <1>2, <1>3, <1>5, <1>11 DEF Types
<1>13. Types'
  <2>1. left' \in Nat
    BY <1>2, <1>3 DEF Types
  <2>2. fs' \in [Paths -> DOMAIN inodes' \union {Missing}]
    BY <1>2, <1>3, <1>7 DEF Types
  <2> QED
    BY <1>2, <1>3, <1>7, <1>8, <1>9, <1>10, <1>11, <2>1, <2>2 DEF Types
<1>14. Rooted'
  <2>1. \A q \in Paths : There(q)' = There(q) /\ IsDir(q)' = IsDir(q)
    BY <1>2, <1>3, <1>7 DEF There, IsDir, Types
  <2>2. \A q \in Paths : q # <<>> => Parent(q) \in Paths
    BY FilesAssumption DEF Parent
  <2> QED
    BY <1>2, <1>3, <2>1, <2>2 DEF Rooted
<1>15. \A u \in Threads : req[u].method = "PUT" => op[u].file \in DOMAIN inodes
  BY DEF FilesInv, Uploaded
<1>16. Apart(t)
  <2>1. \A u \in Threads \ {t} :
          req[u].method = "PUT" => inodes'[op[u].file].blocks = inodes[op[u].file].blocks
    BY <1>7, <1>15
  <2>2. answer' = [answer EXCEPT ![t] = answer'[t]]
    BY <1>2, <1>3 DEF Types
  <2> QED
    BY <1>2, <1>7, <1>11, <1>12, <2>1, <2>2 DEF Apart
<1>17. Fresh(t)
  BY <1>2, <1>8, <1>12 DEF Fresh, new
<1>18. Uploaded(t)'
  <2> SUFFICES ASSUME up
               PROVE  /\ new \in DOMAIN inodes' /\ ~inodes'[new].dir
                      /\ \A q \in Paths : fs'[q] # new
                      /\ \A u \in Threads : op'[u].dest # new
                      /\ \A u \in Threads \ {t} : req'[u].method = "PUT" => op'[u].file # new
    BY <1>8, <1>12 DEF Uploaded
  <2>1. \A u \in Threads : op'[u].dest # new
    <3>1. \A u \in Threads : op[u].dest # Missing => op[u].dest \in DOMAIN inodes
      BY DEF FilesInv, Targeted
    <3> QED
      BY <1>7, <1>8, <1>12, <3>1
  <2>2. \A u \in Threads \ {t} : req'[u].method = "PUT" => op'[u].file # new
    BY <1>7, <1>12, <1>15
  <2> QED
    BY <1>2, <1>6, <1>7, <2>1, <2>2
<1>19. Targeted(t)'
  BY <1>8, <1>12 DEF Targeted
<1>20. Placed(t)'
  BY <1>8, <1>10, <1>12 DEF Placed, Sending, Listing, Calls
<1>21. Sent(t)'
  <2>1. Len(NoAnswer.body) <= NoAnswer.length
    BY DEF NoAnswer
  <2> QED
    BY <1>8, <1>10, <1>12, <2>1 DEF Sent
<1>22. Knows(t)'
  <2>1. Holds(p)' = b
    BY <1>2, <1>3, <1>4, <1>7, <1>12 DEF Holds, There, b, p, Types
  <2>2. req'[t].path = p
    BY <1>12 DEF p
  <2> QED
    BY <1>10, <1>12, <2>1, <2>2 DEF Knows, Reads, Lists, Copies, Finds
<1> QED
  BY <1>13, <1>14, <1>16, <1>17, <1>18, <1>19, <1>20, <1>21, <1>22, StepInv

\* A request is over: its thread forgets it.
LEMMA LeaveInv ==
  ASSUME FilesInv, NEW t \in Threads, Leave(t)
  PROVE  FilesInv'
<1> DEFINE o == [NoOp EXCEPT !.fds = op[t].fds]
<1>1. /\ pc[t] = "done" /\ pc' = [pc EXCEPT ![t] = "idle"] /\ req' = [req EXCEPT ![t] = NoRequest]
      /\ op' = [op EXCEPT ![t] = o] /\ answer' = [answer EXCEPT ![t] = NoAnswer]
      /\ before' = [before EXCEPT ![t] = Missing] /\ disturbed' = [disturbed EXCEPT ![t] = FALSE]
      /\ UNCHANGED <<fs, inodes, otherDevice, left, shortened>>
  BY DEF Leave
<1>2. /\ op[t] \in Ops /\ Placed(t) /\ Types /\ Rooted
  BY <1>1, OnRequest
<1>3. op[t].fds = {}
  BY <1>1, <1>2 DEF Placed, Sending
<1>4. o \in Ops /\ o.fds = {} /\ o.dest = Missing /\ o.file = Missing /\ o.tr = 0 /\ o.length = 0
  BY <1>3 DEF NoOp, Ops
<1> HIDE DEF o
<1>5. /\ pc'[t] = "idle" /\ req'[t] = NoRequest /\ op'[t] = o /\ answer'[t] = NoAnswer /\ before'[t] = Missing
      /\ \A u \in Threads \ {t} : disturbed'[u] = disturbed[u]
  BY <1>1, <1>2 DEF Types
<1>6. Types'
  <2>1. NoAnswer \in AnAnswer
    <3>1. <<>> \in Seq(Block)
      OBVIOUS
    <3> QED
      BY <3>1 DEF NoAnswer, AnAnswer
  <2>2. "idle" \in Places
    BY DEF Places
  <2> QED
    BY <1>1, <1>2, <1>4, <2>1, <2>2 DEF Types
<1>7. Rooted'
  BY <1>1, <1>2 DEF Rooted, There, IsDir
<1>8. Apart(t)
  BY <1>1, <1>2, <1>5 DEF Apart, Types
<1>9. NoRequest.method = "none"
  BY DEF NoRequest
<1>10. Fresh(t)
  BY <1>1, <1>4, <1>5, <1>9 DEF Fresh
<1>11. Uploaded(t)' /\ Targeted(t)'
  BY <1>4, <1>5, <1>9 DEF Uploaded, Targeted
<1>12. Placed(t)'
  BY <1>4, <1>5 DEF Placed, Sending, Listing, Calls
<1>13. Sent(t)'
  <2>1. Len(NoAnswer.body) <= NoAnswer.length
    BY DEF NoAnswer
  <2> QED
    BY <1>4, <1>5, <2>1 DEF Sent
<1> QED
  BY <1>5, <1>6, <1>7, <1>8, <1>10, <1>11, <1>12, <1>13, StepInv

\* The directory that is exported has an inode for each path in it, and no other.
LEMMA AtIsBijection ==
  /\ Cardinality(DOMAIN Tree) \in Nat
  /\ \A i \in 1..Cardinality(DOMAIN Tree) : At(i) \in DOMAIN Tree
  /\ \A p \in DOMAIN Tree : \E i \in 1..Cardinality(DOMAIN Tree) : At(i) = p
<1> DEFINE S == DOMAIN Tree
           n == Cardinality(S)
           f == SetToSeq(S)
<1>1. IsFiniteSet(S)
  BY FilesAssumption
<1> HIDE DEF S
<1>2. n \in Nat /\ ExistsBijection(1..n, S)
  BY <1>1, FS_CardinalityType
<1> HIDE DEF n
<1>3. \E g \in [1..n -> S] : IsInjective(g)
  BY <1>2 DEF ExistsBijection, Bijection, Injection
<1>4. f \in [1..n -> S] /\ IsInjective(f)
  BY <1>3 DEF SetToSeq, n
<1>5. f \in Injection(1..n, S)
  BY <1>4 DEF Injection
<1>6. Cardinality(1..n) = n
  BY <1>2, FS_Interval
<1> HIDE DEF f
<1>7. f \in Surjection(1..n, S)
  BY <1>1, <1>5, <1>6, FS_Injection DEF n
<1> QED
  BY <1>2, <1>4, <1>7 DEF At, Surjection, S, n, f

\* At first the tree is the one that is exported, and nobody asks for anything.
LEMMA InitInv ==
  ASSUME Init
  PROVE  FilesInv
<1> DEFINE n == Cardinality(DOMAIN Tree)
           ino(i) == [dir |-> Tree[At(i)].dir, exec |-> Tree[At(i)].dir,
                      blocks |-> [b \in 1..Tree[At(i)].size |-> <<i, b>>]]
<1>1. /\ inodes = [i \in 1..n |-> ino(i)]
      /\ fs = [p \in Paths |-> IF p \in DOMAIN Tree THEN CHOOSE i \in 1..n : At(i) = p ELSE Missing]
      /\ otherDevice \in BOOLEAN
      /\ pc = [t \in Threads |-> "idle"] /\ req = [t \in Threads |-> NoRequest]
      /\ op = [t \in Threads |-> NoOp] /\ answer = [t \in Threads |-> NoAnswer]
      /\ left = MaxRequests /\ before = [t \in Threads |-> Missing]
      /\ disturbed = [t \in Threads |-> FALSE] /\ shortened = FALSE
  BY DEF Init
<1>2. /\ n \in Nat /\ (\A i \in 1..n : At(i) \in DOMAIN Tree)
      /\ \A p \in DOMAIN Tree : \E i \in 1..n : At(i) = p
  BY AtIsBijection
<1> HIDE DEF n
<1>3. ASSUME NEW i \in 1..n
      PROVE  ino(i) \in Inode /\ Len(ino(i).blocks) < W /\ ino(i).dir = Tree[At(i)].dir
  <2> DEFINE m == Tree[At(i)].size
             all == [b \in 1..m |-> <<i, b>>]
  <2>1. Tree[At(i)].dir \in BOOLEAN /\ m \in 0..W-1 /\ i \in Nat
    BY <1>2, <1>3, FilesAssumption
  <2>2. m \in Nat /\ m < W
    BY <2>1, WNat
  <2> HIDE DEF m
  <2>3. \A b \in 1..m : <<i, b>> \in Block
    BY <2>1, <2>2 DEF Block
  <2>4. all \in Seq(Block) /\ Len(all) = m
    BY <2>2, <2>3
  <2> HIDE DEF all
  <2>5. ino(i) = [dir |-> Tree[At(i)].dir, exec |-> Tree[At(i)].dir, blocks |-> all]
    BY DEF all, m
  <2> HIDE DEF ino
  <2> QED
    BY <2>1, <2>2, <2>4, <2>5 DEF Inode
<1> HIDE DEF ino
<1>4. inodes \in Seq(Inode) /\ DOMAIN inodes = 1..n /\ \A i \in 1..n : inodes[i] = ino(i)
  <2>1. DOMAIN inodes = 1..n /\ \A i \in 1..n : inodes[i] = ino(i)
    BY <1>1
  <2>2. inodes \in [1..n -> Inode]
    BY <1>1, <1>3
  <2> QED
    BY <1>2, <2>1, <2>2
<1>5. \A p \in Paths : IF p \in DOMAIN Tree THEN fs[p] \in 1..n /\ At(fs[p]) = p ELSE fs[p] = Missing
  BY <1>1, <1>2
<1>6. Missing \notin 1..n
  BY <1>2, FilesAssumption
<1>7. \A p \in Paths : There(p) <=> p \in DOMAIN Tree
  BY <1>5, <1>6 DEF There
<1>8. Types
  <2>1. NoOp \in Ops
    BY DEF NoOp, Ops
  <2>2. NoAnswer \in AnAnswer
    <3>1. <<>> \in Seq(Block)
      OBVIOUS
    <3> QED
      BY <3>1 DEF NoAnswer, AnAnswer
  <2>3. "idle" \in Places
    BY DEF Places
  <2>4. fs \in [Paths -> DOMAIN inodes \union {Missing}]
    BY <1>1, <1>4, <1>5
  <2>5. \A i \in DOMAIN inodes : Len(inodes[i].blocks) < W
    BY <1>3, <1>4
  <2>6. left \in Nat
    BY <1>1, FilesAssumption
  <2> QED
    BY <1>1, <1>4, <2>1, <2>2, <2>3, <2>4, <2>5, <2>6 DEF Types
<1>9. Rooted
  <2>1. \A p, q \in Paths : There(p) /\ fs[p] = fs[q] => p = q
    BY <1>5, <1>6, <1>7
  <2>2. ASSUME NEW p \in Paths, There(p), p # <<>>
        PROVE  IsDir(Parent(p))
    <3>1. Front(p) \in DOMAIN Tree /\ Tree[Front(p)].dir /\ Front(p) \in Paths
      BY <1>7, <2>2, FilesAssumption
    <3>2. fs[Front(p)] \in 1..n /\ At(fs[Front(p)]) = Front(p)
      BY <1>5, <3>1
    <3>3. inodes[fs[Front(p)]].dir
      BY <1>3, <1>4, <3>1, <3>2
    <3> QED
      BY <1>7, <3>1, <3>3 DEF IsDir, Parent
  <2> QED
    BY <2>1, <2>2 DEF Rooted
<1>10. NoRequest.method = "none"
  BY DEF NoRequest
<1>11. ASSUME NEW t \in Threads
       PROVE  Uploaded(t) /\ Targeted(t) /\ Placed(t) /\ Sent(t)
  <2>1. /\ pc[t] = "idle" /\ req[t] = NoRequest /\ op[t] = NoOp /\ answer[t] = NoAnswer /\ before[t] = Missing
    BY <1>1
  <2>2. NoOp.dest = Missing /\ NoOp.fds = {} /\ NoOp.tr = 0 /\ NoOp.length = 0
    BY DEF NoOp
  <2>3. Len(NoAnswer.body) <= NoAnswer.length
    BY DEF NoAnswer
  <2>4. Uploaded(t) /\ Targeted(t)
    BY <1>10, <2>1, <2>2 DEF Uploaded, Targeted
  <2>5. Placed(t)
    BY <2>1, <2>2 DEF Placed, Sending, Listing, Calls
  <2>6. Sent(t)
    BY <2>1, <2>2, <2>3 DEF Sent
  <2> QED
    BY <2>4, <2>5, <2>6
<1>12. \A t \in Threads : pc[t] = "idle"
  BY <1>1
<1> QED
  BY <1>8, <1>9, <1>11, <1>12 DEF FilesInv

\* Every step keeps the invariant.
LEMMA NextInv ==
  ASSUME FilesInv, [Next]_vars
  PROVE  FilesInv'
<1>1. CASE UNCHANGED vars
  <2>1. UNCHANGED <<fs, inodes, otherDevice, pc, req, op, answer, left, before, disturbed, shortened>>
    BY <1>1 DEF vars
  <2>2. Types' /\ Rooted'
    BY <2>1 DEF FilesInv, Types, Rooted, There, IsDir
  <2>3. \A t \in Threads : Uploaded(t)' /\ Targeted(t)' /\ Placed(t)' /\ Sent(t)'
    BY <2>1 DEF FilesInv, Uploaded, Targeted, Placed, Sent, IsGet
  <2>4. ASSUME NEW t \in Threads, pc'[t] # "idle", ~disturbed'[t]
        PROVE  Knows(t)'
    <3>1. Knows(t)
      BY <2>1, <2>4 DEF FilesInv
    <3>2. /\ \A q : There(q)' = There(q) /\ IsDir(q)' = IsDir(q)
                    /\ Holds(q)' = Holds(q) /\ Children(q)' = Children(q)
      BY <2>1 DEF There, IsDir, Holds, Children
    <3>3. /\ File(t)' = File(t) /\ Within(t)' = Within(t) /\ First(t)' = First(t) /\ Final(t)' = Final(t)
          /\ IsGet(t)' = IsGet(t) /\ Itself(t)' = Itself(t)
      BY <2>1 DEF File, Within, First, Final, IsGet, Itself
    <3>4. Reads(t)' /\ Copies(t)' /\ Finds(t)'
      BY <2>1, <3>1, <3>2, <3>3 DEF Knows, Reads, Copies, Finds
    <3>5. \A S : LinesOf(t, S)' = LinesOf(t, S)
      BY <2>1, <3>2 DEF LinesOf, Line
    <3>6. Lists(t)'
      BY <2>1, <3>1, <3>2, <3>3, <3>5 DEF Knows, Lists
    <3>7. Effect(t)' = Effect(t)
      <4> DEFINE p == req[t].path
                 S == {p} \union (IF req[t].depth > 0 THEN Children(p) ELSE {})
      <4>1. req' = req /\ answer' = answer /\ pc' = pc /\ before' = before /\ op' = op
        BY <2>1
      <4>2. S' = S /\ Children(p)' = Children(p) /\ p' = p
        BY <3>2, <4>1
      <4>3. {<<q, IsDir(q)>> : q \in S}' = {<<q, IsDir(q)>> : q \in S}
        BY <3>2, <4>2
      <4>4. {[path |-> q, dir |-> IsDir(q)] : q \in Children(p)}' = {[path |-> q, dir |-> IsDir(q)] : q \in Children(p)}
        BY <3>2, <4>2
      <4>5. Multistatus(t)' = Multistatus(t)
        BY <4>1, <4>3 DEF Multistatus
      <4>6. Page(t)' = Page(t)
        BY <4>1, <4>4 DEF Page
      <4> QED
        BY <2>1, <3>2, <4>1, <4>5, <4>6 DEF Effect
    <3> QED
      BY <2>1, <3>1, <3>2, <3>4, <3>6, <3>7 DEF Knows
  <2> QED
    BY <2>2, <2>3, <2>4 DEF FilesInv
<1>2. ASSUME NEW t \in Threads, Handle(t) \/ Arrive(t) \/ Leave(t) \/ LoopBroken(t) \/ SendfileBroken(t) \/ PutFails(t)
      PROVE  FilesInv'
  <2>1. CASE Export(t)     BY <2>1, ExportInv
  <2>2. CASE Check(t)      BY <2>2, CheckInv
  <2>3. CASE Open(t)       BY <2>3, OpenInv
  <2>4. CASE Stat(t)       BY <2>4, StatInv
  <2>5. CASE Loop(t)       BY <2>5, LoopInv
  <2>6. CASE LoopLast(t)   BY <2>6, LoopLastInv
  <2>7. CASE Sendfile(t)   BY <2>7, SendfileInv
  <2>8. CASE Close(t)      BY <2>8, CloseInv
  <2>9. CASE Propfind(t)   BY <2>9, PropfindInv
  <2>10. CASE Opendir(t)   BY <2>10, OpendirInv
  <2>11. CASE Readdir(t)   BY <2>11, ReaddirInv
  <2>12. CASE Closedir(t)  BY <2>12, ClosedirInv
  <2>13. CASE Listed(t)    BY <2>13, ListedInv
  <2>14. CASE Delete(t)    BY <2>14, DeleteInv
  <2>15. CASE Mkcol(t)     BY <2>15, MkcolInv
  <2>16. CASE Move(t)      BY <2>16, MoveInv
  <2>17. CASE PatchStat(t)  BY <2>17, PatchStatInv
  <2>18. CASE PatchChmod(t) BY <2>18, PatchChmodInv
  <2>19. CASE Put(t)       BY <2>19, PutInv
  <2>20. CASE PutCreate(t) BY <2>20, PutCreateInv
  <2>21. CASE PutCopy(t)   BY <2>21, PutCopyInv
  <2>22. CASE PutEnd(t) \/ PutFails(t)  BY <2>22, PutEndInv
  <2>23. CASE Arrive(t)    BY <2>23, ArriveInv
  <2>24. CASE Leave(t)     BY <2>24, LeaveInv
  <2>25. CASE LoopBroken(t) BY <2>25, LoopBrokenInv
  <2>26. CASE SendfileBroken(t) BY <2>26, SendfileBrokenInv
  <2> QED
    BY <1>2, <2>1, <2>2, <2>3, <2>4, <2>5, <2>6, <2>7, <2>8, <2>9, <2>10, <2>11, <2>12, <2>13, <2>14,
       <2>15, <2>16, <2>17, <2>18, <2>19, <2>20, <2>21, <2>22, <2>23, <2>24, <2>25, <2>26 DEF Handle
<1> QED
  BY <1>1, <1>2 DEF Next

\* So nothing a request has been told is wrong, as long as no other one changes its path.
THEOREM FilesInvHolds == Spec => []FilesInv
<1>1. Init => FilesInv
  BY InitInv
<1>2. FilesInv /\ [Next]_vars => FilesInv'
  BY NextInv
<1> QED
  BY <1>1, <1>2, PTL DEF Spec

\* A file that nobody changes is sent as it is, the range that was asked for and nothing else,
\* unless the client goes; and a response has no more than the Content-Length it announced, however
\* the file changes while it is sent, unless sendfile found less and the page of an error followed
\* (onion_shortcut_response_file, onion_request_process).
THEOREM FilesGetsTheFile == Spec => []GetsTheFile
<1>1. FilesInv => GetsTheFile
  <2> SUFFICES ASSUME FilesInv
               PROVE  GetsTheFile
    OBVIOUS
  <2>1. TypeOK
    <3>1. Types /\ Rooted /\ \A t \in Threads : Placed(t) /\ Sent(t)
      BY DEF FilesInv
    <3>2. \A p \in Paths : There(p) => fs[p] \in DOMAIN inodes /\ (p # <<>> => IsDir(Parent(p)))
      BY <3>1 DEF Types, Rooted, There
    <3>3. \A t \in Threads : op[t].tr <= op[t].length \/ req[t].method = "PUT"
      BY <3>1 DEF Sent
    <3>4. \A t \in Threads : pc[t] = "idle" => answer[t] = NoAnswer /\ before[t] = Missing
      BY <3>1 DEF Placed
    <3> QED
      BY <3>2, <3>3, <3>4 DEF TypeOK
  <2>2. ASSUME NEW t \in Threads, Done(t), IsGet(t)
        PROVE  LET a == answer[t]
                   file == before[t]
               IN /\ a.failed \/ Len(a.body) <= a.length
                  /\ Alone(t) /\ a.code \in {200, 206} /\ req[t].method = "GET" /\ ~a.broken /\ file # Missing
                       /\ ~file.dir /\ WithinFile(Len(file.blocks), req[t].range) =>
                         a.body = SubSeq(file.blocks, First(t), Final(t)) /\ a.length = Len(a.body)
                  /\ Alone(t) => (a.code \in {403, 404}) = (file = Missing \/ (file.dir /\ req[t].via = "webdav"))
    <3>1. Sent(t) /\ (~disturbed[t] => Finds(t))
      BY <2>2 DEF FilesInv, Knows, Done
    <3>2. answer[t].failed \/ Len(answer[t].body) <= answer[t].length
      BY <3>1 DEF Sent
    <3>3. ASSUME Alone(t)
          PROVE  /\ answer[t].code \in {200, 206} /\ req[t].method = "GET" /\ ~answer[t].broken /\ File(t) /\ Within(t) =>
                      /\ answer[t].body = SubSeq(before[t].blocks, First(t), Final(t))
                      /\ answer[t].length = Len(answer[t].body)
                 /\ answer[t].code \in {403, 404} <=> (before[t] = Missing \/ (before[t].dir /\ req[t].via = "webdav"))
      BY <2>2, <3>1, <3>3 DEF Alone, Done, Finds
    <3> QED
      BY <3>2, <3>3 DEF File, Within
  <2> QED
    BY <2>1, <2>2 DEF GetsTheFile
<1> QED
  BY <1>1, FilesInvHolds, PTL

\* What an answer says of an upload, a deletion, a new directory, a listing or a property that is
\* set is so, as long as no other request changed the same path meanwhile and no write fell short;
\* all other answers change nothing, among them the 201 of a MOVE and the 200 of a PROPPATCH for a
\* path that is not there; and no descriptor is left open, whatever fails (onion_webdav_handler,
\* onion_handler_export_local_handler, onion_shortcut_rename).
THEOREM FilesEffectDone == Spec => []EffectDone
<1>1. FilesInv => EffectDone
  <2> SUFFICES ASSUME FilesInv
               PROVE  EffectDone
    OBVIOUS
  <2>1. ASSUME NEW t \in Threads, pc[t] \in {"done", "idle"}
        PROVE  op[t].fds = {}
    BY <2>1 DEF FilesInv, Placed, Sending
  <2>2. ASSUME NEW t \in Threads, Alone(t)
        PROVE  Effect(t)
    BY <2>2 DEF FilesInv, Alone, Done, Knows
  <2> QED
    BY <2>1, <2>2 DEF EffectDone, DescriptorsClosed
<1> QED
  BY <1>1, FilesInvHolds, PTL
==========================================================================
