------------------------ MODULE MeshNodeTable_proof ------------------------
(***************************************************************************)
(* Proofs about the neighbour table of MeshLoRaLite, for any size of the   *)
(* table, any timeouts and any number of wraps of millis().                *)
(*                                                                         *)
(* The invariant relates the stored, wrapped times to the true ones: there *)
(* is a true time of the last prune, at most a period and a tick ago, and  *)
(* no entry was older than the timeout then.  All ages are therefore less  *)
(* than a wrap, and the differences of uint32_t that the code computes are *)
(* the true ages.                                                          *)
(*                                                                         *)
(* What pruneNodes() computes is shown by induction on the loop.  The      *)
(* induction takes the least number of passes for which the claim fails.   *)
(***************************************************************************)
EXTENDS MeshNodeTable, WellFoundedInduction, TLAPS

NodeEntry == [id : Id, lastSeen : 0 .. ClockMod - 1]

\* lp is the true time of the last prune.
PrunedAt(lp) ==
    /\ lastPrune = lp % ClockMod
    /\ time - lp <= PruneEvery + 1
    /\ \A k \in DOMAIN nodes : /\ nodes[k].lastSeen = heard[nodes[k].id] % ClockMod
                               /\ heard[nodes[k].id] >= 0
                               /\ lp - heard[nodes[k].id] <= NodeTimeout

TimeOK == /\ \A id \in Id : heard[id] <= time
          /\ \E lp \in 0 .. time : PrunedAt(lp)

Inv == TypeOK /\ NoDuplicates /\ TimeOK

-----------------------------------------------------------------------------
(* Arithmetic of the clock                                                 *)

\* A nonempty set of natural numbers has a least element.
LEMMA LeastNat ==
  ASSUME NEW T, T \subseteq Nat, T # {}
  PROVE  \E x \in T : \A y \in T : x <= y
  <1> DEFINE R == OpToRel(<, Nat)
  <1>1. IsWellFoundedOn(R, Nat)
    BY NatLessThanWellFounded, Zenon
  <1>2. \A x, y \in Nat : y < x => <<y, x>> \in R
    BY DEF OpToRel
  <1> HIDE DEF R
  <1>3. PICK x \in T : \A y \in T : ~ (<<y, x>> \in R)
    BY <1>1, WFMin
  <1>4. \A y \in T : ~ (y < x)
    BY <1>2, <1>3
  <1> QED
    BY <1>4

\* A number is a multiple of M and a remainder.
LEMMA Quotient ==
  ASSUME NEW M \in Nat \ {0}, NEW a \in Int
  PROVE  \E q \in Int : a = M * q + (a % M) /\ a % M \in 0 .. M - 1
  <1>1. a \div M \in Int /\ a = M * (a \div M) + (a % M) /\ a % M \in 0 .. M - 1
    OBVIOUS
  <1> QED
    BY <1>1

\* A remainder is determined by the number.
LEMMA Remainder ==
  ASSUME NEW M \in Nat \ {0}, NEW q \in Int, NEW s \in 0 .. M - 1, NEW a \in Int,
         a = M * q + s
  PROVE  a % M = s
  <1>1. PICK u \in Int : a = M * u + (a % M) /\ a % M \in 0 .. M - 1
    BY Quotient
  <1> DEFINE r == a % M
  <1> DEFINE d == q - u
  <1>2. M * d = M * q - M * u
    BY <1>1
  <1>3. a = M * u + r /\ r \in 0 .. M - 1
    BY <1>1
  <1> HIDE DEF r
  <1>4. M * d = r - s /\ d \in Int
    BY <1>1, <1>2, <1>3
  <1> HIDE DEF d
  <1>5. (d >= 1 => M * d >= M) /\ (d <= -1 => M * d <= -M)
    BY <1>4
  <1>6. d = 0
    BY <1>3, <1>4, <1>5
  <1>7. r = s
    BY <1>3, <1>4, <1>6
  <1> QED
    BY <1>7 DEF r

\* The difference of two wrapped times is the true one if that is less than
\* one wrap.
LEMMA WrappedDifference ==
  ASSUME NEW M \in Nat \ {0}, NEW a \in Int, NEW b \in Int, a - b \in 0 .. M - 1
  PROVE  ((a % M) - (b % M)) % M = a - b
  <1>1. PICK q \in Int : a = M * q + (a % M) /\ a % M \in 0 .. M - 1
    BY Quotient
  <1>2. PICK u \in Int : b = M * u + (b % M) /\ b % M \in 0 .. M - 1
    BY Quotient
  <1> DEFINE r == a % M
  <1> DEFINE s == b % M
  <1> DEFINE d == u - q
  <1>3. a = M * q + r /\ b = M * u + s /\ r \in Int /\ s \in Int
    BY <1>1, <1>2
  <1> HIDE DEF r, s
  <1>4. M * d = M * u - M * q /\ d \in Int
    BY <1>1, <1>2
  <1> HIDE DEF d
  <1>5. r - s = M * d + (a - b) /\ r - s \in Int
    BY <1>1, <1>2, <1>3, <1>4
  <1>6. (r - s) % M = a - b
    <2> DEFINE e == r - s
    <2> DEFINE f == a - b
    <2>1. e \in Int /\ f \in 0 .. M - 1 /\ e = M * d + f
      BY <1>5
    <2> HIDE DEF e, f
    <2>2. e % M = f
      BY <1>4, <2>1, Remainder
    <2> QED
      BY <2>2 DEF e, f
  <1> QED
    BY <1>6 DEF r, s

\* The wrap is longer than any age.
LEMMA Clock == ClockMod \in Nat \ {0} /\ NodeTimeout \in Nat /\ PruneEvery \in Nat
               /\ NodeTimeout + PruneEvery + 2 < ClockMod
  BY TableAssumption

\* What the code computes as the age of a stored time.
LEMMA ElapsedIs ==
  ASSUME NEW t \in Int, time \in Int, time - t \in 0 .. ClockMod - 1
  PROVE  Elapsed(t % ClockMod) = time - t
  BY WrappedDifference, Clock DEF Elapsed, millis

\* millis() is in its width.
LEMMA MillisType == time \in Int => millis \in 0 .. ClockMod - 1
  <1> SUFFICES ASSUME time \in Int PROVE time % ClockMod \in 0 .. ClockMod - 1
    BY DEF millis
  <1> QED
    BY Clock, Quotient

-----------------------------------------------------------------------------
(* pruneNodes()                                                            *)

Fresh(e) == ~ (Elapsed(e.lastSeen) > NodeTimeout)

\* One pass of the loop.
Pass(t, k) == IF Elapsed(t[k].lastSeen) > NodeTimeout THEN DropAt(t, k) ELSE t

\* w is the table at each pass, from k on.
IsWalk(w, k, tab) ==
    w = [j \in k .. Len(tab) + 1 |-> IF j = Len(tab) + 1 THEN tab
                                     ELSE Pass(w[j + 1], j)]

\* The entry at k is overwritten by the last one, which goes.
LEMMA DropAtIs ==
  ASSUME NEW S, NEW t \in Seq(S), NEW k \in 1 .. Len(t)
  PROVE  /\ DropAt(t, k) \in Seq(S)
         /\ Len(DropAt(t, k)) = Len(t) - 1
         /\ \A i \in 1 .. Len(t) - 1 :
               DropAt(t, k)[i] = IF i = k THEN t[Len(t)] ELSE t[i]
  <1> DEFINE n == Len(t)
  <1> DEFINE u == [t EXCEPT ![k] = t[n]]
  <1>1. n \in Nat /\ n >= 1 /\ k \in 1 .. n /\ t[n] \in S
    OBVIOUS
  <1>2. /\ u \in Seq(S) /\ Len(u) = n
        /\ \A i \in 1 .. n : u[i] = IF i = k THEN t[n] ELSE t[i]
    BY <1>1
  <1>3. DropAt(t, k) = SubSeq(u, 1, n - 1)
    BY <1>2 DEF DropAt, Front, Last
  <1> HIDE DEF u
  <1>4. /\ SubSeq(u, 1, n - 1) \in Seq(S) /\ Len(SubSeq(u, 1, n - 1)) = n - 1
        /\ \A i \in 1 .. n - 1 : SubSeq(u, 1, n - 1)[i] = u[i]
    BY <1>1, <1>2
  <1> QED
    BY <1>1, <1>2, <1>3, <1>4

\* The recursive definition has a solution: the loop can be unrolled.
LEMMA WalkExists ==
  ASSUME NEW S, NEW tab \in Seq(S)
  PROVE  \E w : IsWalk(w, 1, tab)
  <1> DEFINE N == Len(tab)
  <1> DEFINE T == {m \in 0 .. N : ~ \E w : IsWalk(w, N + 1 - m, tab)}
  <1>0. N \in Nat
    OBVIOUS
  <1>1. SUFFICES ASSUME T # {} PROVE FALSE
    <2>1. N \in 0 .. N /\ N + 1 - N = 1
      BY <1>0
    <2> QED
      BY <1>1, <2>1
  <1>2. PICK x \in T : \A y \in T : x <= y
    <2>1. T \subseteq Nat
      BY <1>0
    <2> HIDE DEF T
    <2> QED
      BY <1>1, <2>1, LeastNat
  <1>3. x # 0
    <2> DEFINE w == [j \in N + 1 .. N + 1 |-> tab]
    <2>1. IsWalk(w, N + 1 - 0, tab)
      BY <1>0 DEF IsWalk
    <2> QED
      BY <1>2, <2>1
  <1>4. x - 1 \in 0 .. N /\ x - 1 \notin T /\ x \in 1 .. N
    BY <1>0, <1>2, <1>3
  <1> DEFINE k == N + 1 - x
  <1>5. PICK w : IsWalk(w, N + 1 - (x - 1), tab)
    BY <1>4
  <1>6. N + 1 - (x - 1) = k + 1 /\ k \in 1 .. N
    BY <1>0, <1>4
  <1>7. \A j \in k + 1 .. N + 1 : w[j] = IF j = N + 1 THEN tab
                                         ELSE Pass(w[j + 1], j)
    BY <1>5, <1>6 DEF IsWalk
  <1> DEFINE v == [j \in k .. N + 1 |-> IF j = k THEN Pass(w[k + 1], k) ELSE w[j]]
  <1> HIDE DEF N, k
  <1>8. v = [j \in k .. N + 1 |-> IF j = N + 1 THEN tab ELSE Pass(v[j + 1], j)]
    <2>1. ASSUME NEW j \in k .. N + 1
          PROVE  (IF j = k THEN Pass(w[k + 1], k) ELSE w[j])
                   = IF j = N + 1 THEN tab ELSE Pass(v[j + 1], j)
      <3>1. CASE j = k
        <4>1. v[k + 1] = w[k + 1] /\ k # N + 1
          BY <1>0, <1>6
        <4> QED
          BY <3>1, <4>1
      <3>2. CASE j # k /\ j # N + 1
        <4>1. j \in k + 1 .. N + 1 /\ v[j + 1] = w[j + 1]
          BY <1>0, <1>6, <3>2
        <4> QED
          BY <1>7, <3>2, <4>1
      <3>3. CASE j # k /\ j = N + 1
        <4>1. j \in k + 1 .. N + 1
          BY <1>0, <1>6, <3>3
        <4> QED
          BY <1>7, <3>3, <4>1
      <3> QED
        BY <3>1, <3>2, <3>3
    <2> QED
      BY <2>1
  <1>9. IsWalk(v, N + 1 - x, tab)
    BY <1>8 DEF IsWalk, N, k
  <1> QED
    BY <1>2, <1>9

\* pruneNodes() is the end of such a walk.
LEMMA PruneIsWalk ==
  ASSUME NEW S, NEW tab \in Seq(S)
  PROVE  \E w : IsWalk(w, 1, tab) /\ pruneNodes(tab) = w[1]
  <1>1. PICK v : IsWalk(v, 1, tab)
    BY WalkExists
  <1>2. v = [k \in 1 .. Len(tab) + 1 |->
               IF k = Len(tab) + 1 THEN tab
               ELSE LET t == v[k + 1]
                    IN  IF Elapsed(t[k].lastSeen) > NodeTimeout
                          THEN DropAt(t, k) ELSE t]
    BY <1>1 DEF IsWalk, Pass
  <1>3. \E w : /\ w = [k \in 1 .. Len(tab) + 1 |->
                         IF k = Len(tab) + 1 THEN tab
                         ELSE LET t == w[k + 1]
                              IN  IF Elapsed(t[k].lastSeen) > NodeTimeout
                                    THEN DropAt(t, k) ELSE t]
               /\ pruneNodes(tab) = w[1]
    BY <1>2 DEF pruneNodes
  <1> QED
    BY <1>3 DEF IsWalk, Pass

\* t is what the passes down to k have made of tab: the entries before k are
\* untouched, the others are fresh, none is there twice, all come from tab,
\* and no fresh entry of tab is missing.
Passed(t, k, tab) ==
    /\ t \in Seq(NodeEntry)
    /\ k - 1 <= Len(t) /\ Len(t) <= Len(tab)
    /\ \A j \in 1 .. k - 1 : t[j] = tab[j]
    /\ \A j \in k .. Len(t) : Fresh(t[j])
    /\ \A i, j \in 1 .. Len(t) : t[i].id = t[j].id => i = j
    /\ \A i \in 1 .. Len(t) : \E j \in 1 .. Len(tab) : t[i] = tab[j]
    /\ \A j \in 1 .. Len(tab) : Fresh(tab[j]) =>
          \E i \in 1 .. Len(t) : t[i] = tab[j]

\* A pass of the loop of pruneNodes() extends what was passed by one entry.
LEMMA PassStep ==
  ASSUME NEW tab \in Seq(NodeEntry), NEW k \in 1 .. Len(tab), NEW t,
         Passed(t, k + 1, tab)
  PROVE  Passed(Pass(t, k), k, tab)
  <1> DEFINE n == Len(t)
  <1> DEFINE N == Len(tab)
  <1>0. /\ N \in Nat /\ n \in Nat /\ k \in 1 .. N /\ k \in 1 .. n /\ n <= N
        /\ t \in Seq(NodeEntry)
    BY DEF Passed
  <1>1. /\ \A j \in 1 .. k : t[j] = tab[j]
        /\ \A j \in k + 1 .. n : Fresh(t[j])
        /\ \A i, j \in 1 .. n : t[i].id = t[j].id => i = j
        /\ \A i \in 1 .. n : \E j \in 1 .. N : t[i] = tab[j]
        /\ \A j \in 1 .. N : Fresh(tab[j]) => \E i \in 1 .. n : t[i] = tab[j]
    BY <1>0 DEF Passed
  <1>2. CASE Fresh(t[k])
    <2>1. Pass(t, k) = t
      BY <1>2 DEF Pass, Fresh
    <2>2. \A j \in k .. n : Fresh(t[j])
      <3> HIDE DEF n, N
      <3> SUFFICES ASSUME NEW j \in k .. n PROVE Fresh(t[j])
        OBVIOUS
      <3>1. j = k \/ j \in k + 1 .. n
        BY <1>0
      <3> QED
        BY <1>1, <1>2, <3>1
    <2> QED
      BY <1>0, <1>1, <2>1, <2>2 DEF Passed
  <1>3. CASE ~ Fresh(t[k])
    <2> DEFINE u == Pass(t, k)
    <2>1. u = DropAt(t, k)
      BY <1>3 DEF Pass, Fresh
    <2> HIDE DEF u
    <2>2. /\ u \in Seq(NodeEntry) /\ Len(u) = n - 1
          /\ \A i \in 1 .. n - 1 : u[i] = IF i = k THEN t[n] ELSE t[i]
      BY <1>0, <2>1, DropAtIs
    <2> HIDE DEF u, n, N
    <2>3. k - 1 <= Len(u) /\ Len(u) <= N
      BY <1>0, <2>2
    <2>4. \A j \in 1 .. k - 1 : u[j] = tab[j]
      BY <1>0, <1>1, <2>2
    <2>5. \A j \in k .. n - 1 : Fresh(u[j])
      <3> SUFFICES ASSUME NEW j \in k .. n - 1 PROVE Fresh(u[j])
        OBVIOUS
      <3>1. CASE j = k
        <4>1. n \in k + 1 .. n /\ u[j] = t[n]
          BY <1>0, <2>2, <3>1
        <4> QED
          BY <1>1, <4>1
      <3>2. CASE j # k
        <4>1. j \in k + 1 .. n /\ u[j] = t[j]
          BY <1>0, <2>2, <3>2
        <4> QED
          BY <1>1, <4>1
      <3> QED
        BY <3>1, <3>2
    <2>6. \A i, j \in 1 .. n - 1 : u[i].id = u[j].id => i = j
      <3> DEFINE g(i) == IF i = k THEN n ELSE i
      <3>1. \A i \in 1 .. n - 1 : u[i] = t[g(i)] /\ g(i) \in 1 .. n
        BY <1>0, <2>2
      <3>2. \A i, j \in 1 .. n - 1 : g(i) = g(j) => i = j
        BY <1>0
      <3> HIDE DEF g
      <3> QED
        BY <1>1, <3>1, <3>2
    <2>7. \A i \in 1 .. n - 1 : \E j \in 1 .. N : u[i] = tab[j]
      BY <1>0, <1>1, <2>2
    <2>8. \A j \in 1 .. N : Fresh(tab[j]) => \E i \in 1 .. n - 1 : u[i] = tab[j]
      <3> SUFFICES ASSUME NEW j \in 1 .. N, Fresh(tab[j])
                   PROVE  \E i \in 1 .. n - 1 : u[i] = tab[j]
        OBVIOUS
      <3>1. PICK i \in 1 .. n : t[i] = tab[j]
        BY <1>1
      <3>2. i # k
        BY <1>3, <3>1
      <3>3. CASE i = n
        <4>1. k \in 1 .. n - 1 /\ u[k] = t[n]
          BY <1>0, <2>2, <3>2, <3>3
        <4> QED
          BY <3>1, <3>3, <4>1
      <3>4. CASE i # n
        <4>1. i \in 1 .. n - 1 /\ u[i] = t[i]
          BY <1>0, <2>2, <3>2, <3>4
        <4> QED
          BY <3>1, <4>1
      <3> QED
        BY <3>3, <3>4
    <2>9. Passed(u, k, tab)
      BY <2>2, <2>3, <2>4, <2>5, <2>6, <2>7, <2>8 DEF Passed, N
    <2> QED
      BY <2>9 DEF u
  <1> QED
    BY <1>2, <1>3

\* What pruneNodes() makes of a table without duplicates.
LEMMA PruneIs ==
  ASSUME NEW tab \in Seq(NodeEntry),
         \A i, j \in 1 .. Len(tab) : tab[i].id = tab[j].id => i = j
  PROVE  Passed(pruneNodes(tab), 1, tab)
  <1> DEFINE N == Len(tab)
  <1>0. N \in Nat
    OBVIOUS
  <1>1. PICK w : IsWalk(w, 1, tab) /\ pruneNodes(tab) = w[1]
    BY PruneIsWalk
  <1>2. \A j \in 1 .. N + 1 : w[j] = IF j = N + 1 THEN tab ELSE Pass(w[j + 1], j)
    BY <1>1 DEF IsWalk
  <1> DEFINE T == {m \in 0 .. N : ~ Passed(w[N + 1 - m], N + 1 - m, tab)}
  <1>3. SUFFICES ASSUME T # {} PROVE FALSE
    <2>1. N \in 0 .. N /\ N + 1 - N = 1
      BY <1>0
    <2> QED
      BY <1>1, <1>3, <2>1
  <1>4. PICK x \in T : \A y \in T : x <= y
    <2>1. T \subseteq Nat
      BY <1>0
    <2> HIDE DEF T
    <2> QED
      BY <1>3, <2>1, LeastNat
  <1>5. x # 0
    <2>1. w[N + 1] = tab /\ N + 1 - 0 = N + 1
      BY <1>0, <1>2
    <2>2. Passed(tab, N + 1, tab)
      BY <1>0 DEF Passed
    <2> QED
      BY <1>4, <2>1, <2>2
  <1> DEFINE k == N + 1 - x
  <1>a. x \in 1 .. N
    BY <1>0, <1>4, <1>5
  <1>b. x - 1 \notin T
    <2>1. x - 1 \in Int /\ ~ (x <= x - 1)
      BY <1>a
    <2> QED
      BY <1>4, <2>1
  <1>6. x - 1 \in 0 .. N /\ x - 1 \notin T /\ N + 1 - (x - 1) = k + 1
        /\ k \in 1 .. N /\ k # N + 1
    BY <1>0, <1>a, <1>b
  <1>7. Passed(w[k + 1], k + 1, tab)
    BY <1>6
  <1>8. w[k] = Pass(w[k + 1], k)
    BY <1>0, <1>2, <1>6
  <1>9. Passed(w[k], k, tab)
    BY <1>6, <1>7, <1>8, PassStep
  <1> QED
    BY <1>4, <1>9

-----------------------------------------------------------------------------
(* The steps                                                               *)

\* What updateNode() makes of the table: entries of other nodes are kept.
LEMMA UpdateIs ==
  ASSUME TypeOK, NoDuplicates, NEW id \in Id, NEW t, t = updateNode(nodes, id)
  PROVE  /\ t \in Seq(NodeEntry) /\ Len(t) <= NodeTableSize
         /\ \A j, k \in 1 .. Len(t) : t[j].id = t[k].id => j = k
         /\ \A k \in 1 .. Len(t) :
               \/ t[k] = Entry(id)
               \/ k \in 1 .. Len(nodes) /\ t[k] = nodes[k] /\ nodes[k].id # id
  <1> DEFINE n == Len(nodes)
  <1>1. /\ nodes \in Seq(NodeEntry) /\ n <= NodeTableSize /\ n \in Nat
        /\ DOMAIN nodes = 1 .. n /\ NodeTableSize \in Nat
        /\ \A j, k \in 1 .. n : nodes[j].id = nodes[k].id => j = k
    BY TableAssumption DEF TypeOK, NoDuplicates, NodeEntry
  <1>2. Entry(id) \in NodeEntry /\ Entry(id).id = id
    BY MillisType DEF TypeOK, Entry, NodeEntry
  <1>3. CASE \E k \in 1 .. n : nodes[k].id = id
    <2>1. t = [k \in 1 .. n |-> IF nodes[k].id = id THEN Entry(id) ELSE nodes[k]]
      BY <1>1, <1>3 DEF updateNode
    <2>2. t \in Seq(NodeEntry) /\ Len(t) = n
      BY <1>1, <1>2, <2>1
    <2>3. \A k \in 1 .. n : t[k] = IF nodes[k].id = id THEN Entry(id) ELSE nodes[k]
      BY <2>1
    <2>4. \A k \in 1 .. n : t[k].id = nodes[k].id
      BY <1>2, <2>3
    <2> QED
      BY <1>1, <2>2, <2>3, <2>4
  <1>4. CASE ~ (\E k \in 1 .. n : nodes[k].id = id) /\ n < NodeTableSize
    <2>1. t = Append(nodes, Entry(id))
      BY <1>1, <1>4 DEF updateNode
    <2>2. t \in Seq(NodeEntry) /\ Len(t) = n + 1
      BY <1>1, <1>2, <2>1
    <2>3. t[n + 1] = Entry(id) /\ \A k \in 1 .. n : t[k] = nodes[k]
      BY <1>1, <1>2, <2>1
    <2> HIDE DEF n
    <2>4. n + 1 <= NodeTableSize
      BY <1>1, <1>4
    <2>5. \A k \in 1 .. n + 1 : k = n + 1 \/ k \in 1 .. n
      BY <1>1
    <2>6. \A j, k \in 1 .. n + 1 : t[j].id = t[k].id => j = k
      BY <1>1, <1>2, <1>4, <2>3, <2>5
    <2>7. \A k \in 1 .. n + 1 : \/ t[k] = Entry(id)
                                \/ k \in 1 .. n /\ t[k] = nodes[k] /\ nodes[k].id # id
      BY <1>4, <2>3, <2>5
    <2> QED
      BY <2>2, <2>4, <2>6, <2>7 DEF n
  <1>5. CASE ~ (\E k \in 1 .. n : nodes[k].id = id) /\ ~ (n < NodeTableSize)
    <2>1. t = nodes
      BY <1>1, <1>5 DEF updateNode
    <2> QED
      BY <1>1, <1>5, <2>1
  <1> QED
    BY <1>3, <1>4, <1>5

\* The true ages of the entries and of the last prune, and that the code
\* computes them.
LEMMA Ages ==
  ASSUME TypeOK, TimeOK, NEW lp \in 0 .. time, PrunedAt(lp)
  PROVE  /\ Elapsed(lastPrune) = time - lp
         /\ \A k \in DOMAIN nodes :
               /\ nodes[k].id \in Id
               /\ Elapsed(nodes[k].lastSeen) = time - heard[nodes[k].id]
               /\ heard[nodes[k].id] \in Int /\ heard[nodes[k].id] >= 0
               /\ time - heard[nodes[k].id] <= NodeTimeout + PruneEvery + 1
  <1>1. time \in Nat /\ lp \in Int /\ lp <= time /\ time - lp <= PruneEvery + 1
    BY DEF TypeOK, PrunedAt
  <1>2. time - lp \in 0 .. ClockMod - 1
    BY <1>1, Clock
  <1>3. Elapsed(lastPrune) = time - lp
    BY <1>1, <1>2, ElapsedIs DEF PrunedAt
  <1>4. ASSUME NEW k \in DOMAIN nodes
        PROVE  /\ nodes[k].id \in Id
               /\ Elapsed(nodes[k].lastSeen) = time - heard[nodes[k].id]
               /\ heard[nodes[k].id] \in Int /\ heard[nodes[k].id] >= 0
               /\ time - heard[nodes[k].id] <= NodeTimeout + PruneEvery + 1
    <2> DEFINE h == heard[nodes[k].id]
    <2>1. nodes[k].id \in Id
      <3>1. nodes \in Seq(NodeEntry) /\ k \in 1 .. Len(nodes)
        BY DEF TypeOK, NodeEntry
      <3>2. nodes[k] \in NodeEntry
        BY <3>1
      <3> QED
        BY <3>2 DEF NodeEntry
    <2>2. h \in Int /\ h <= time
      BY <2>1 DEF TypeOK, TimeOK
    <2>3. /\ nodes[k].lastSeen = h % ClockMod /\ h >= 0
          /\ lp - h <= NodeTimeout
      BY DEF PrunedAt
    <2> HIDE DEF h
    <2>4. /\ time - h <= NodeTimeout + PruneEvery + 1
          /\ time - h \in 0 .. ClockMod - 1
      BY <1>1, <2>2, <2>3, Clock
    <2>5. Elapsed(h % ClockMod) = time - h
      BY <1>1, <2>2, <2>4, ElapsedIs
    <2> QED
      BY <2>1, <2>2, <2>3, <2>4, <2>5 DEF h
  <1> QED
    BY <1>3, <1>4

\* The empty table.
LEMMA InitInv == Init => Inv
  <1> SUFFICES ASSUME Init PROVE Inv
    OBVIOUS
  <1>1. time = 0 /\ nodes = << >> /\ lastPrune = 0 /\ heard = [id \in Id |-> -1]
        /\ DOMAIN nodes = {} /\ Len(nodes) = 0
    BY DEF Init
  <1>2. 0 % ClockMod = 0 /\ 0 \in 0 .. ClockMod - 1
    BY Clock
  <1>3. TypeOK
    BY <1>1, <1>2, TableAssumption DEF TypeOK
  <1>4. NoDuplicates
    BY <1>1 DEF NoDuplicates
  <1>5. PrunedAt(0) /\ 0 \in 0 .. time
    BY <1>1, <1>2, Clock DEF PrunedAt
  <1>6. TimeOK
    BY <1>1, <1>5 DEF TimeOK
  <1> QED
    BY <1>3, <1>4, <1>6 DEF Inv

\* An accepted frame keeps the invariant: updateNode().
LEMMA HearInv ==
  ASSUME Inv, NEW id \in Id, Hear(id)
  PROVE  Inv'
  <1>1. /\ nodes' = updateNode(nodes, id) /\ heard' = [heard EXCEPT ![id] = time]
        /\ time' = time /\ lastPrune' = lastPrune
    BY DEF Hear
  <1>2. /\ nodes' \in Seq(NodeEntry) /\ Len(nodes') <= NodeTableSize
        /\ \A j, k \in 1 .. Len(nodes') : nodes'[j].id = nodes'[k].id => j = k
        /\ \A k \in 1 .. Len(nodes') :
               \/ nodes'[k] = Entry(id)
               \/ k \in 1 .. Len(nodes) /\ nodes'[k] = nodes[k] /\ nodes[k].id # id
    BY <1>1, UpdateIs DEF Inv
  <1>3. DOMAIN nodes' = 1 .. Len(nodes') /\ DOMAIN nodes = 1 .. Len(nodes)
        /\ time \in Nat /\ heard \in [Id -> Int]
    BY <1>2 DEF Inv, TypeOK
  <1>4. TypeOK'
    BY <1>1, <1>2, <1>3 DEF Inv, TypeOK, NodeEntry
  <1>5. NoDuplicates'
    BY <1>2, <1>3 DEF NoDuplicates
  <1>6. \A i \in Id : heard'[i] <= time'
    BY <1>1, <1>3 DEF Inv, TimeOK
  <1>7. PICK lp \in 0 .. time : PrunedAt(lp)
    BY DEF Inv, TimeOK
  <1>8. ASSUME NEW k \in DOMAIN nodes'
        PROVE  /\ nodes'[k].lastSeen = heard'[nodes'[k].id] % ClockMod
               /\ heard'[nodes'[k].id] >= 0
               /\ lp - heard'[nodes'[k].id] <= NodeTimeout
    <2>1. CASE nodes'[k] = Entry(id)
      <3>1. nodes'[k].id = id /\ nodes'[k].lastSeen = time % ClockMod
        BY <2>1 DEF Entry, millis
      <3>2. heard'[id] = time /\ time >= 0 /\ lp - time <= NodeTimeout
        BY <1>1, <1>3, <1>7, Clock
      <3> QED
        BY <3>1, <3>2
    <2>2. CASE k \in 1 .. Len(nodes) /\ nodes'[k] = nodes[k] /\ nodes[k].id # id
      <3>1. heard'[nodes[k].id] = heard[nodes[k].id]
        BY <1>1, <1>3, <2>2
      <3> QED
        BY <1>3, <1>7, <2>2, <3>1 DEF PrunedAt
    <2> QED
      BY <1>2, <1>3, <2>1, <2>2
  <1>9. PrunedAt(lp)'
    BY <1>1, <1>7, <1>8 DEF PrunedAt
  <1> QED
    BY <1>1, <1>4, <1>5, <1>6, <1>9 DEF Inv, TimeOK

\* A prune leaves the entries heard within the timeout, and all of them.
LEMMA PruneKeeps ==
  ASSUME Inv, Prune
  PROVE  /\ nodes' \in Seq(NodeEntry) /\ Len(nodes') <= Len(nodes)
         /\ \A i, j \in 1 .. Len(nodes') : nodes'[i].id = nodes'[j].id => i = j
         /\ \A i \in 1 .. Len(nodes') :
               /\ Fresh(nodes'[i])
               /\ \E j \in 1 .. Len(nodes) : nodes'[i] = nodes[j]
         /\ \A j \in 1 .. Len(nodes) : Fresh(nodes[j]) =>
               \E i \in 1 .. Len(nodes') : nodes'[i] = nodes[j]
  <1>1. nodes \in Seq(NodeEntry) /\ DOMAIN nodes = 1 .. Len(nodes)
    BY DEF Inv, TypeOK, NodeEntry
  <1>2. \A i, j \in 1 .. Len(nodes) : nodes[i].id = nodes[j].id => i = j
    BY <1>1 DEF Inv, NoDuplicates
  <1>3. Passed(nodes', 1, nodes)
    BY <1>1, <1>2, PruneIs DEF Prune
  <1> QED
    BY <1>3 DEF Passed

\* So does pruneNodes(), which makes the current time that of the last prune.
LEMMA PruneInv ==
  ASSUME Inv, Prune
  PROVE  Inv'
  <1>1. lastPrune' = time % ClockMod /\ time' = time /\ heard' = heard
    BY DEF Prune, millis
  <1>2. /\ nodes' \in Seq(NodeEntry) /\ Len(nodes') <= Len(nodes)
        /\ DOMAIN nodes' = 1 .. Len(nodes') /\ DOMAIN nodes = 1 .. Len(nodes)
        /\ Len(nodes) \in Nat /\ Len(nodes') \in Nat /\ Len(nodes) <= NodeTableSize
        /\ NodeTableSize \in Nat /\ time \in Nat
    BY PruneKeeps, TableAssumption DEF Inv, TypeOK
  <1>3. time % ClockMod \in 0 .. ClockMod - 1
    BY <1>2, MillisType DEF millis
  <1>4. TypeOK'
    <2> DEFINE m == Len(nodes)
    <2> DEFINE n == Len(nodes')
    <2>1. m \in Nat /\ n \in Nat /\ n <= m /\ m <= NodeTableSize
      BY <1>2
    <2> HIDE DEF m, n
    <2>2. n <= NodeTableSize
      BY <1>2, <2>1
    <2> QED
      BY <1>1, <1>2, <1>3, <2>2 DEF Inv, TypeOK, NodeEntry, n
  <1>5. NoDuplicates'
    BY <1>2, PruneKeeps DEF NoDuplicates
  <1>6. PICK lp \in 0 .. time : PrunedAt(lp)
    BY DEF Inv, TimeOK
  <1>7. ASSUME NEW k \in DOMAIN nodes'
        PROVE  /\ nodes'[k].lastSeen = heard'[nodes'[k].id] % ClockMod
               /\ heard'[nodes'[k].id] >= 0
               /\ time - heard'[nodes'[k].id] <= NodeTimeout
    <2>1. PICK j \in DOMAIN nodes : nodes'[k] = nodes[j]
      BY <1>2, PruneKeeps
    <2>2. Fresh(nodes[j])
      BY <1>2, <2>1, PruneKeeps
    <2> DEFINE h == heard[nodes[j].id]
    <2>3. /\ Elapsed(nodes[j].lastSeen) = time - h
          /\ h \in Int /\ h >= 0
      BY <1>6, <2>1, Ages DEF Inv
    <2>4. nodes[j].lastSeen = h % ClockMod
      BY <1>6, <2>1 DEF PrunedAt
    <2>5. heard'[nodes'[k].id] = h
      BY <1>1, <2>1
    <2>6. ~ (time - h > NodeTimeout)
      BY <2>2, <2>3 DEF Fresh
    <2> HIDE DEF h
    <2>7. time - h <= NodeTimeout
      BY <1>2, <2>3, <2>6, Clock
    <2> QED
      BY <2>1, <2>3, <2>4, <2>5, <2>7
  <1>8. time - time <= PruneEvery + 1 /\ time \in 0 .. time
    BY <1>2, Clock
  <1>9. TimeOK'
    <2>1. lastPrune' = time % ClockMod /\ time' - time <= PruneEvery + 1
          /\ time \in 0 .. time'
      BY <1>1, <1>8
    <2>2. \E l \in 0 .. time' : PrunedAt(l)'
      BY <1>7, <2>1 DEF PrunedAt
    <2> QED
      BY <1>1, <2>2 DEF Inv, TimeOK
  <1> QED
    BY <1>4, <1>5, <1>9 DEF Inv

\* Time passes: until the prune is due, no more than a period and a tick.
LEMMA TickInv ==
  ASSUME Inv, Tick
  PROVE  Inv'
  <1>1. /\ time' = time + 1 /\ nodes' = nodes /\ lastPrune' = lastPrune
        /\ heard' = heard /\ time \in Nat
    BY DEF Tick, Inv, TypeOK
  <1>2. TypeOK' /\ NoDuplicates'
    BY <1>1 DEF Inv, TypeOK, NoDuplicates
  <1>3. PICK lp \in 0 .. time : PrunedAt(lp)
    BY DEF Inv, TimeOK
  <1>4. Elapsed(lastPrune) = time - lp /\ ~ (Elapsed(lastPrune) > PruneEvery)
    BY <1>3, Ages DEF Inv, Tick, PruneDue
  <1>5. time' - lp <= PruneEvery + 1 /\ lp \in 0 .. time'
    BY <1>1, <1>3, <1>4, Clock
  <1>6. PrunedAt(lp)'
    BY <1>1, <1>3, <1>5 DEF PrunedAt
  <1>7. \A id \in Id : heard'[id] <= time'
    BY <1>1 DEF Inv, TypeOK, TimeOK
  <1> QED
    BY <1>2, <1>5, <1>6, <1>7 DEF Inv, TimeOK

\* Every step keeps the invariant.
LEMMA NextInv == Inv /\ [Next]_vars => Inv'
  <1> SUFFICES ASSUME Inv, [Next]_vars PROVE Inv'
    OBVIOUS
  <1>1. ASSUME NEW id \in Id, Hear(id) PROVE Inv'
    BY <1>1, HearInv
  <1>2. CASE Prune
    BY <1>2, PruneInv
  <1>3. CASE NodesClear
    <2>1. nodes' = << >> /\ time' = time /\ lastPrune' = lastPrune
          /\ heard' = heard /\ DOMAIN nodes' = {} /\ Len(nodes') = 0
      BY <1>3 DEF NodesClear
    <2>2. TypeOK'
      BY <2>1, TableAssumption DEF Inv, TypeOK
    <2>3. NoDuplicates'
      BY <2>1 DEF NoDuplicates
    <2>4. TimeOK'
      BY <2>1 DEF Inv, TimeOK, PrunedAt
    <2> QED
      BY <2>2, <2>3, <2>4 DEF Inv
  <1>4. CASE Tick
    BY <1>4, TickInv
  <1>5. CASE UNCHANGED vars
    BY <1>5 DEF vars, Inv, TypeOK, NoDuplicates, TimeOK, PrunedAt
  <1> QED
    BY <1>1, <1>2, <1>3, <1>4, <1>5 DEF Next

\* The invariant holds in every reachable state.
THEOREM Invariance == Spec => []Inv
  BY InitInv, NextInv, PTL DEF Spec

\* Type correctness: the table never grows over its array.
THEOREM TypeCorrect == Spec => []TypeOK
  <1>1. Inv => TypeOK
    BY DEF Inv
  <1> QED
    BY <1>1, Invariance, PTL

\* No node is listed twice.
THEOREM ListedOnce == Spec => []NoDuplicates
  <1>1. Inv => NoDuplicates
    BY DEF Inv
  <1> QED
    BY <1>1, Invariance, PTL

\* A node that is silent for the timeout is gone one prune period later, also
\* across a wrap of millis().
THEOREM SilentIsDropped == Spec => []NoStaleEntry
  <1>1. Inv => NoStaleEntry
    <2> SUFFICES ASSUME Inv, NEW id \in Listed
                 PROVE  /\ heard[id] >= 0
                        /\ time - heard[id] <= NodeTimeout + PruneEvery + 1
      BY DEF NoStaleEntry
    <2>1. PICK k \in DOMAIN nodes : id = nodes[k].id
      BY DEF Listed
    <2>2. PICK lp \in 0 .. time : PrunedAt(lp)
      BY DEF Inv, TimeOK
    <2> QED
      BY <2>1, <2>2, Ages DEF Inv
  <1> QED
    BY <1>1, Invariance, PTL

\* A prune never removes a node heard within the timeout.
THEOREM FreshIsKept == Spec => FreshSurvivesPrune
  <1>1. ASSUME Inv, [Next]_vars
        PROVE  [lastPrune' # lastPrune =>
                  \A id \in Listed : (time - heard[id] <= NodeTimeout)
                                       => id \in Listed']_vars
    <2> SUFFICES ASSUME Next, lastPrune' # lastPrune, NEW id \in Listed,
                        time - heard[id] <= NodeTimeout
                 PROVE  id \in Listed'
      BY <1>1
    <2>1. Prune
      BY DEF Next, Hear, NodesClear, Tick
    <2>2. PICK k \in DOMAIN nodes : id = nodes[k].id
      BY DEF Listed
    <2>3. PICK lp \in 0 .. time : PrunedAt(lp)
      BY <1>1 DEF Inv, TimeOK
    <2> DEFINE h == heard[id]
    <2>4. Elapsed(nodes[k].lastSeen) = time - h /\ h \in Int
      BY <1>1, <2>2, <2>3, Ages DEF Inv
    <2>5. time - h <= NodeTimeout /\ time \in Nat
      BY <1>1 DEF Inv, TypeOK
    <2> HIDE DEF h
    <2>6. ~ (time - h > NodeTimeout)
      BY <2>4, <2>5, Clock
    <2>7. Fresh(nodes[k])
      BY <2>4, <2>6 DEF Fresh
    <2>8. nodes \in Seq(NodeEntry) /\ nodes' \in Seq(NodeEntry)
      BY <1>1, <2>1, PruneKeeps DEF Inv, TypeOK, NodeEntry
    <2>9. DOMAIN nodes = 1 .. Len(nodes) /\ DOMAIN nodes' = 1 .. Len(nodes')
      BY <2>8
    <2>10. PICK i \in DOMAIN nodes' : nodes'[i] = nodes[k]
      BY <1>1, <2>1, <2>7, <2>9, PruneKeeps
    <2> QED
      BY <2>2, <2>10 DEF Listed
  <1> QED
    BY <1>1, Invariance, PTL DEF Spec, FreshSurvivesPrune
=============================================================================
