--------------------------- MODULE Repeater_proof ---------------------------
(***************************************************************************)
(* Proofs about the CubeCell repeater, for lists and queues of any size.   *)
(*                                                                         *)
(* The list of ids: words 0 .. i - 1 hold the last i ids accepted, i is    *)
(* the first mark (or the list is full, i = ListSize), and the words after *)
(* the mark still hold the ids of the round before.  An id of 0 is refused *)
(* while there is a mark; accepted with a full list it takes a place in    *)
(* the history and none in the list, which costs the list one old id.      *)
(*                                                                         *)
(* The queue: Count is the number of packets waiting plus the number of    *)
(* packets overwritten since the queue was last found empty.               *)
(***************************************************************************)
EXTENDS Repeater, FiniteSetTheorems, TLAPS

-----------------------------------------------------------------------------
(* Lemmas about numbers, sets and sequences                                *)

\* A nonempty set of natural numbers has a least element.
LEMMA LeastNat ==
  ASSUME NEW T, T \subseteq Nat, T # {}
  PROVE  \E x \in T : \A y \in T : x <= y
  <1> DEFINE R == OpToRel(<, Nat)
  <1>1. IsWellFoundedOn(R, Nat)
    BY NatLessThanWellFounded, Zenon
  <1>2. \A x, y \in Nat : y < x => <<y, x>> \in R
    BY DEF OpToRel
  <1> HIDE DEF R
  <1>3. PICK x \in T : \A y \in T : ~ (<<y, x>> \in R)
    BY <1>1, WFMin
  <1>4. \A y \in T : ~ (y < x)
    BY <1>2, <1>3
  <1> QED
    BY <1>4

\* pop() and add() find a packet with the largest time.
LEMMA NewestIn ==
  ASSUME Queue \in [QSlot -> QPacket], NEW S, S \subseteq QSlot, S # {}
  PROVE  Newest(S) \in S
  <1> DEFINE T == {MaxRx - Queue[i].time : i \in S}
  <1>1. \A i \in S : Queue[i].time \in 0 .. MaxRx
    BY DEF QPacket
  <1>2. T \subseteq Nat /\ T # {}
    BY <1>1, RxBounds
  <1>3. PICK x \in T : \A y \in T : x <= y
    BY <1>2, LeastNat
  <1>4. PICK i \in S : x = MaxRx - Queue[i].time
    BY <1>3
  <1>5. \A j \in S : MaxRx - Queue[i].time <= MaxRx - Queue[j].time
    BY <1>3, <1>4
  <1>6. \A j \in S : Queue[j].time <= Queue[i].time
    BY <1>1, <1>5, RxBounds
  <1> QED
    BY <1>6 DEF Newest

\* The queue has finitely many slots: one less than its array.
LEMMA SlotsFinite == /\ IsFiniteSet(QSlot) /\ Cardinality(QSlot) = QueueSize - 1
                     /\ 0 \in QSlot /\ 1 \in QSlot
  <1>1. 0 \in Int /\ QueueSize - 2 \in Int /\ ~ (0 > QueueSize - 2)
        /\ QueueSize - 2 - 0 + 1 = QueueSize - 1
    BY QueueAssumption
  <1>2. 0 \in QSlot /\ 1 \in QSlot
    BY QueueAssumption DEF QSlot
  <1> QED
    BY <1>1, <1>2, FS_Interval DEF QSlot

\* What one slot more or less does to a set of slots.
LEMMA SlotSet ==
  ASSUME NEW S \in SUBSET QSlot, NEW i \in QSlot
  PROVE  /\ Cardinality(S) \in Nat /\ Cardinality(S) <= QueueSize - 1
         /\ i \in S => Cardinality(S \ {i}) = Cardinality(S) - 1
         /\ i \notin S => Cardinality(S \cup {i}) = Cardinality(S) + 1
  <1>1. /\ IsFiniteSet(S) /\ Cardinality(S) <= Cardinality(QSlot)
    BY SlotsFinite, FS_Subset
  <1>2. Cardinality(S) \in Nat
    BY <1>1, FS_CardinalityType
  <1>3. i \in S => Cardinality(S \ {i}) = Cardinality(S) - 1
    BY <1>1, FS_RemoveElement
  <1>4. i \notin S => Cardinality(S \cup {i}) = Cardinality(S) + 1
    BY <1>1, FS_AddElement
  <1> QED
    BY <1>1, <1>2, <1>3, <1>4, SlotsFinite

\* How often an id occurs in a history, before and after one more entry.
LEMMA OccurrencesType ==
  ASSUME NEW X, NEW s \in Seq(X), NEW x
  PROVE  /\ IsFiniteSet({n \in DOMAIN s : s[n] = x})
         /\ Occurrences(s, x) \in Nat
  <1>1. DOMAIN s = 1 .. Len(s) /\ Len(s) \in Int /\ 1 \in Int
    OBVIOUS
  <1>2. IsFiniteSet(DOMAIN s)
    BY <1>1, FS_Interval
  <1>3. {n \in DOMAIN s : s[n] = x} \in SUBSET (DOMAIN s)
    OBVIOUS
  <1>4. IsFiniteSet({n \in DOMAIN s : s[n] = x})
    BY <1>2, <1>3, FS_Subset
  <1> QED
    BY <1>4, FS_CardinalityType DEF Occurrences

\* One more at the end counts once.
LEMMA OccurrencesAppend ==
  ASSUME NEW X, NEW s \in Seq(X), NEW e \in X, NEW x
  PROVE  Occurrences(Append(s, e), x) =
           Occurrences(s, x) + (IF e = x THEN 1 ELSE 0)
  <1> DEFINE t == Append(s, e)
  <1> DEFINE S == {n \in DOMAIN s : s[n] = x}
  <1> DEFINE U == {n \in DOMAIN t : t[n] = x}
  <1> DEFINE k == Len(s) + 1
  <1>1. /\ DOMAIN s = 1 .. Len(s) /\ DOMAIN t = 1 .. k
        /\ t[k] = e /\ \A n \in 1 .. Len(s) : t[n] = s[n]
        /\ Len(s) \in Nat /\ k = Len(s) + 1
    OBVIOUS
  <1> HIDE DEF t, k
  <1>2. k \notin S /\ DOMAIN t = DOMAIN s \cup {k}
    BY <1>1
  <1>3. /\ e = x => U = S \cup {k}
        /\ e # x => U = S
    BY <1>1, <1>2
  <1>4. IsFiniteSet(S) /\ Cardinality(S) \in Nat
    BY OccurrencesType DEF Occurrences
  <1>5. Cardinality(S \cup {k}) = Cardinality(S) + 1
    BY <1>2, <1>4, FS_AddElement
  <1> HIDE DEF S, U
  <1>6. Cardinality(U) = Cardinality(S) + (IF e = x THEN 1 ELSE 0)
    <2>1. CASE e = x
      BY <1>3, <1>5, <2>1
    <2>2. CASE e # x
      BY <1>3, <1>4, <2>2
    <2> QED
      BY <2>1, <2>2
  <1> QED
    BY <1>6 DEF S, U, t, Occurrences

-----------------------------------------------------------------------------
(* The inductive invariant                                                 *)

\* The ids accepted before the current round of the list, if it is at word i,
\* and whether the last of them was a 0.
Before(i) == Len(accepted) - i
Skip(i)   == IF accepted[Before(i)] = Zero THEN 1 ELSE 0

\* The list is at word i.
ThisRound(i) ==
    /\ i <= Len(accepted)
    /\ \A j \in 0 .. i - 1 :
          storage[j] = accepted[Before(i) + 1 + j] /\ storage[j] # Zero
    /\ i < ListSize => storage[i] = Zero

LastRound(i) ==
    Before(i) >= 1 =>
        /\ Before(i) - Skip(i) >= ListSize
        /\ i = 0 => Skip(i) = 1
        /\ \A j \in i + 1 + Skip(i) .. ListSize - 1 :
              storage[j] = accepted[Before(i) - Skip(i) - (ListSize - 1 - j)]

StoreOK ==
    outside \/ ( /\ \E i \in 0 .. ListSize : ThisRound(i) /\ LastRound(i)
                 /\ RepeatsAreFar)

\* Count is exact until it wraps.
CountExact == outside \/ Wrapped \/ Count = Cardinality(Occupied) + lost

\* A packet in the radio's buffer has a number, so it is not None in the queue.
Numbered == air.kind = "ok" => rx > 0

Inv == TypeOK /\ Numbered /\ ListensAgain /\ CountExact /\ RepeatedOnce /\ StoreOK

-----------------------------------------------------------------------------
(* The list of ids                                                         *)

\* The word that add() writes: the first mark, or 0 in a full list.
LEMMA MarkIs ==
  ASSUME StoreTypeOK, NEW i \in 0 .. ListSize, ThisRound(i),
         NEW m \in Word, IsMark(m)
  PROVE  m = IF i < ListSize THEN i ELSE 0
  <1>1. \A j \in 0 .. i - 1 : storage[j] # Zero
    BY DEF ThisRound
  <1>2. CASE i < ListSize
    <2>1. storage[i] = Zero /\ i \in Word
      BY <1>2, ListSizeAssumption DEF ThisRound, Word
    <2>2. storage[m] = Zero /\ \A j \in Word : j < m => storage[j] # Zero
      BY <2>1 DEF IsMark
    <2>3. ~ (m < i)
      BY <1>1, <2>2, ListSizeAssumption DEF Word
    <2>4. ~ (i < m)
      BY <2>1, <2>2
    <2> QED
      BY <1>2, <2>3, <2>4, ListSizeAssumption DEF Word
  <1>3. CASE ~ (i < ListSize)
    <2>1. \A j \in Word : storage[j] # Zero
      BY <1>1, <1>3, ListSizeAssumption DEF Word
    <2> QED
      BY <1>3, <2>1 DEF IsMark
  <1> QED
    BY <1>2, <1>3

\* The ids accepted last are known.
LEMMA RoundRecent ==
  ASSUME StoreTypeOK, NEW i \in 0 .. ListSize, ThisRound(i), LastRound(i)
  PROVE  RecentKnown
  <1> SUFFICES ASSUME NEW n \in 1 .. Len(accepted),
                      n > Len(accepted) - (ListSize - 1)
               PROVE  IsKnown(accepted[n])
    BY DEF RecentKnown, LastKnown
  <1> DEFINE N == Len(accepted)
  <1> DEFINE b == Before(i)
  <1>0. N \in Nat /\ b = N - i /\ i <= N /\ n \in 1 .. N /\ n > N - (ListSize - 1)
    BY DEF Before, ThisRound, StoreTypeOK
  <1> DEFINE z == Skip(i)
  <1>z. z \in {0, 1} /\ (z = 1 <=> accepted[b] = Zero)
    BY DEF Skip
  <1>a. \A j \in 0 .. i - 1 : storage[j] = accepted[b + 1 + j]
    BY DEF ThisRound
  <1>l. b >= 1 => /\ b - z >= ListSize
                  /\ i = 0 => z = 1
                  /\ \A j \in i + 1 + z .. ListSize - 1 :
                        storage[j] = accepted[b - z - (ListSize - 1 - j)]
    BY DEF LastRound
  <1>m. i < ListSize => storage[i] = Zero
    BY DEF ThisRound
  <1> HIDE DEF N, b, z
  <1>1. CASE n > b
    <2> DEFINE j == n - b - 1
    <2>1. j \in 0 .. i - 1 /\ b + 1 + j = n /\ j \in Word
      BY <1>0, <1>1, ListSizeAssumption DEF Word
    <2>2. storage[j] = accepted[n]
      BY <1>a, <2>1
    <2> QED
      BY <2>1, <2>2 DEF IsKnown
  <1>2. CASE n <= b /\ i < ListSize /\ n = b /\ z = 1
    <2>1. i \in Word /\ storage[i] = accepted[n]
      BY <1>2, <1>m, <1>z, ListSizeAssumption DEF Word
    <2> QED
      BY <2>1 DEF IsKnown
  <1>3. CASE n <= b /\ ~ (n = b /\ z = 1)
    <2> DEFINE j == ListSize - 1 - (b - z - n)
    <2>1. b >= 1 /\ n <= b - z
      BY <1>0, <1>3, <1>z
    <2>2. j \in i + 1 + z .. ListSize - 1 /\ b - z - (ListSize - 1 - j) = n
          /\ j \in Word
      BY <1>0, <1>z, <2>1, ListSizeAssumption DEF Word
    <2>3. storage[j] = accepted[n]
      BY <1>l, <2>1, <2>2
    <2> QED
      BY <2>2, <2>3 DEF IsKnown
  <1>4. n <= b => i < ListSize
    BY <1>0, ListSizeAssumption
  <1> QED
    BY <1>0, <1>1, <1>2, <1>3, <1>4

\* add() of a new id moves the list on by one word, into the next round from a
\* full list; an id of 0 leaves it before the first word.
LEMMA RoundStep ==
  ASSUME StoreTypeOK, NEW id \in Id \cup {Zero}, AddNew(id),
         NEW i \in 0 .. ListSize, ThisRound(i), LastRound(i)
  PROVE  \E k \in 0 .. ListSize : ThisRound(k)' /\ LastRound(k)'
  <1> DEFINE N == Len(accepted)
  <1> DEFINE b == Before(i)
  <1> DEFINE z == Skip(i)
  <1> DEFINE L == ListSize
  <1>L. L \in Nat /\ L >= 2 /\ Word = 0 .. L - 1
    BY ListSizeAssumption DEF Word
  <1>0. N \in Nat /\ b = N - i /\ i <= N /\ i \in 0 .. L
    BY DEF Before, ThisRound, StoreTypeOK
  <1>z. z \in {0, 1} /\ (z = 1 <=> accepted[b] = Zero)
    BY DEF Skip
  <1>a. \A j \in 0 .. i - 1 : storage[j] = accepted[b + 1 + j] /\ storage[j] # Zero
    BY DEF ThisRound
  <1>l. b >= 1 => /\ b - z >= L
                  /\ i = 0 => z = 1
                  /\ \A j \in i + 1 + z .. L - 1 :
                        storage[j] = accepted[b - z - (L - 1 - j)]
    BY DEF LastRound
  <1>m. i < L => storage[i] = Zero
    BY DEF ThisRound
  <1>n. /\ Len(accepted') = N + 1 /\ accepted'[N + 1] = id
        /\ \A n \in 1 .. N : accepted'[n] = accepted[n]
    BY DEF AddNew, StoreTypeOK
  <1>s. PICK w \in Word : IsMark(w) /\ StoreAt(w, id)
    BY DEF AddNew
  <1>w. w = IF i < L THEN i ELSE 0
    BY <1>s, MarkIs
  <1>t. /\ storage'[w] = id
        /\ w + 1 \in Word => storage'[w + 1] = Zero
        /\ \A j \in Word : j # w /\ j # w + 1 => storage'[j] = storage[j]
    BY <1>s, <1>L DEF StoreAt
  <1>k. \A j \in Word : storage[j] # id
    BY DEF AddNew, IsKnown
  <1>B. \A k \in Int : Before(k)' = N + 1 - k
    BY <1>n DEF Before
  <1>S. \A k \in Int : Skip(k)' = IF accepted'[Before(k)'] = Zero THEN 1 ELSE 0
    BY DEF Skip
  <1> HIDE DEF N, b, z, L
  <1>1. CASE i < L /\ id # Zero
    <2> DEFINE k == i + 1
    <2>1. k \in 0 .. L /\ k \in Int /\ Before(k)' = b /\ w = i
      BY <1>0, <1>1, <1>B, <1>L, <1>w
    <2>2. b >= 1 => Skip(k)' = z
      <3>1. b >= 1 => accepted'[b] = accepted[b]
        BY <1>0, <1>n
      <3> QED
        BY <1>S, <1>z, <2>1, <3>1
    <2>3. \A j \in 0 .. k - 1 : storage'[j] = accepted'[b + 1 + j]
                                /\ storage'[j] # Zero
      <3>1. ASSUME NEW j \in 0 .. i - 1
            PROVE  storage'[j] = accepted'[b + 1 + j] /\ storage'[j] # Zero
        <4>1. j \in Word /\ j # w /\ j # w + 1 /\ b + 1 + j \in 1 .. N
          BY <1>0, <1>L, <2>1
        <4> QED
          BY <1>a, <1>n, <1>t, <4>1
      <3>2. storage'[i] = accepted'[b + 1 + i] /\ storage'[i] # Zero
        <4>1. b + 1 + i = N + 1
          BY <1>0
        <4> QED
          BY <1>1, <1>n, <1>t, <2>1, <4>1
      <3> QED
        BY <1>0, <3>1, <3>2
    <2>4. k < L => storage'[k] = Zero
      BY <1>0, <1>L, <1>t, <2>1
    <2>5. ThisRound(k)'
      BY <1>0, <1>n, <2>1, <2>3, <2>4 DEF ThisRound, L
    <2>6. ASSUME b >= 1
          PROVE  /\ b - z >= L
                 /\ k = 0 => z = 1
                 /\ \A j \in k + 1 + z .. L - 1 :
                       storage'[j] = accepted'[b - z - (L - 1 - j)]
      <3>1. ASSUME NEW j \in k + 1 + z .. L - 1
            PROVE  storage'[j] = accepted'[b - z - (L - 1 - j)]
        <4>1. /\ j \in Word /\ j # w /\ j # w + 1
              /\ j \in i + 1 + z .. L - 1
              /\ b - z - (L - 1 - j) \in 1 .. N
          BY <1>0, <1>L, <1>l, <1>z, <2>1, <2>6
        <4> QED
          BY <1>l, <1>n, <1>t, <2>6, <4>1
      <3> QED
        BY <1>0, <1>l, <2>6, <3>1
    <2>7. LastRound(k)'
      BY <2>1, <2>2, <2>6 DEF LastRound, L
    <2> QED
      BY <2>1, <2>5, <2>7 DEF L
  <1>2. CASE i < L /\ id = Zero
    BY <1>2, <1>m, <1>k, <1>0, <1>L
  <1>3. CASE i = L /\ id # Zero
    <2> DEFINE k == 1
    <2>1. k \in 0 .. L /\ k \in Int /\ Before(k)' = N /\ w = 0 /\ b = N - L
      BY <1>0, <1>3, <1>B, <1>L, <1>w
    <2>2. Skip(k)' = 0
      <3>1. L - 1 \in 0 .. i - 1 /\ b + 1 + (L - 1) = N /\ N \in 1 .. N
        BY <1>0, <1>3, <1>L, <2>1
      <3>2. accepted'[N] # Zero
        BY <1>a, <1>n, <3>1
      <3> QED
        BY <1>S, <2>1, <3>2
    <2>3. \A j \in 0 .. 0 : storage'[j] = accepted'[N + 1 + j]
                            /\ storage'[j] # Zero
      BY <1>0, <1>3, <1>n, <1>t, <2>1
    <2>4. k < L => storage'[k] = Zero
      BY <1>L, <1>t, <2>1
    <2>5. ThisRound(k)'
      BY <1>0, <1>n, <2>1, <2>3, <2>4 DEF ThisRound, L
    <2>6. /\ N - 0 >= L
          /\ \A j \in 1 + 1 + 0 .. L - 1 :
                storage'[j] = accepted'[N - 0 - (L - 1 - j)]
      <3>1. ASSUME NEW j \in 1 + 1 + 0 .. L - 1
            PROVE  storage'[j] = accepted'[N - 0 - (L - 1 - j)]
        <4>1. /\ j \in Word /\ j # w /\ j # w + 1 /\ j \in 0 .. i - 1
              /\ b + 1 + j = N - 0 - (L - 1 - j) /\ b + 1 + j \in 1 .. N
          BY <1>0, <1>L, <1>3, <2>1
        <4> QED
          BY <1>a, <1>n, <1>t, <4>1
      <3> QED
        BY <1>0, <1>3, <3>1
    <2>7. LastRound(k)'
      BY <2>1, <2>2, <2>6 DEF LastRound, L
    <2> QED
      BY <2>1, <2>5, <2>7 DEF L
  <1>4. CASE i = L /\ id = Zero
    <2> DEFINE k == 0
    <2>1. k \in 0 .. L /\ k \in Int /\ Before(k)' = N + 1 /\ w = 0
          /\ b = N - L
      BY <1>0, <1>4, <1>B, <1>L, <1>w
    <2>2. Skip(k)' = 1
      BY <1>4, <1>S, <1>n, <2>1
    <2>3. storage'[0] = Zero
      BY <1>4, <1>t, <2>1
    <2>4. ThisRound(k)'
      BY <1>0, <1>n, <2>1, <2>3 DEF ThisRound, L
    <2>5. /\ N + 1 - 1 >= L
          /\ \A j \in 0 + 1 + 1 .. L - 1 :
                storage'[j] = accepted'[N + 1 - 1 - (L - 1 - j)]
      <3>1. ASSUME NEW j \in 0 + 1 + 1 .. L - 1
            PROVE  storage'[j] = accepted'[N + 1 - 1 - (L - 1 - j)]
        <4>1. /\ j \in Word /\ j # w /\ j # w + 1 /\ j \in 0 .. i - 1
              /\ b + 1 + j = N + 1 - 1 - (L - 1 - j) /\ b + 1 + j \in 1 .. N
          BY <1>0, <1>L, <1>4, <2>1
        <4> QED
          BY <1>a, <1>n, <1>t, <4>1
      <3> QED
        BY <1>0, <1>4, <3>1
    <2>6. /\ Before(k)' - Skip(k)' >= L
          /\ k = 0 => Skip(k)' = 1
          /\ \A j \in k + 1 + Skip(k)' .. L - 1 :
                storage'[j] = accepted'[Before(k)' - Skip(k)' - (L - 1 - j)]
      <3>1. Before(k)' - Skip(k)' = N + 1 - 1
        BY <1>0, <2>1, <2>2
      <3>2. k + 1 + Skip(k)' = 0 + 1 + 1
        BY <2>2
      <3>3. ASSUME NEW j \in k + 1 + Skip(k)' .. L - 1
            PROVE  storage'[j] = accepted'[Before(k)' - Skip(k)' - (L - 1 - j)]
        <4>1. j \in 0 + 1 + 1 .. L - 1
          BY <3>2, <3>3
        <4>2. storage'[j] = accepted'[N + 1 - 1 - (L - 1 - j)]
          BY <2>5, <4>1
        <4>3. Before(k)' - Skip(k)' - (L - 1 - j) = N + 1 - 1 - (L - 1 - j)
          BY <1>0, <1>L, <2>1, <2>2, <4>1
        <4> QED
          BY <4>2, <4>3
      <3>4. Before(k)' - Skip(k)' >= L
        BY <2>5, <3>1
      <3> QED
        BY <2>2, <3>3, <3>4
    <2>7. LastRound(k)'
      BY <2>6 DEF LastRound, L
    <2> QED
      BY <2>1, <2>4, <2>7 DEF L
  <1> QED
    BY <1>0, <1>L, <1>1, <1>2, <1>3, <1>4

\* An id that add() accepts is not among the last ones.
LEMMA FarStep ==
  ASSUME StoreTypeOK, RecentKnown, RepeatsAreFar,
         NEW id \in Id \cup {Zero}, ~ IsKnown(id),
         accepted' = Append(accepted, id)
  PROVE  RepeatsAreFar'
  <1> DEFINE N == Len(accepted)
  <1>1. /\ N \in Nat /\ Len(accepted') = N + 1 /\ accepted'[N + 1] = id
        /\ \A n \in 1 .. N : accepted'[n] = accepted[n]
    BY DEF StoreTypeOK
  <1>2. \A n \in 1 .. N : n > N - (ListSize - 1) => accepted[n] # id
    BY DEF RecentKnown, LastKnown
  <1>3. \A m, n \in 1 .. N :
           m < n /\ accepted[m] = accepted[n] => n - m >= ListSize
    BY DEF RepeatsAreFar
  <1> HIDE DEF N
  <1> SUFFICES ASSUME NEW m \in 1 .. N + 1, NEW n \in 1 .. N + 1,
                      m < n, accepted'[m] = accepted'[n]
               PROVE  n - m >= ListSize
    BY <1>1 DEF RepeatsAreFar
  <1>4. m \in 1 .. N
    BY <1>1
  <1>5. CASE n = N + 1
    <2>1. ~ (m > N - (ListSize - 1))
      BY <1>1, <1>2, <1>4, <1>5
    <2> QED
      BY <1>1, <1>4, <1>5, <2>1, ListSizeAssumption
  <1>6. CASE n # N + 1
    <2>1. n \in 1 .. N
      BY <1>1, <1>6
    <2> QED
      BY <1>1, <1>3, <1>4, <2>1
  <1> QED
    BY <1>5, <1>6

\* add() keeps what is known of the list, and its type.
LEMMA AddNewStore ==
  ASSUME StoreTypeOK, StoreOK, NEW id \in Id \cup {Zero}, AddNew(id),
         UNCHANGED outside
  PROVE  StoreTypeOK' /\ StoreOK'
  <1>1. StoreTypeOK'
    <2>1. PICK w \in Word : StoreAt(w, id)
      BY DEF AddNew
    <2>2. storage' \in [Word -> Id \cup {Zero}]
      BY <2>1 DEF StoreAt, StoreTypeOK
    <2>3. accepted' \in Seq(Id \cup {Zero}) /\ Len(accepted') <= MaxAdds
      <3> DEFINE n == Len(accepted)
      <3>1. n \in Nat /\ n < MaxAdds /\ Len(accepted') = n + 1
            /\ accepted' \in Seq(Id \cup {Zero})
        BY DEF AddNew, StoreTypeOK
      <3> HIDE DEF n
      <3> QED
        BY <3>1, AddsBound
    <2> QED
      BY <2>2, <2>3 DEF StoreTypeOK
  <1>2. ASSUME ~ outside
        PROVE  /\ \E i \in 0 .. ListSize : ThisRound(i)' /\ LastRound(i)'
               /\ RepeatsAreFar'
    <2>1. PICK i \in 0 .. ListSize : ThisRound(i) /\ LastRound(i)
      BY <1>2 DEF StoreOK
    <2>2. RepeatsAreFar /\ RecentKnown
      BY <1>2, <2>1, RoundRecent DEF StoreOK
    <2> QED
      BY <2>1, <2>2, RoundStep, FarStep DEF AddNew
  <1> QED
    BY <1>1, <1>2 DEF StoreOK

\* Nothing but idStoreClass changes the list of ids.
LEMMA StoreKept ==
  ASSUME StoreTypeOK, StoreOK, UNCHANGED storeVars, UNCHANGED outside
  PROVE  StoreTypeOK' /\ StoreOK'
  BY DEF StoreTypeOK, StoreOK, storeVars, ThisRound, LastRound, Before, Skip,
         RepeatsAreFar

-----------------------------------------------------------------------------
(* The queue and the history of what was sent                              *)

\* An empty place has no id.
LEMMA NoneType == None \in QPacket /\ None.id = Zero
  BY RxBounds DEF None, QPacket

\* The increment of Count.
LEMMA CountStep ==
  \A c \in 0 .. CountMod - 1 :
     /\ (c + 1) % CountMod \in 0 .. CountMod - 1
     /\ c + 1 < CountMod => (c + 1) % CountMod = c + 1
  BY CountAssumption, QueueAssumption

\* The sum that Count is, before and after add(), and its bound.
LEMMA CountSum ==
  ASSUME NEW c \in Int, NEW d \in Int, NEW l \in Int, NEW m \in Int, NEW n \in Int,
         d + m = c + 1 + l, n = c + l, d <= QueueSize - 1,
         m <= CountMod - QueueSize
  PROVE  n + 1 = d + m /\ n + 1 < CountMod
  BY CountAssumption, QueueAssumption

\* What add() and pop() find.
LEMMA OccupiedType ==
  ASSUME QueueType
  PROVE  /\ Newest(QSlot \ {0}) \in QSlot
         /\ Occupied # {} => Newest(Occupied) \in Occupied
  <1>1. Queue \in [QSlot -> QPacket]
    BY DEF QueueType
  <1>3. QSlot \ {0} # {}
    BY SlotsFinite
  <1>4. Newest(QSlot \ {0}) \in QSlot
    BY <1>1, <1>3, NewestIn
  <1>5. Occupied # {} => Newest(Occupied) \in Occupied
    BY <1>1, NewestIn DEF Occupied
  <1> QED
    BY <1>4, <1>5

\* An empty buffer counts as a frame that is too short.
LEMMA NoFrameType == NoFrame \in Heard /\ NoFrame.kind = "short"
  BY DEF NoFrame, Heard

\* The radio's buffer holds a packet with an id.
LEMMA AirType == LoopType => air.id \in Id \cup {Zero}
  BY DEF LoopType, Heard

\* add() keeps Count exact: into a free slot, and over another packet.
LEMMA PutCount ==
  ASSUME QueueType, CountExact, NEW q \in QPacket, q # None, NEW i \in QSlot,
         Put(i, q), UNCHANGED outside,
         \/ lost' = lost /\ Queue[i] = None
         \/ lost' = lost + 1 /\ Queue[i] # None
  PROVE  /\ Queue' \in [QSlot -> QPacket] /\ Count' \in 0 .. CountMod - 1
         /\ lost' \in Nat
         /\ CountExact'
  <1>1. /\ Queue \in [QSlot -> QPacket] /\ Count \in 0 .. CountMod - 1
        /\ lost \in Nat
    BY DEF QueueType
  <1>2. /\ Queue' = [Queue EXCEPT ![i] = q] /\ Count' = (Count + 1) % CountMod
    BY DEF Put
  <1>3. Queue' \in [QSlot -> QPacket] /\ Count' \in 0 .. CountMod - 1
    BY <1>1, <1>2, CountStep
  <1>4. /\ Queue[i] = None => Occupied' = Occupied \cup {i} /\ i \notin Occupied
        /\ Queue[i] # None => Occupied' = Occupied
        /\ Occupied \in SUBSET QSlot /\ Occupied' \in SUBSET QSlot
    BY <1>1, <1>2 DEF Occupied
  <1> DEFINE c == Cardinality(Occupied)
  <1> DEFINE d == Cardinality(Occupied')
  <1>5. c \in Nat /\ d \in Nat /\ d <= QueueSize - 1
    BY <1>4, SlotSet
  <1>7. /\ Queue[i] = None => d = c + 1
        /\ Queue[i] # None => d = c
    BY <1>4, SlotSet
  <1> HIDE DEF c, d
  <1>8. d + lost' = c + 1 + lost /\ lost' \in Nat /\ lost' >= lost
    BY <1>1, <1>5, <1>7
  <1>9. ASSUME ~ outside', ~ Wrapped'
        PROVE  Count' = d + lost'
    <2>1. lost' <= CountMod - QueueSize /\ lost <= CountMod - QueueSize
      BY <1>1, <1>8, <1>9, CountAssumption, QueueAssumption DEF Wrapped
    <2>2. Count = c + lost
      BY <1>1, <1>9, <2>1, CountAssumption, QueueAssumption
         DEF CountExact, Wrapped, c
    <2>3. c \in Int /\ d \in Int /\ lost \in Int /\ lost' \in Int /\ Count \in Int
      BY <1>1, <1>5, <1>8, CountAssumption
    <2>4. Count + 1 = d + lost' /\ Count + 1 < CountMod
      BY <1>5, <1>8, <2>1, <2>2, <2>3, CountSum
    <2> QED
      BY <1>1, <1>2, <2>4, CountStep
  <1>10. CountExact'
    BY <1>9 DEF CountExact, d
  <1> QED
    BY <1>3, <1>8, <1>10

\* pop() keeps Count exact.
LEMMA PopCount ==
  ASSUME QueueType, CountExact, PopNewest, Count > 0, UNCHANGED <<outside, lost>>
  PROVE  /\ Queue' \in [QSlot -> QPacket] /\ Count' \in 0 .. CountMod - 1
         /\ p' \in QPacket
         /\ CountExact'
  <1>1. /\ Queue \in [QSlot -> QPacket] /\ Count \in 0 .. CountMod - 1
        /\ lost \in Nat
    BY DEF QueueType
  <1>2. PICK i \in Occupied : i = Newest(Occupied)
    BY OccupiedType DEF PopNewest
  <1>3. i \in QSlot /\ Queue[i] # None
    BY <1>2 DEF Occupied
  <1>4. /\ Queue' = [Queue EXCEPT ![i] = None] /\ Count' = Count - 1
        /\ p' = Queue[i]
    BY <1>2 DEF PopNewest
  <1>5. /\ Queue' \in [QSlot -> QPacket] /\ Count' \in 0 .. CountMod - 1
        /\ p' \in QPacket
    BY <1>1, <1>3, <1>4, NoneType, CountAssumption, QueueAssumption
  <1>6. Occupied' = Occupied \ {i} /\ i \in Occupied
        /\ Occupied \in SUBSET QSlot
    BY <1>1, <1>3, <1>4 DEF Occupied
  <1> DEFINE c == Cardinality(Occupied)
  <1> DEFINE d == Cardinality(Occupied')
  <1>7. c \in Nat /\ d = c - 1
    BY <1>3, <1>6, SlotSet
  <1> HIDE DEF c, d
  <1>8. ASSUME ~ outside', ~ Wrapped'
        PROVE  Count' = d + lost'
    <2>1. Count = c + lost
      BY <1>8 DEF CountExact, Wrapped, c
    <2> QED
      BY <1>1, <1>4, <1>7, <2>1
  <1>9. CountExact'
    BY <1>8 DEF CountExact, d
  <1> QED
    BY <1>5, <1>9

\* The three places a copy of a packet can be in.
Waiting(id) == {i \in QSlot : Queue[i].id = id}
Pending(id) == IF p.id = id THEN 1 ELSE 0

\* The copies of a packet: waiting, about to be sent, and sent.
LEMMA CopiesAre ==
  \A id : Copies(id) = Cardinality(Waiting(id)) + Pending(id) + Occurrences(sent, id)
  BY DEF Copies, Waiting, Pending

\* They are numbers.
LEMMA CopiesType ==
  ASSUME QueueType, StoreTypeOK, NEW id
  PROVE  /\ Waiting(id) \in SUBSET QSlot /\ Cardinality(Waiting(id)) \in Nat
         /\ Pending(id) \in {0, 1}
         /\ Occurrences(sent, id) \in Nat /\ Occurrences(accepted, id) \in Nat
  <1>1. Waiting(id) \in SUBSET QSlot
    BY DEF Waiting
  <1>2. Cardinality(Waiting(id)) \in Nat
    BY <1>1, SlotSet, SlotsFinite
  <1>3. Occurrences(sent, id) \in Nat /\ Occurrences(accepted, id) \in Nat
    BY OccurrencesType DEF QueueType, StoreTypeOK
  <1> QED
    BY <1>1, <1>2, <1>3 DEF Pending

\* A step after which the copies of an id are at most as many more as its
\* acceptances keeps the property.
LEMMA CopiesStep ==
  ASSUME RepeatedOnce, QueueType, StoreTypeOK, NEW id \in Id,
         NEW k \in Nat,
         Cardinality(Waiting(id)') \in Nat, Occurrences(sent', id) \in Nat,
         Pending(id)' \in {0, 1},
         Occurrences(accepted', id) = Occurrences(accepted, id) + k,
         Cardinality(Waiting(id)') + Pending(id)' + Occurrences(sent', id)
           <= Cardinality(Waiting(id)) + Pending(id) + Occurrences(sent, id) + k
  PROVE  Copies(id)' <= Occurrences(accepted', id)
  <1> DEFINE c == Cardinality(Waiting(id)) + Pending(id) + Occurrences(sent, id)
  <1> DEFINE d == Cardinality(Waiting(id)') + Pending(id)' + Occurrences(sent', id)
  <1> DEFINE a == Occurrences(accepted, id)
  <1>1. Copies(id) = c /\ Copies(id)' = d
    BY CopiesAre DEF Copies, Waiting, Pending
  <1>2. c <= a
    BY <1>1 DEF RepeatedOnce
  <1>3. c \in Int /\ d \in Int /\ a \in Int /\ d <= c + k
    BY CopiesType
  <1>4. Occurrences(accepted', id) = a + k
    OBVIOUS
  <1> HIDE DEF c, d, a
  <1>5. d <= a + k
    BY <1>2, <1>3
  <1> QED
    BY <1>1, <1>4, <1>5

\* add() of a packet that the store has accepted.
LEMMA PutCopies ==
  ASSUME RepeatedOnce, QueueType, StoreTypeOK, NEW q \in QPacket,
         NEW i \in QSlot, Put(i, q), accepted' = Append(accepted, q.id),
         UNCHANGED <<p, sent>>
  PROVE  RepeatedOnce'
  <1> SUFFICES ASSUME NEW id \in Id
               PROVE  Copies(id)' <= Occurrences(accepted', id)
    BY DEF RepeatedOnce
  <1> DEFINE k == IF q.id = id THEN 1 ELSE 0
  <1>1. Occurrences(accepted', id) = Occurrences(accepted, id) + k /\ k \in Nat
    BY OccurrencesAppend DEF StoreTypeOK, QPacket
  <1>2. Pending(id)' = Pending(id) /\ Occurrences(sent', id) = Occurrences(sent, id)
    BY DEF Pending
  <1>3. /\ q.id = id => Waiting(id)' = Waiting(id) \cup {i}
        /\ q.id # id => Waiting(id)' = Waiting(id) \ {i}
    BY DEF QueueType, Put, Waiting
  <1>4. /\ Waiting(id) \in SUBSET QSlot /\ Cardinality(Waiting(id)) \in Nat
        /\ Pending(id) \in {0, 1} /\ Occurrences(sent, id) \in Nat
    BY CopiesType
  <1>5. /\ Cardinality(Waiting(id)') \in Nat
        /\ Cardinality(Waiting(id)') <= Cardinality(Waiting(id)) + k
    <2>1. CASE q.id = id /\ i \in Waiting(id)
      <3>1. Waiting(id)' = Waiting(id) /\ k = 1
        BY <1>3, <2>1
      <3> QED
        BY <1>4, <3>1
    <2>2. CASE q.id = id /\ i \notin Waiting(id)
      <3>1. Cardinality(Waiting(id)') = Cardinality(Waiting(id)) + 1 /\ k = 1
        BY <1>3, <1>4, <2>2, SlotSet
      <3> QED
        BY <1>4, <3>1
    <2>3. CASE q.id # id /\ i \in Waiting(id)
      <3>1. Cardinality(Waiting(id)') = Cardinality(Waiting(id)) - 1 /\ k = 0
        BY <1>3, <1>4, <2>3, SlotSet
      <3>2. Waiting(id)' \in SUBSET QSlot
        BY DEF Waiting
      <3>3. Cardinality(Waiting(id)') \in Nat
        BY <3>2, SlotSet
      <3> QED
        BY <1>4, <3>1, <3>3
    <2>4. CASE q.id # id /\ i \notin Waiting(id)
      <3>1. Waiting(id)' = Waiting(id) /\ k = 0
        BY <1>3, <2>4
      <3> QED
        BY <1>4, <3>1
    <2> QED
      BY <2>1, <2>2, <2>3, <2>4
  <1> HIDE DEF k
  <1>6. Cardinality(Waiting(id)') + Pending(id)' + Occurrences(sent', id)
          <= Cardinality(Waiting(id)) + Pending(id) + Occurrences(sent, id) + k
    BY <1>1, <1>2, <1>4, <1>5
  <1> QED
    BY <1>1, <1>2, <1>4, <1>5, <1>6, CopiesStep

\* An id is accepted and nothing is queued.
LEMMA AcceptCopies ==
  ASSUME RepeatedOnce, QueueType, StoreTypeOK, NEW x \in Id \cup {Zero},
         accepted' = Append(accepted, x), UNCHANGED <<Queue, p, sent>>
  PROVE  RepeatedOnce'
  <1> SUFFICES ASSUME NEW id \in Id
               PROVE  Copies(id)' <= Occurrences(accepted', id)
    BY DEF RepeatedOnce
  <1> DEFINE k == IF x = id THEN 1 ELSE 0
  <1>1. Occurrences(accepted', id) = Occurrences(accepted, id) + k /\ k \in Nat
    BY OccurrencesAppend DEF StoreTypeOK
  <1>2. /\ Pending(id)' = Pending(id) /\ Waiting(id)' = Waiting(id)
        /\ Occurrences(sent', id) = Occurrences(sent, id)
    BY DEF Pending, Waiting
  <1>3. /\ Cardinality(Waiting(id)) \in Nat
        /\ Pending(id) \in {0, 1} /\ Occurrences(sent, id) \in Nat
    BY CopiesType
  <1> HIDE DEF k
  <1>4. Cardinality(Waiting(id)') + Pending(id)' + Occurrences(sent', id)
          <= Cardinality(Waiting(id)) + Pending(id) + Occurrences(sent, id) + k
    BY <1>1, <1>2, <1>3
  <1> QED
    BY <1>1, <1>2, <1>3, <1>4, CopiesStep

\* pop() moves a packet from the queue.
LEMMA PopCopies ==
  ASSUME RepeatedOnce, QueueType, StoreTypeOK, PopNewest, p = None,
         UNCHANGED <<accepted, sent>>
  PROVE  RepeatedOnce'
  <1> SUFFICES ASSUME NEW id \in Id
               PROVE  Copies(id)' <= Occurrences(accepted', id)
    BY DEF RepeatedOnce
  <1>1. PICK i \in Occupied : i = Newest(Occupied)
    BY OccupiedType DEF PopNewest
  <1>2. i \in QSlot /\ Queue' = [Queue EXCEPT ![i] = None] /\ p' = Queue[i]
        /\ Queue \in [QSlot -> QPacket]
    BY <1>1 DEF PopNewest, Occupied, QueueType
  <1>3. id # Zero
    BY ZeroIsNoId
  <1>4. Pending(id) = 0 /\ Waiting(id)' = Waiting(id) \ {i}
        /\ (i \in Waiting(id) <=> Queue[i].id = id)
    BY <1>2, <1>3, NoneType DEF Pending, Waiting
  <1>5. /\ Waiting(id) \in SUBSET QSlot /\ Cardinality(Waiting(id)) \in Nat
        /\ Occurrences(sent, id) \in Nat /\ Occurrences(accepted, id) \in Nat
    BY CopiesType
  <1>6. /\ Cardinality(Waiting(id)') \in Nat /\ Pending(id)' \in {0, 1}
        /\ Cardinality(Waiting(id)') + Pending(id)' = Cardinality(Waiting(id)) + 0
    <2>1. Waiting(id)' \in SUBSET QSlot
      BY DEF Waiting
    <2>2. Cardinality(Waiting(id)') \in Nat
      BY <2>1, <1>2, SlotSet
    <2>3. CASE i \in Waiting(id)
      <3>1. Cardinality(Waiting(id)') = Cardinality(Waiting(id)) - 1
        BY <1>2, <1>4, <1>5, <2>3, SlotSet
      <3>2. Pending(id)' = 1
        BY <1>2, <1>4, <2>3 DEF Pending
      <3> QED
        BY <1>5, <2>2, <3>1, <3>2
    <2>4. CASE i \notin Waiting(id)
      <3>1. Waiting(id)' = Waiting(id)
        BY <1>4, <2>4
      <3>2. Pending(id)' = 0
        BY <1>2, <1>4, <2>4 DEF Pending
      <3> QED
        BY <1>5, <3>1, <3>2
    <2> QED
      BY <2>3, <2>4
  <1>7. /\ Cardinality(Waiting(id)') + Pending(id)' + Occurrences(sent', id)
             <= Cardinality(Waiting(id)) + Pending(id) + Occurrences(sent, id) + 0
        /\ Occurrences(accepted', id) = Occurrences(accepted, id) + 0
        /\ Occurrences(sent', id) \in Nat /\ 0 \in Nat
    BY <1>4, <1>5, <1>6
  <1> QED
    BY <1>6, <1>7, CopiesStep

\* The packet that was about to be sent is dropped, or sent.
LEMMA EndCopies ==
  ASSUME RepeatedOnce, QueueType, StoreTypeOK, p' = None,
         sent' \in {sent, Append(sent, p.id)}, UNCHANGED <<accepted, Queue>>
  PROVE  RepeatedOnce'
  <1> SUFFICES ASSUME NEW id \in Id
               PROVE  Copies(id)' <= Occurrences(accepted', id)
    BY DEF RepeatedOnce
  <1>1. id # Zero
    BY ZeroIsNoId
  <1>2. Pending(id)' = 0 /\ Waiting(id)' = Waiting(id)
    BY <1>1, NoneType DEF Pending, Waiting
  <1>3. /\ Cardinality(Waiting(id)) \in Nat /\ Pending(id) \in {0, 1}
        /\ Occurrences(sent, id) \in Nat /\ Occurrences(accepted, id) \in Nat
    BY CopiesType
  <1>4. /\ Occurrences(sent', id) \in Nat
        /\ Occurrences(sent', id) <= Occurrences(sent, id) + Pending(id)
    <2>1. CASE sent' = sent
      BY <1>3, <2>1
    <2>2. CASE sent' = Append(sent, p.id)
      <3>a. p.id \in Id \cup {Zero} /\ sent \in Seq(Id \cup {Zero})
        BY DEF QueueType, QPacket
      <3>b. Occurrences(Append(sent, p.id), id)
              = Occurrences(sent, id) + (IF p.id = id THEN 1 ELSE 0)
        BY <3>a, OccurrencesAppend
      <3>1. Occurrences(sent', id) = Occurrences(sent, id) + Pending(id)
        BY <2>2, <3>b DEF Pending
      <3> QED
        BY <1>3, <3>1
    <2> QED
      BY <2>1, <2>2
  <1>5. /\ Cardinality(Waiting(id)') + Pending(id)' + Occurrences(sent', id)
             <= Cardinality(Waiting(id)) + Pending(id) + Occurrences(sent, id) + 0
        /\ Occurrences(accepted', id) = Occurrences(accepted, id) + 0
        /\ Cardinality(Waiting(id)') \in Nat /\ Pending(id)' \in {0, 1} /\ 0 \in Nat
    BY <1>2, <1>3, <1>4
  <1> QED
    BY <1>4, <1>5, CopiesStep

-----------------------------------------------------------------------------
(* The steps of loop() and of the radio                                    *)

\* The initial state satisfies the invariant.
LEMMA InitInv == Init => Inv
  <1> SUFFICES ASSUME Init PROVE Inv
    OBVIOUS
  <1>1. StoreTypeOK /\ accepted = <<>> /\ Len(accepted) = 0
    BY AddsBound DEF Init, StoreInit, StoreTypeOK
  <1>2. LoopType
    <2>1. air \in Heard
      BY NoFrameType DEF Init
    <2>2. rx \in 0 .. MaxRx /\ fails \in 0 .. MaxFails
      BY RxBounds DEF Init
    <2> QED
      BY <2>1, <2>2 DEF Init, LoopType
  <1>3. QueueType
    <2>1. Queue \in [QSlot -> QPacket] /\ p \in QPacket
      BY NoneType DEF Init
    <2>2. Count \in 0 .. CountMod - 1
      BY CountAssumption, QueueAssumption DEF Init
    <2>3. sent \in Seq(Id \cup {Zero})
      BY DEF Init
    <2> QED
      BY <2>1, <2>2, <2>3 DEF Init, QueueType
  <1>4. Numbered /\ ListensAgain
    BY NoFrameType DEF Init, Numbered, ListensAgain
  <1>5. CountExact
    <2>1. Occupied = {}
      BY DEF Init, Occupied
    <2>2. Cardinality(Occupied) = 0
      BY <2>1, FS_EmptySet
    <2> QED
      BY <2>2 DEF Init, CountExact
  <1>6. RepeatedOnce
    <2> SUFFICES ASSUME NEW id \in Id PROVE Copies(id) <= Occurrences(accepted, id)
      BY DEF RepeatedOnce
    <2>1. id # Zero
      BY ZeroIsNoId
    <2>2. Waiting(id) = {} /\ Pending(id) = 0
      BY <2>1, NoneType DEF Init, Waiting, Pending
    <2>3. {n \in DOMAIN << >> : << >>[n] = id} = {}
      OBVIOUS
    <2>4. Occurrences(sent, id) = 0 /\ Occurrences(accepted, id) = 0
      BY <1>1, <2>3, FS_EmptySet DEF Init, Occurrences
    <2>5. Cardinality(Waiting(id)) = 0
      BY <2>2, FS_EmptySet
    <2>6. Copies(id) = 0 + 0 + 0
      BY <2>2, <2>4, <2>5, CopiesAre
    <2> QED
      BY <2>4, <2>6
  <1>7. StoreOK
    <2>1. ThisRound(0)
      BY <1>1, ListSizeAssumption DEF Init, StoreInit, ThisRound, Word
    <2>2. LastRound(0)
      BY <1>1 DEF LastRound, Before
    <2>3. RepeatsAreFar
      BY <1>1 DEF RepeatsAreFar
    <2>4. 0 \in 0 .. ListSize
      BY ListSizeAssumption
    <2> QED
      BY <2>1, <2>2, <2>3, <2>4 DEF StoreOK
  <1> QED
    BY <1>1, <1>2, <1>3, <1>4, <1>5, <1>6, <1>7 DEF Inv, TypeOK

\* The steps that leave the store, the queue and the histories alone.
LEMMA QuietInv ==
  ASSUME Inv, LoopType', Numbered', ListensAgain',
         UNCHANGED <<storeVars, outside, lost, Queue, Count, p, sent>>
  PROVE  Inv'
  <1>1. StoreTypeOK' /\ StoreOK'
    BY StoreKept DEF Inv, TypeOK
  <1>2. QueueType'
    BY DEF Inv, TypeOK, QueueType
  <1>3. CountExact'
    BY DEF Inv, CountExact, Wrapped, Occupied
  <1>4. RepeatedOnce'
    BY DEF Inv, RepeatedOnce, Copies, Occurrences, storeVars
  <1> QED
    BY <1>1, <1>2, <1>3, <1>4 DEF Inv, TypeOK

\* A frame arrives and raises dio1.
LEMMA ReceiveInv ==
  ASSUME Inv, NEW h \in Heard, Receive(h)
  PROVE  Inv'
  <1>1. LoopType'
    BY RxBounds DEF Inv, TypeOK, LoopType, Receive
  <1>2. Numbered'
    BY RxBounds DEF Inv, TypeOK, LoopType, Receive, Numbered
  <1>3. ListensAgain'
    BY DEF Receive, ListensAgain
  <1> QED
    BY <1>1, <1>2, <1>3, QuietInv DEF Receive

\* A minute passes.
LEMMA MinuteInv ==
  ASSUME Inv, Minute
  PROVE  Inv'
  <1>1. LoopType' /\ Numbered' /\ ListensAgain'
    BY DEF Inv, TypeOK, LoopType, Minute, Numbered, ListensAgain
  <1> QED
    BY <1>1, QuietInv DEF Minute

\* The steps of loop() that neither read a packet nor touch the queue.
LEMMA ControlInv ==
  ASSUME Inv, NoPacket \/ ReadBad \/ TxKeep \/ WaitInterrupted \/ StartTx
                \/ TxFailed \/ ResumeRx \/ ResumeRxFails \/ RestartRx
                \/ FullStop \/ EndOfLoop
  PROVE  Inv'
  <1> USE DEF Inv, TypeOK, LoopType, Numbered, ListensAgain, Goto
  <1>1. CASE NoPacket
    <2>1. LoopType' /\ Numbered' /\ ListensAgain'
      BY <1>1 DEF NoPacket
    <2> QED
      BY <1>1, <2>1, QuietInv DEF NoPacket
  <1>2. CASE ReadBad
    <2>1. LoopType' /\ Numbered' /\ ListensAgain'
      BY <1>2, NoFrameType DEF ReadBad, ClearDio1
    <2> QED
      BY <1>2, <2>1, QuietInv DEF ReadBad
  <1>3. CASE TxKeep
    <2>1. LoopType' /\ Numbered' /\ ListensAgain'
      BY <1>3 DEF TxKeep
    <2> QED
      BY <1>3, <2>1, QuietInv DEF TxKeep
  <1>4. CASE WaitInterrupted
    <2>1. LoopType' /\ Numbered' /\ ListensAgain'
      BY <1>4 DEF WaitInterrupted
    <2> QED
      BY <1>4, <2>1, QuietInv DEF WaitInterrupted
  <1>5. CASE StartTx
    <2>1. LoopType' /\ Numbered' /\ ListensAgain'
      BY <1>5, NoFrameType DEF StartTx, ClearDio1
    <2> QED
      BY <1>5, <2>1, QuietInv DEF StartTx
  <1>6. CASE TxFailed
    <2>1. LoopType' /\ Numbered' /\ ListensAgain'
      BY <1>6, RxBounds DEF TxFailed
    <2> QED
      BY <1>6, <2>1, QuietInv DEF TxFailed
  <1>7. CASE ResumeRx
    <2>1. LoopType' /\ Numbered' /\ ListensAgain'
      BY <1>7, NoFrameType DEF ResumeRx, ClearDio1
    <2> QED
      BY <1>7, <2>1, QuietInv DEF ResumeRx
  <1>8. CASE EndOfLoop
    <2>1. LoopType' /\ Numbered' /\ ListensAgain'
      BY <1>8 DEF EndOfLoop
    <2> QED
      BY <1>8, <2>1, QuietInv DEF EndOfLoop
  <1>9. CASE ResumeRxFails
    <2>1. LoopType'
      <3>1. fails' \in 0 .. MaxFails /\ rx' \in 0 .. MaxRx
        BY <1>9, RxBounds DEF ResumeRxFails
      <3>2. /\ air' = NoFrame /\ dio1' = FALSE /\ receiving' = FALSE
            /\ PacketSent' = FALSE /\ late' = late /\ pc' = "restart"
        BY <1>9 DEF ResumeRxFails, ClearDio1
      <3> QED
        BY <3>1, <3>2, NoFrameType
    <2>2. Numbered' /\ ListensAgain'
      BY <1>9, NoFrameType DEF ResumeRxFails, ClearDio1
    <2> QED
      BY <1>9, <2>1, <2>2, QuietInv DEF ResumeRxFails
  <1>10. CASE RestartRx
    <2>1. LoopType' /\ Numbered' /\ ListensAgain'
      BY <1>10 DEF RestartRx
    <2> QED
      BY <1>10, <2>1, QuietInv DEF RestartRx
  <1>11. CASE FullStop
    <2>1. LoopType' /\ Numbered' /\ ListensAgain'
      BY <1>11 DEF FullStop
    <2> QED
      BY <1>11, <2>1, QuietInv DEF FullStop
  <1> QED
    BY <1>1, <1>2, <1>3, <1>4, <1>5, <1>6, <1>7, <1>8, <1>9, <1>10, <1>11

\* A packet that is not repeated: known, or new with a hop limit of 0.
LEMMA ReadNoRepeatInv ==
  ASSUME Inv, ReadNoRepeat
  PROVE  Inv'
  <1>0. air.id \in Id \cup {Zero}
    BY AirType DEF Inv, TypeOK
  <1>1. LoopType' /\ Numbered' /\ ListensAgain'
    BY NoFrameType
       DEF Inv, TypeOK, LoopType, Numbered, ListensAgain, ReadNoRepeat, ClearDio1,
           Goto
  <1>2. CASE AddKnown(air.id)
    BY <1>1, <1>2, QuietInv DEF ReadNoRepeat, AddKnown
  <1>3. CASE AddNew(air.id)
    <2>1. StoreTypeOK' /\ StoreOK'
      BY <1>0, <1>3, AddNewStore DEF Inv, TypeOK, ReadNoRepeat
    <2>2. QueueType'
      BY DEF Inv, TypeOK, QueueType, ReadNoRepeat
    <2>3. CountExact'
      BY DEF Inv, CountExact, Wrapped, Occupied, ReadNoRepeat
    <2>4. RepeatedOnce'
      BY <1>0, <1>3, AcceptCopies DEF Inv, TypeOK, ReadNoRepeat, AddNew
    <2> QED
      BY <1>1, <2>1, <2>2, <2>3, <2>4 DEF Inv, TypeOK
  <1> QED
    BY <1>2, <1>3 DEF ReadNoRepeat

\* A packet that goes to the queue.
LEMMA ReadRepeatInv ==
  ASSUME Inv, ReadRepeat
  PROVE  Inv'
  <1> DEFINE q == [id |-> air.id, time |-> rx]
  <1>0. air.id \in Id \cup {Zero}
    BY AirType DEF Inv, TypeOK
  <1>1. q \in QPacket /\ q # None /\ q.id = air.id
    BY <1>0, RxBounds DEF Inv, TypeOK, LoopType, Numbered, ReadRepeat, QPacket, None
  <1>2. LoopType' /\ Numbered' /\ ListensAgain'
    BY NoFrameType
       DEF Inv, TypeOK, LoopType, Numbered, ListensAgain, ReadRepeat, ClearDio1,
           Goto
  <1>3. AddNew(air.id) /\ UNCHANGED <<outside, p, sent>>
        /\ (AddFree(q) \/ AddOverNewest(q))
    BY DEF ReadRepeat
  <1>4. PICK i \in QSlot : /\ Put(i, q)
                           /\ \/ lost' = lost /\ Queue[i] = None
                              \/ lost' = lost + 1 /\ Queue[i] # None
    <2>1. CASE AddFree(q)
      BY <2>1 DEF AddFree, Occupied
    <2>2. CASE AddOverNewest(q)
      <3>1. Newest(QSlot \ {0}) \in QSlot
        BY OccupiedType DEF Inv, TypeOK
      <3> QED
        BY <2>2, <3>1 DEF AddOverNewest, Occupied
    <2> QED
      BY <1>3, <2>1, <2>2
  <1> HIDE DEF q
  <1>5. StoreTypeOK' /\ StoreOK'
    BY <1>0, <1>3, AddNewStore DEF Inv, TypeOK
  <1>6. /\ Queue' \in [QSlot -> QPacket] /\ Count' \in 0 .. CountMod - 1
        /\ lost' \in Nat /\ CountExact'
    BY <1>1, <1>3, <1>4, PutCount DEF Inv, TypeOK
  <1>7. QueueType'
    BY <1>3, <1>6 DEF Inv, TypeOK, QueueType
  <1>8. RepeatedOnce'
    BY <1>1, <1>3, <1>4, PutCopies DEF Inv, TypeOK, AddNew
  <1> QED
    BY <1>2, <1>5, <1>6, <1>7, <1>8 DEF Inv, TypeOK

\* A packet that is written outside of the queue.
LEMMA ReadOutsideInv ==
  ASSUME Inv, ReadOutside
  PROVE  Inv'
  <1>0. air.id \in Id \cup {Zero}
    BY AirType DEF Inv, TypeOK
  <1>1. LoopType' /\ Numbered' /\ ListensAgain'
    BY NoFrameType
       DEF Inv, TypeOK, LoopType, Numbered, ListensAgain, ReadOutside, ClearDio1,
           Goto
  <1>2. outside' = TRUE
    BY DEF ReadOutside
  <1>3. StoreTypeOK'
    <2> DEFINE n == Len(accepted)
    <2>1. n \in Nat /\ n < MaxAdds /\ Len(accepted') = n + 1
          /\ accepted' \in Seq(Id \cup {Zero})
      BY <1>0 DEF Inv, TypeOK, StoreTypeOK, ReadOutside
    <2> HIDE DEF n
    <2>2. Len(accepted') <= MaxAdds
      BY <2>1, AddsBound
    <2> QED
      BY <2>1, <2>2 DEF ReadOutside, StoreTypeOK
  <1>4. QueueType'
    BY <1>2 DEF Inv, TypeOK, QueueType, ReadOutside, AddOutside
  <1>5. RepeatedOnce'
    BY <1>0, AcceptCopies DEF Inv, TypeOK, ReadOutside, AddOutside
  <1> QED
    BY <1>1, <1>2, <1>3, <1>4, <1>5 DEF Inv, TypeOK, StoreOK, CountExact

\* pop() moves the newest packet from the queue to p.
LEMMA TxPopInv ==
  ASSUME Inv, TxPop
  PROVE  Inv'
  <1>1. LoopType' /\ Numbered' /\ ListensAgain'
    BY DEF Inv, TypeOK, LoopType, Numbered, ListensAgain, TxPop, Goto
  <1>2. StoreTypeOK' /\ StoreOK'
    BY StoreKept DEF Inv, TypeOK, TxPop
  <1>3. /\ Queue' \in [QSlot -> QPacket] /\ Count' \in 0 .. CountMod - 1
        /\ p' \in QPacket /\ CountExact'
    BY PopCount DEF Inv, TypeOK, TxPop
  <1>4. QueueType'
    BY <1>3 DEF Inv, TypeOK, QueueType, TxPop
  <1>5. RepeatedOnce'
    BY PopCopies DEF Inv, TypeOK, TxPop, storeVars
  <1> QED
    BY <1>1, <1>2, <1>3, <1>4, <1>5 DEF Inv, TypeOK

\* pop() finds nothing, and sets Count to 0.
LEMMA TxPopEmptyInv ==
  ASSUME Inv, TxPopEmpty
  PROVE  Inv'
  <1>1. LoopType' /\ Numbered' /\ ListensAgain'
    BY DEF Inv, TypeOK, LoopType, Numbered, ListensAgain, TxPopEmpty, Goto
  <1>2. StoreTypeOK' /\ StoreOK'
    BY StoreKept DEF Inv, TypeOK, TxPopEmpty
  <1>3. QueueType'
    BY CountAssumption, QueueAssumption DEF Inv, TypeOK, QueueType, TxPopEmpty
  <1>4. CountExact'
    <2>1. Occupied' = {} /\ Count' = 0 /\ lost' = 0
      BY DEF TxPopEmpty, Occupied
    <2>2. Cardinality(Occupied') = 0
      BY <2>1, FS_EmptySet
    <2> QED
      BY <2>1, <2>2 DEF CountExact
  <1>5. RepeatedOnce'
    BY DEF Inv, RepeatedOnce, Copies, Occurrences, storeVars, TxPopEmpty
  <1> QED
    BY <1>1, <1>2, <1>3, <1>4, <1>5 DEF Inv, TypeOK

\* The packet to send is dropped, or sent.
LEMMA EndTxInv ==
  ASSUME Inv, Drop \/ TxDone
  PROVE  Inv'
  <1>1. LoopType' /\ Numbered' /\ ListensAgain'
    <2>1. CASE Drop
      BY <2>1 DEF Inv, TypeOK, LoopType, Numbered, ListensAgain, Drop, Goto
    <2>2. CASE TxDone
      BY <2>2 DEF Inv, TypeOK, LoopType, Numbered, ListensAgain, TxDone, Goto
    <2> QED
      BY <2>1, <2>2
  <1>2. StoreTypeOK' /\ StoreOK'
    BY StoreKept DEF Inv, TypeOK, Drop, TxDone
  <1>3. /\ p' = None /\ sent' \in {sent, Append(sent, p.id)}
        /\ UNCHANGED <<accepted, Queue, Count, outside, lost>>
    BY DEF Drop, TxDone, storeVars
  <1>4. QueueType'
    <2>1. p.id \in Id \cup {Zero} /\ sent \in Seq(Id \cup {Zero})
      BY DEF Inv, TypeOK, QueueType, QPacket
    <2>2. sent' \in Seq(Id \cup {Zero})
      BY <1>3, <2>1
    <2> QED
      BY <1>3, <2>2, NoneType DEF Inv, TypeOK, QueueType
  <1>5. CountExact'
    BY <1>3 DEF Inv, CountExact, Wrapped, Occupied
  <1>6. RepeatedOnce'
    BY <1>3, EndCopies DEF Inv, TypeOK
  <1> QED
    BY <1>1, <1>2, <1>4, <1>5, <1>6 DEF Inv, TypeOK

\* Every step keeps the invariant.
LEMMA NextInv == Inv /\ [Next]_vars => Inv'
  <1> SUFFICES ASSUME Inv, [Next]_vars PROVE Inv'
    OBVIOUS
  <1>1. CASE NoPacket \/ ReadBad \/ TxKeep \/ WaitInterrupted \/ StartTx
               \/ TxFailed \/ ResumeRx \/ ResumeRxFails \/ RestartRx
               \/ FullStop \/ EndOfLoop
    BY <1>1, ControlInv
  <1>2. CASE ReadNoRepeat \/ ReadRepeat \/ ReadOutside
    BY <1>2, ReadNoRepeatInv, ReadRepeatInv, ReadOutsideInv
  <1>3. CASE TxPop \/ TxPopEmpty
    BY <1>3, TxPopInv, TxPopEmptyInv
  <1>4. CASE Drop \/ TxDone
    BY <1>4, EndTxInv
  <1>5. CASE Minute
    BY <1>5, MinuteInv
  <1>6. CASE \E h \in Heard : Receive(h)
    BY <1>6, ReceiveInv
  <1>7. CASE UNCHANGED vars
    <2>1. LoopType' /\ Numbered' /\ ListensAgain'
      BY <1>7 DEF Inv, TypeOK, LoopType, Numbered, ListensAgain, vars, repVars
    <2> QED
      BY <1>7, <2>1, QuietInv DEF vars, repVars
  <1> QED
    BY <1>1, <1>2, <1>3, <1>4, <1>5, <1>6, <1>7 DEF Next, Loop, Interrupt

\* The invariant holds in every reachable state.
THEOREM Invariance == Spec => []Inv
  BY InitInv, NextInv, PTL DEF Spec

\* Type correctness, over any traffic and any failures.
THEOREM TypeCorrect == Spec => []TypeOK
  <1>1. Inv => TypeOK
    BY DEF Inv
  <1> QED
    BY <1>1, Invariance, PTL

\* While the radio is not receiving, a transmission is under way, loop() is
\* going to restart the reception or startReceive() is at it, or the modem
\* could not be started again and applyModemConfig() has stopped.
THEOREM NeverDeaf == Spec => []ListensAgain
  <1>1. Inv => ListensAgain
    BY DEF Inv
  <1> QED
    BY <1>1, Invariance, PTL

\* Count is at least the number of packets in the queue, unless packets were
\* written outside of it or so many overwritten that Count may have wrapped.
THEOREM CountSuffices == Spec => []CountCovers
  <1>1. Inv => CountCovers
    <2> SUFFICES ASSUME Inv PROVE CountCovers
      OBVIOUS
    <2>1. Occupied \in SUBSET QSlot
      BY DEF Occupied
    <2>2. Cardinality(Occupied) \in Nat /\ lost \in Nat
      BY <2>1, SlotSet, SlotsFinite DEF Inv, TypeOK, QueueType
    <2>3. Count = Cardinality(Occupied) + lost => Count >= Cardinality(Occupied)
      BY <2>2
    <2> QED
      BY <2>3 DEF Inv, CountExact, CountCovers
  <1> QED
    BY <1>1, Invariance, PTL

\* A packet is queued, about to be sent and sent at most as often as its id was
\* accepted by the store.
THEOREM SentOnce == Spec => []RepeatedOnce
  <1>1. Inv => RepeatedOnce
    BY DEF Inv
  <1> QED
    BY <1>1, Invariance, PTL

\* The last MAX_ID_LIST - 1 ids accepted are known to the list, and an id is
\* accepted again only MAX_ID_LIST acceptances later, with ids of 0 too.
THEOREM RecentRefused == Spec => []RecentNotRepeated
  <1>1. Inv => RecentNotRepeated
    <2> SUFFICES ASSUME Inv, ~ outside PROVE RecentKnown /\ RepeatsAreFar
      BY DEF RecentNotRepeated
    <2>1. PICK i \in 0 .. ListSize : ThisRound(i) /\ LastRound(i)
      BY DEF Inv, StoreOK
    <2>2. RecentKnown
      BY <2>1, RoundRecent DEF Inv, TypeOK
    <2> QED
      BY <2>2 DEF Inv, StoreOK
  <1> QED
    BY <1>1, Invariance, PTL
=============================================================================
