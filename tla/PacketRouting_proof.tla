------------------------- MODULE PacketRouting_proof -------------------------
(***************************************************************************)
(* The duplicate cache and the acknowledgement tracker of lunarcore, for   *)
(* every size of the tables, every period of the clock, and any number of  *)
(* packets.                                                                *)
(*                                                                         *)
(* Ring says what the cache stands for: the slots hold the last            *)
(* PACKET_CACHE_SIZE packets accepted, in a ring that starts at index,     *)
(* except the ones that were cleared and the ones without a sender.        *)
(* Measured relates the wrapping times the code has with true ages.        *)
(***************************************************************************)
EXTENDS PacketRouting, SequenceTheorems, TLAPS

-----------------------------------------------------------------------------
(* The invariant                                                           *)

Entry == [from : Node \cup {Nobody}, id : PacketId, cleared : BOOLEAN]

LogType ==
    /\ log \in Seq(Entry)
    /\ \A n \in DOMAIN log : KeyOf(log[n]) \in Packet

\* The n-th packet accepted still has its slot.
Held(n) == n > Len(log) - PACKET_CACHE_SIZE

Gone(n) == log[n].cleared \/ log[n].from = Nobody

Ring ==
    /\ index = Len(log) % PACKET_CACHE_SIZE
    /\ \A n \in DOMAIN log :
          Held(n) => IF Gone(n) THEN entries[SlotOf(n)].from = Nobody
                     ELSE KeyOf(entries[SlotOf(n)]) = KeyOf(log[n])
    /\ \A s \in CacheSlot : s >= Len(log) => entries[s].from = Nobody

\* How long ago the clock showed the time t, if it has wrapped at most once.
Since(t) == IF clock >= t THEN clock - t ELSE clock + ClockMod - t

\* An entry is at least as old as its time says, up to the limit.
Measured(age, t, limit) == age >= limit \/ age >= Since(t)

Ages ==
    /\ \A s \in CacheSlot :
          entries[s].from # Nobody
              => Measured(entries[s].age, entries[s].time, MaxAge + 1)
    /\ \A i \in AckSlot :
          pending[i].valid => Measured(pending[i].age, pending[i].last, Timeout)

\* Every tracked packet has an id of its own.
Tracked ==
    /\ \A i \in AckSlot : pending[i].valid => pending[i].id < sends
    /\ \A i, j \in AckSlot :
          pending[i].valid /\ pending[j].valid /\ pending[i].id = pending[j].id
              => i = j
    /\ \A a \in acked : a[2] < sends

Inv ==
    /\ TypeOK
    /\ LogType
    /\ Ring
    /\ AcceptedOnce
    /\ Ages
    /\ Tracked
    /\ AckedNotPending

-----------------------------------------------------------------------------
(* Arithmetic of the ring                                                  *)

\* Quotient and remainder are unique.
LEMMA DivUnique ==
    ASSUME NEW K \in Nat \ {0}, NEW p \in Int, NEW q \in Int,
           NEW r \in 0 .. K - 1, NEW s \in 0 .. K - 1,
           K * p + r = K * q + s
    PROVE  r = s
  <1> DEFINE k == p - q
  <1>1. K * k = K * p - K * q
    OBVIOUS
  <1>2. K * k = s - r /\ k \in Int
    BY <1>1
  <1> HIDE DEF k
  <1>3. (k >= 1 => K * k >= K) /\ (k <= -1 => K * k <= -K)
    BY <1>2
  <1>4. k = 0
    BY <1>2, <1>3
  <1> QED
    BY <1>2, <1>4

\* A number is a multiple of K and a remainder.
LEMMA DivMod ==
    ASSUME NEW K \in Nat \ {0}, NEW a \in Int
    PROVE  \E q \in Int : a = K * q + (a % K) /\ a % K \in 0 .. K - 1
  <1>1. a \div K \in Int /\ a = K * (a \div K) + (a % K) /\ a % K \in 0 .. K - 1
    OBVIOUS
  <1> QED
    BY <1>1

\* A number less than the size is its own slot; going round the ring comes
\* back; fewer steps do not.
LEMMA ModFacts ==
    ASSUME NEW K \in Nat \ {0}, NEW a \in Int
    PROVE  /\ a % K \in 0 .. K - 1
           /\ a \in 0 .. K - 1 => a % K = a
           /\ (a + K) % K = a % K
           /\ ((a % K) + 1) % K = (a + 1) % K
           /\ \A d \in 1 .. K - 1 : (a + d) % K # a % K
  <1> DEFINE r == a % K
  <1>1. PICK q \in Int : a = K * q + r /\ r \in 0 .. K - 1
    BY DivMod
  <1> HIDE DEF r
  <1>2. ASSUME NEW p \in Int, NEW s \in 0 .. K - 1, NEW b \in Int, b = K * p + s
        PROVE  b % K = s
    <2>1. PICK q2 \in Int : b = K * q2 + (b % K) /\ b % K \in 0 .. K - 1
      BY DivMod
    <2> QED
      BY <1>2, <2>1, DivUnique
  <1>3. a \in 0 .. K - 1 => a % K = a
    <2>1. a = K * 0 + a
      OBVIOUS
    <2> QED
      BY <1>2, <2>1
  <1>4. (a + K) % K = r
    <2>1. K * (q + 1) = K * q + K
      BY <1>1
    <2>2. a + K = K * (q + 1) + r
      BY <1>1, <2>1
    <2> QED
      BY <1>1, <1>2, <2>2
  <1>5. (r + 1) % K = (a + 1) % K
    <2>1. K * (q + 1) = K * q + K
      BY <1>1
    <2>2. CASE r = K - 1
      <3>1. r + 1 = K * 1 + 0 /\ a + 1 = K * (q + 1) + 0
        BY <1>1, <2>1, <2>2
      <3> QED
        BY <1>1, <1>2, <3>1
    <2>3. CASE r # K - 1
      <3>1. r + 1 = K * 0 + (r + 1) /\ a + 1 = K * q + (r + 1) /\ r + 1 \in 0 .. K - 1
        BY <1>1, <2>3
      <3> QED
        BY <1>1, <1>2, <3>1
    <2> QED
      BY <2>2, <2>3
  <1>6. ASSUME NEW d \in 1 .. K - 1
        PROVE  (a + d) % K # r
    <2>1. K * (q + 1) = K * q + K
      BY <1>1
    <2>2. CASE r + d < K
      <3>1. a + d = K * q + (r + d) /\ r + d \in 0 .. K - 1
        BY <1>1, <2>2
      <3> QED
        BY <1>1, <1>2, <3>1
    <2>3. CASE r + d >= K
      <3> DEFINE s == r + d - K
      <3>1. /\ a + d = K * (q + 1) + s /\ s \in 0 .. K - 1 /\ s # r
            /\ a + d \in Int /\ q + 1 \in Int
        BY <1>1, <2>1, <2>3
      <3> HIDE DEF s
      <3>2. (a + d) % K = s
        BY <1>2, <3>1, Zenon
      <3> QED
        BY <3>1, <3>2
    <2> QED
      BY <1>1, <2>2, <2>3
  <1> QED
    BY <1>1, <1>3, <1>4, <1>5, <1>6 DEF r

\* Where the last packets are, when L have been accepted.
LEMMA SlotFacts ==
    ASSUME NEW L \in Nat
    PROVE  /\ L % PACKET_CACHE_SIZE = SlotOf(L + 1)
           /\ SlotOf(L + 1) \in CacheSlot
           /\ \A n \in 1 .. L : SlotOf(n) \in CacheSlot
           /\ \A n \in 1 .. L :
                 n > L + 1 - PACKET_CACHE_SIZE => SlotOf(n) # SlotOf(L + 1)
           /\ L >= PACKET_CACHE_SIZE =>
                 SlotOf(L + 1 - PACKET_CACHE_SIZE) = SlotOf(L + 1)
           /\ L < PACKET_CACHE_SIZE => SlotOf(L + 1) = L
           /\ (SlotOf(L + 1) + 1) % PACKET_CACHE_SIZE = (L + 1) % PACKET_CACHE_SIZE
  <1> DEFINE K == PACKET_CACHE_SIZE
  <1>1. K \in Nat \ {0}
    BY SizeAssumption
  <1>2. SlotOf(L + 1) = L % K /\ \A n \in 1 .. L : SlotOf(n) = (n - 1) % K
    BY DEF SlotOf
  <1>3. CacheSlot = 0 .. K - 1
    BY DEF CacheSlot
  <1> HIDE DEF K
  <1>4. /\ L % K \in 0 .. K - 1 /\ (L \in 0 .. K - 1 => L % K = L)
        /\ ((L % K) + 1) % K = (L + 1) % K
    <2>1. L \in Int
      OBVIOUS
    <2> QED
      BY <1>1, <2>1, ModFacts, Zenon
  <1>5. ASSUME NEW n \in 1 .. L
        PROVE  SlotOf(n) \in CacheSlot /\ (n > L + 1 - K => SlotOf(n) # SlotOf(L + 1))
    <2> DEFINE a == n - 1
               d == L - a
    <2>1. a \in Int /\ a + d = L /\ (n > L + 1 - K => d \in 1 .. K - 1)
      BY <1>1
    <2>2. SlotOf(n) = a % K
      BY <1>2
    <2> HIDE DEF a, d
    <2>3. a % K \in 0 .. K - 1
      BY <1>1, <2>1, ModFacts, Zenon
    <2>4. \A x \in 1 .. K - 1 : (a + x) % K # a % K
      BY <1>1, <2>1, ModFacts, Zenon
    <2> QED
      BY <1>2, <1>3, <2>1, <2>2, <2>3, <2>4
  <1>6. ASSUME L >= K
        PROVE  SlotOf(L + 1 - K) = SlotOf(L + 1)
    <2> DEFINE a == L - K
    <2>1. a \in Int /\ a + K = L
      BY <1>1
    <2>2. SlotOf(L + 1 - K) = a % K
      <3>1. (L + 1 - K) - 1 = a
        BY <1>1
      <3> QED
        BY <3>1 DEF SlotOf, K
    <2> HIDE DEF a
    <2>3. (a + K) % K = a % K
      BY <1>1, <2>1, ModFacts
    <2> QED
      BY <1>2, <2>1, <2>2, <2>3
  <1>7. L < K => L \in 0 .. K - 1
    BY <1>1
  <1> QED
    BY <1>2, <1>3, <1>4, <1>5, <1>6, <1>7 DEF K

-----------------------------------------------------------------------------
(* The invariant is inductive                                              *)

\* Empty tables.
LEMMA InitInv == Init => Inv
  <1> SUFFICES ASSUME Init
               PROVE  Inv
    OBVIOUS
  <1>1. log = <<>> /\ log \in Seq(Entry) /\ Len(log) = 0 /\ DOMAIN log = {}
    BY EmptySeq DEF Init
  <1>2. 0 \in CacheSlot /\ 0 \in Time /\ 0 \in 0 .. MaxAge + 1
    BY SizeAssumption, TimeAssumption DEF CacheSlot, Time
  <1>3. entries \in [CacheSlot -> [from : Node \cup {Nobody},
                                   id : PacketId \cup {0}, time : Time,
                                   age : 0 .. MaxAge + 1]]
    BY <1>2 DEF Init, NoEntry
  <1>4. pending \in [AckSlot -> {NoAck}]
    BY DEF Init
  <1>5. TypeOK
    BY <1>2, <1>3, <1>4, TimeAssumption DEF Init, TypeOK
  <1>6. LogType /\ AcceptedOnce
    BY <1>1 DEF LogType, AcceptedOnce
  <1>7. 0 % PACKET_CACHE_SIZE = 0
    BY SizeAssumption
  <1>8. Ring
    BY <1>1, <1>7 DEF Ring, Init, NoEntry
  <1>9. Ages /\ Tracked /\ AckedNotPending
    BY DEF Ages, Tracked, AckedNotPending, Init, NoEntry, NoAck
  <1> QED
    BY <1>5, <1>6, <1>8, <1>9 DEF Inv

\* An accepted packet takes the slot of the oldest one.
LEMMA RoutePacketInv ==
    ASSUME Inv, NEW from, NEW id, <<from, id>> \in Packet, RoutePacket(from, id)
    PROVE  Inv'
  <1> DEFINE L == Len(log)
             e == [from |-> from, id |-> id, cleared |-> FALSE]
             c == [from |-> from, id |-> id, time |-> clock, age |-> 0]
  <1>1. from \in Node \cup {Nobody} /\ id \in PacketId /\ e \in Entry
    BY PacketAssumption DEF Entry
  <1>2. L \in Nat /\ DOMAIN log = 1 .. L /\ log \in Seq(Entry)
    BY LenProperties DEF Inv, LogType
  <1>3. /\ log' \in Seq(Entry) /\ Len(log') = L + 1 /\ DOMAIN log' = 1 .. L + 1
        /\ \A n \in 1 .. L : log'[n] = log[n]
        /\ log'[L + 1] = e
    <2>1. log' = Append(log, e)
      BY DEF RoutePacket
    <2> HIDE DEF e
    <2> QED
      BY <1>1, <1>2, <2>1, AppendProperties, LenProperties
  <1> HIDE DEF L
  <1>4. /\ index = SlotOf(L + 1) /\ index \in CacheSlot
        /\ index' = (L + 1) % PACKET_CACHE_SIZE
    BY <1>2, SlotFacts DEF Inv, Ring, RoutePacket, Add, L
  <1>5. /\ entries' = [entries EXCEPT ![index] = c]
        /\ UNCHANGED <<clock, pending, sends, acked>>
    BY DEF RoutePacket, Add, ackVars
  <1>6. entries'[index] = c /\ \A s \in CacheSlot : s # index => entries'[s] = entries[s]
    BY <1>4, <1>5 DEF Inv, TypeOK
  <1>7. TypeOK'
    <2>1. c \in [from : Node \cup {Nobody}, id : PacketId \cup {0}, time : Time,
                 age : 0 .. MaxAge + 1]
      BY <1>1, TimeAssumption DEF Inv, TypeOK
    <2> HIDE DEF c
    <2>2. index' \in CacheSlot
      BY <1>2, <1>4, SizeAssumption DEF CacheSlot
    <2> QED
      BY <1>4, <1>5, <2>1, <2>2 DEF Inv, TypeOK
  <1>8. LogType'
    BY <1>2, <1>3 DEF Inv, LogType, KeyOf
  <1>9. Ring'
    <2>1. ASSUME NEW n \in 1 .. L + 1, n > L + 1 - PACKET_CACHE_SIZE
          PROVE  IF Gone(n)' THEN entries'[SlotOf(n)].from = Nobody
                 ELSE KeyOf(entries'[SlotOf(n)]) = KeyOf(log'[n])
      <3>1. CASE n = L + 1
        BY <1>3, <1>4, <1>6, <3>1 DEF Gone, KeyOf
      <3>2. CASE n # L + 1
        <4>1. n \in 1 .. L /\ Held(n)
          BY <1>2, <2>1, <3>2, SizeAssumption DEF Held, L
        <4>2. SlotOf(n) \in CacheSlot /\ SlotOf(n) # index
          BY <1>2, <1>4, <2>1, <4>1, SlotFacts
        <4>3. log'[n] = log[n] /\ entries'[SlotOf(n)] = entries[SlotOf(n)]
          BY <1>3, <1>6, <4>1, <4>2
        <4> QED
          BY <1>2, <4>1, <4>3 DEF Inv, Ring, Gone
      <3> QED
        BY <3>1, <3>2
    <2>2. ASSUME NEW s \in CacheSlot, s >= L + 1
          PROVE  entries'[s].from = Nobody
      <3>1. L < PACKET_CACHE_SIZE /\ s >= L /\ s # L
        BY <1>2, <2>2, SizeAssumption DEF CacheSlot
      <3>2. s # index
        BY <1>2, <1>4, <3>1, SlotFacts
      <3> QED
        BY <1>6, <3>1, <3>2 DEF Inv, Ring, L
    <2>3. \A n : SlotOf(n)' = SlotOf(n)
      BY DEF SlotOf
    <2>4. ASSUME NEW n \in DOMAIN log', Held(n)'
          PROVE  n \in 1 .. L + 1 /\ n > L + 1 - PACKET_CACHE_SIZE
      BY <1>2, <1>3, <2>4, SizeAssumption DEF Held
    <2>5. index' = Len(log') % PACKET_CACHE_SIZE
      BY <1>3, <1>4
    <2>6. \A s \in CacheSlot : s >= Len(log') => entries'[s].from = Nobody
      BY <1>3, <2>2
    <2> QED
      BY <2>1, <2>3, <2>4, <2>5, <2>6 DEF Ring
  <1>10. AcceptedOnce'
    <2> SUFFICES ASSUME NEW m \in 1 .. L + 1, NEW n \in 1 .. L + 1, m < n,
                        log'[m].from = log'[n].from, log'[m].id = log'[n].id,
                        log'[m].from # Nobody,
                        ~ (n - m > PACKET_CACHE_SIZE), ~ log'[m].cleared
                 PROVE  FALSE
      BY <1>3 DEF AcceptedOnce
    <2>1. CASE n # L + 1
      <3>1. n \in 1 .. L /\ m \in 1 .. L
        BY <1>2, <2>1
      <3>2. log'[m] = log[m] /\ log'[n] = log[n]
        BY <1>3, <3>1
      <3> QED
        BY <1>2, <3>1, <3>2 DEF Inv, AcceptedOnce
    <2>2. CASE n = L + 1
      <3>1. m \in 1 .. L /\ Held(m) /\ log'[m] = log[m]
        BY <1>2, <1>3, <2>2, SizeAssumption DEF Held, L
      <3>2. KeyOf(entries[SlotOf(m)]) = KeyOf(log[m])
        BY <1>2, <3>1 DEF Inv, Ring, Gone
      <3>3. SlotOf(m) \in CacheSlot
        BY <1>2, <3>1, SlotFacts
      <3>4. entries[SlotOf(m)].from = from /\ entries[SlotOf(m)].id = id /\ from # Nobody
        BY <1>3, <2>2, <3>1, <3>2 DEF KeyOf
      <3> QED
        BY <3>3, <3>4 DEF RoutePacket, IsDuplicate
    <2> QED
      BY <2>1, <2>2
  <1>11. Ages'
    <2>1. Measured(0, clock, MaxAge + 1)
      BY TimeAssumption DEF Measured, Since, Inv, TypeOK, Time
    <2> QED
      BY <1>4, <1>5, <1>6, <2>1 DEF Inv, Ages, Measured, Since
  <1>12. Tracked' /\ AckedNotPending'
    BY <1>5 DEF Inv, Tracked, AckedNotPending
  <1> QED
    BY <1>7, <1>8, <1>9, <1>10, <1>11, <1>12 DEF Inv

\* What clearing does to the history: the packets stay, some become cleared.
LEMMA ClearOldLog ==
    ASSUME Inv, ClearOld
    PROVE  /\ log' \in Seq(Entry) /\ Len(log') = Len(log) /\ DOMAIN log' = DOMAIN log
           /\ \A n \in DOMAIN log :
                 /\ KeyOf(log'[n]) = KeyOf(log[n]) /\ log'[n].from = log[n].from
                 /\ log'[n].id = log[n].id
                 /\ log'[n].cleared <=> (log[n].cleared \/ (Held(n) /\ Expired(SlotOf(n))))
  <1> DEFINE L == Len(log)
             x(n) == log[n].cleared \/ (Held(n) /\ Expired(SlotOf(n)))
  <1>1. L \in Nat /\ DOMAIN log = 1 .. L /\ \A n \in 1 .. L : log[n] \in Entry
    BY LenProperties, ElementOfSeq DEF Inv, LogType
  <1>2. log' = [n \in 1 .. L |-> [log[n] EXCEPT !.cleared = x(n)]]
    BY <1>1 DEF ClearOld, Held
  <1>3. \A n \in 1 .. L : x(n) \in BOOLEAN
    BY <1>1 DEF Entry
  <1> HIDE DEF x
  <1>4. ASSUME NEW n \in 1 .. L
        PROVE  /\ log'[n] \in Entry /\ log'[n].from = log[n].from
               /\ log'[n].id = log[n].id /\ log'[n].cleared = x(n)
    BY <1>1, <1>2, <1>3 DEF Entry
  <1>5. log' \in [1 .. L -> Entry] /\ DOMAIN log' = 1 .. L
    BY <1>2, <1>4
  <1>6. log' \in Seq(Entry) /\ Len(log') = L
    BY <1>1, <1>5, SeqDef, LenProperties
  <1> QED
    BY <1>1, <1>4, <1>5, <1>6 DEF x, KeyOf

\* packet_cache_clear_old() makes holes, and marks them in the log.
LEMMA ClearOldInv ==
    ASSUME Inv, ClearOld
    PROVE  Inv'
  <1>1. /\ log' \in Seq(Entry) /\ Len(log') = Len(log) /\ DOMAIN log' = DOMAIN log
        /\ \A n \in DOMAIN log :
              /\ KeyOf(log'[n]) = KeyOf(log[n]) /\ log'[n].from = log[n].from
              /\ log'[n].id = log[n].id
              /\ log'[n].cleared <=> (log[n].cleared \/ (Held(n) /\ Expired(SlotOf(n))))
    BY ClearOldLog
  <1>2. /\ \A s \in CacheSlot :
              entries'[s] = IF Expired(s) THEN NoEntry ELSE entries[s]
        /\ UNCHANGED <<clock, index, pending, sends, acked>>
    BY DEF ClearOld, ackVars
  <1>3. DOMAIN log = 1 .. Len(log) /\ Len(log) \in Nat
    BY LenProperties DEF Inv, LogType
  <1>4. TypeOK'
    <2>1. NoEntry \in [from : Node \cup {Nobody}, id : PacketId \cup {0}, time : Time,
                       age : 0 .. MaxAge + 1]
      BY SizeAssumption, TimeAssumption DEF NoEntry, Time
    <2> QED
      BY <2>1 DEF Inv, TypeOK, ClearOld, ackVars
  <1>5. LogType' /\ AcceptedOnce'
    BY <1>1 DEF Inv, LogType, AcceptedOnce
  <1>6. Ring'
    <2>1. ASSUME NEW n \in DOMAIN log, Held(n)
          PROVE  IF Gone(n)' THEN entries'[SlotOf(n)].from = Nobody
                 ELSE KeyOf(entries'[SlotOf(n)]) = KeyOf(log'[n])
      <3>1. SlotOf(n) \in CacheSlot
        BY <1>3, SlotFacts
      <3>2. CASE Expired(SlotOf(n))
        BY <1>1, <1>2, <2>1, <3>1, <3>2 DEF Gone, NoEntry
      <3>3. CASE ~ Expired(SlotOf(n))
        <4>1. Gone(n)' <=> Gone(n)
          BY <1>1, <3>3 DEF Gone
        <4> QED
          BY <1>1, <1>2, <2>1, <3>1, <3>3, <4>1 DEF Inv, Ring
      <3> QED
        BY <3>2, <3>3
    <2>2. \A s \in CacheSlot : s >= Len(log') => entries'[s].from = Nobody
      BY <1>1, <1>2 DEF Inv, Ring, NoEntry
    <2>3. ASSUME NEW n
          PROVE  SlotOf(n)' = SlotOf(n) /\ (Held(n)' <=> Held(n))
      BY <1>1 DEF SlotOf, Held
    <2>4. index' = Len(log') % PACKET_CACHE_SIZE
      BY <1>1, <1>2 DEF Inv, Ring
    <2> QED
      BY <1>1, <2>1, <2>2, <2>3, <2>4 DEF Ring
  <1>7. Ages'
    BY <1>2 DEF Inv, Ages, Measured, Since, NoEntry
  <1>8. Tracked' /\ AckedNotPending'
    BY <1>2 DEF Inv, Tracked, AckedNotPending
  <1> QED
    BY <1>4, <1>5, <1>6, <1>7, <1>8 DEF Inv

\* Steps of the tracker leave the cache alone.
LEMMA CacheKept ==
    ASSUME Inv, UNCHANGED <<clock, cacheVars>>
    PROVE  /\ LogType' /\ Ring' /\ AcceptedOnce'
           /\ \A s \in CacheSlot :
                 entries'[s].from # Nobody
                     => Measured(entries[s].age, entries[s].time, MaxAge + 1)'
  <1>1. LogType' /\ AcceptedOnce'
    BY DEF cacheVars, Inv, LogType, AcceptedOnce
  <1>2. Ring'
    BY DEF cacheVars, Inv, Ring, Held, Gone, SlotOf
  <1> QED
    BY <1>1, <1>2 DEF cacheVars, Inv, Ages, Measured, Since

\* The packets that are tracked.
Ack == [valid : {TRUE}, to : Node, id : 0 .. MaxTracked,
        tx_count : 0 .. MaxRetransmit, last : Time, age : 0 .. Timeout]

\* The slots of the tracker are free or hold a packet.
LEMMA PendingType == TypeOK => pending \in [AckSlot -> {NoAck} \cup Ack]
  BY DEF TypeOK, Ack

\* The flag valid tells which.
LEMMA PendingFacts ==
    ASSUME TypeOK, NEW i \in AckSlot
    PROVE  /\ pending[i].valid => pending[i] \in Ack
           /\ ~ pending[i].valid => pending[i] = NoAck
           /\ ~ NoAck.valid
  <1>1. pending[i] \in {NoAck} \cup Ack
    BY PendingType
  <1>2. \A a \in Ack : a.valid
    BY DEF Ack
  <1>3. ~ NoAck.valid
    BY DEF NoAck
  <1> QED
    BY <1>1, <1>2, <1>3

\* Tracking takes a free slot or none, for a number not used before.
LEMMA TrackInv ==
    ASSUME Inv, NEW to \in Node, Track(to)
    PROVE  Inv'
  <1> DEFINE a == [valid |-> TRUE, to |-> to, id |-> sends,
                   tx_count |-> 0, last |-> clock, age |-> 0]
  <1>1. PICK i \in AckSlot : pending' = [pending EXCEPT ![i] = a]
    BY DEF Track, Free
  <1>2. a \in Ack
    BY TimeAssumption DEF Ack, Inv, TypeOK, Track
  <1>3. pending'[i] = a /\ \A j \in AckSlot : j # i => pending'[j] = pending[j]
    BY <1>1 DEF Inv, TypeOK
  <1>4. sends' = sends + 1 /\ UNCHANGED <<clock, cacheVars, acked>> /\ sends \in Nat
    BY TimeAssumption DEF Track, Inv, TypeOK
  <1>5. Measured(0, clock, Timeout)
    BY TimeAssumption DEF Measured, Since, Inv, TypeOK, Time
  <1>6. a.valid /\ a.to = to /\ a.id = sends /\ a.age = 0 /\ a.last = clock
    OBVIOUS
  <1> HIDE DEF a
  <1>7. TypeOK'
    <2>1. sends' \in 0 .. MaxTracked
      BY <1>4, TimeAssumption DEF Track, Inv, TypeOK
    <2>2. pending' \in [AckSlot -> {NoAck} \cup Ack]
      BY <1>1, <1>2 DEF Inv, TypeOK, Ack
    <2> QED
      BY <1>4, <2>1, <2>2 DEF Inv, TypeOK, cacheVars, Ack
  <1>8. Ages'
    <2>1. ASSUME NEW j \in AckSlot, pending'[j].valid
          PROVE  Measured(pending[j].age, pending[j].last, Timeout)'
      BY <1>3, <1>4, <1>5, <1>6, <2>1 DEF Inv, Ages, Measured, Since
    <2> QED
      BY <1>4, <2>1, CacheKept DEF Ages
  <1>9. Tracked'
    <2>1. \A j \in AckSlot : pending'[j].valid => pending'[j].id < sends'
      <3>1. \A j \in AckSlot : pending[j].valid => pending[j].id \in Nat
        <4>1. \A b \in Ack : b.id \in Nat
          BY TimeAssumption DEF Ack
        <4> QED
          BY <4>1, PendingFacts DEF Inv
      <3> QED
        BY <1>3, <1>4, <1>6, <3>1 DEF Inv, Tracked
    <2>2. \A j, k \in AckSlot :
             pending'[j].valid /\ pending'[k].valid /\ pending'[j].id = pending'[k].id
                 => j = k
      BY <1>3, <1>4, <1>6 DEF Inv, Tracked
    <2>3. \A b \in acked' : b[2] < sends'
      <3>1. \A b \in acked : b[2] \in Nat
        BY TimeAssumption DEF Inv, TypeOK
      <3> QED
        BY <1>4, <3>1 DEF Inv, Tracked
    <2> QED
      BY <2>1, <2>2, <2>3 DEF Tracked
  <1>10. AckedNotPending'
    <2>1. <<to, sends>> \notin acked
      BY <1>4 DEF Inv, Tracked
    <2> QED
      BY <1>3, <1>4, <1>6, <2>1 DEF Inv, AckedNotPending
  <1> QED
    BY <1>4, <1>7, <1>8, <1>9, <1>10, CacheKept DEF Inv

\* An ACK frees the slot of its packet.
LEMMA HandleAckInv ==
    ASSUME Inv, NEW from \in Node, NEW id \in 0 .. MaxTracked, HandleAck(from, id)
    PROVE  Inv'
  <1>1. PICK i \in AckSlot :
           Matches(i, from, id) /\ pending' = [pending EXCEPT ![i] = NoAck]
    BY DEF HandleAck
  <1>2. pending'[i] = NoAck /\ \A j \in AckSlot : j # i => pending'[j] = pending[j]
    BY <1>1 DEF Inv, TypeOK
  <1>3. acked' = acked \cup {<<from, id>>} /\ UNCHANGED <<clock, cacheVars, sends>>
    BY DEF HandleAck
  <1>4. ~ NoAck.valid
    BY DEF NoAck
  <1>5. TypeOK'
    <2>1. pending' \in [AckSlot -> {NoAck} \cup Ack]
      BY <1>1, PendingType DEF Inv
    <2>2. acked' \subseteq Node \X (0 .. MaxTracked)
      BY <1>3 DEF Inv, TypeOK
    <2> QED
      BY <1>3, <2>1, <2>2 DEF Inv, TypeOK, cacheVars, Ack
  <1>6. Ages'
    <2>1. ASSUME NEW j \in AckSlot, pending'[j].valid
          PROVE  Measured(pending[j].age, pending[j].last, Timeout)'
      BY <1>2, <1>3, <1>4, <2>1 DEF Inv, Ages, Measured, Since
    <2> QED
      BY <1>3, <2>1, CacheKept DEF Ages
  <1>7. Tracked'
    <2>1. id < sends
      BY <1>1 DEF Matches, Inv, Tracked
    <2> QED
      BY <1>2, <1>3, <1>4, <2>1 DEF Inv, Tracked
  <1>8. AckedNotPending'
    <2>1. ASSUME NEW j \in AckSlot, pending'[j].valid
          PROVE  <<pending'[j].to, pending'[j].id>> \notin acked'
      <3>1. j # i /\ pending'[j] = pending[j]
        BY <1>2, <1>4, <2>1
      <3>2. pending[j].id # id
        BY <1>1, <2>1, <3>1 DEF Inv, Tracked, Matches
      <3> QED
        BY <1>3, <2>1, <3>1, <3>2 DEF Inv, AckedNotPending
    <2> QED
      BY <2>1 DEF AckedNotPending
  <1> QED
    BY <1>3, <1>5, <1>6, <1>7, <1>8, CacheKept DEF Inv

\* ack_tracker_clear() frees all.
LEMMA AckClearInv ==
    ASSUME Inv, AckClear
    PROVE  Inv'
  <1>1. \A i \in AckSlot : pending'[i] = NoAck /\ ~ NoAck.valid
    BY DEF AckClear, NoAck
  <1>2. UNCHANGED <<clock, cacheVars, sends, acked>>
    BY DEF AckClear
  <1>3. TypeOK'
    BY <1>2 DEF AckClear, Inv, TypeOK, cacheVars
  <1>4. Ages'
    BY <1>1, <1>2, CacheKept DEF Ages
  <1>5. Tracked' /\ AckedNotPending'
    BY <1>1, <1>2 DEF Inv, Tracked, AckedNotPending
  <1> QED
    BY <1>2, <1>3, <1>4, <1>5, CacheKept DEF Inv

\* Time passes for the clock of the code and for the true ages alike.
LEMMA TickMeasured ==
    ASSUME clock \in Time, clock' = (clock + 1) % ClockMod,
           NEW limit \in Nat, NEW age \in 0 .. limit, NEW t \in Time,
           Measured(age, t, limit)
    PROVE  Measured(Older(age, limit), t, limit)' /\ Older(age, limit) \in 0 .. limit
  <1>1. ClockMod \in Nat \ {0}
    BY SizeAssumption
  <1>2. clock' = IF clock = ClockMod - 1 THEN 0 ELSE clock + 1
    BY <1>1 DEF Time
  <1> QED
    BY <1>1, <1>2 DEF Time, Measured, Since, Older

\* Time passes for the code and for the true ages.
LEMMA TickInv ==
    ASSUME Inv, Tick
    PROVE  Inv'
  <1>1. clock \in Time /\ clock' = (clock + 1) % ClockMod /\ clock' \in Time
    BY SizeAssumption DEF Tick, Inv, TypeOK, Time
  <1>2. UNCHANGED <<index, log, sends, acked>>
    BY DEF Tick
  <1>3. ASSUME NEW s \in CacheSlot
        PROVE  /\ entries'[s] \in [from : Node \cup {Nobody}, id : PacketId \cup {0},
                                   time : Time, age : 0 .. MaxAge + 1]
               /\ entries'[s].from = entries[s].from /\ entries'[s].id = entries[s].id
               /\ entries[s].from # Nobody
                      => Measured(entries[s].age, entries[s].time, MaxAge + 1)'
    <2> DEFINE e == entries[s]
    <2>1. e \in [from : Node \cup {Nobody}, id : PacketId \cup {0}, time : Time,
                 age : 0 .. MaxAge + 1]
      BY DEF Inv, TypeOK
    <2>2. CASE e.from = Nobody
      BY <2>1, <2>2 DEF Tick
    <2>3. CASE e.from # Nobody
      <3>1. MaxAge + 1 \in Nat /\ e.age \in 0 .. MaxAge + 1 /\ e.time \in Time
        BY <2>1, TimeAssumption
      <3>2. Measured(e.age, e.time, MaxAge + 1)
        BY <2>3 DEF Inv, Ages
      <3>3. entries'[s] = [e EXCEPT !.age = Older(@, MaxAge + 1)]
        BY <2>3 DEF Tick
      <3> DEFINE a == e.age
                 t == e.time
                 n == Older(a, MaxAge + 1)
      <3>4. PICK b \in 0 .. MaxAge + 1 : b = a
        BY <3>1
      <3>5. PICK u \in Time : u = t
        BY <3>1
      <3>6. Measured(Older(b, MaxAge + 1), u, MaxAge + 1)' /\ Older(b, MaxAge + 1) \in 0 .. MaxAge + 1
        BY <1>1, <3>1, <3>2, <3>4, <3>5, TickMeasured
      <3>7. entries'[s].age = Older(b, MaxAge + 1) /\ entries'[s].time = u
        BY <2>1, <3>3, <3>4, <3>5
      <3>8. Measured(entries[s].age, entries[s].time, MaxAge + 1)'
        BY <3>6, <3>7 DEF Measured, Since
      <3> QED
        BY <2>1, <3>3, <3>4, <3>6, <3>8
    <2> QED
      BY <2>2, <2>3
  <1>4. ASSUME NEW i \in AckSlot
        PROVE  /\ pending'[i] \in {NoAck} \cup Ack
               /\ pending'[i].valid => 
                    /\ pending[i].valid
                    /\ pending'[i].id = pending[i].id /\ pending'[i].to = pending[i].to
                    /\ Measured(pending[i].age, pending[i].last, Timeout)'
    <2> DEFINE e == pending[i]
    <2>1. CASE ~ e.valid
      BY <2>1, PendingFacts DEF Tick, NoAck
    <2>2. CASE e.valid
      <3>1. e \in Ack
        BY <2>2, PendingFacts DEF Inv
      <3>2. Timeout \in Nat /\ e.age \in 0 .. Timeout /\ e.last \in Time
        BY <3>1, TimeAssumption DEF Ack
      <3>3. Measured(e.age, e.last, Timeout)
        BY <2>2 DEF Inv, Ages
      <3>4. pending'[i] = [e EXCEPT !.age = Older(@, Timeout)]
        BY <2>2 DEF Tick
      <3>5. PICK b \in 0 .. Timeout : b = e.age
        BY <3>2
      <3>6. PICK u \in Time : u = e.last
        BY <3>2
      <3>7. Measured(Older(b, Timeout), u, Timeout)' /\ Older(b, Timeout) \in 0 .. Timeout
        BY <1>1, <3>2, <3>3, <3>5, <3>6, TickMeasured
      <3>8. /\ pending'[i].age = Older(b, Timeout) /\ pending'[i].last = u
            /\ pending'[i].id = e.id /\ pending'[i].to = e.to
            /\ pending'[i] \in Ack
        BY <3>1, <3>4, <3>5, <3>6, <3>7 DEF Ack
      <3>9. Measured(pending[i].age, pending[i].last, Timeout)'
        BY <3>7, <3>8 DEF Measured, Since
      <3> QED
        BY <2>2, <3>8, <3>9
    <2> QED
      BY <2>1, <2>2
  <1>5. TypeOK'
    <2>1. entries' \in [CacheSlot -> [from : Node \cup {Nobody}, id : PacketId \cup {0},
                                      time : Time, age : 0 .. MaxAge + 1]]
      BY <1>3 DEF Tick
    <2>2. pending' \in [AckSlot -> {NoAck} \cup Ack]
      BY <1>4 DEF Tick
    <2> QED
      BY <1>1, <1>2, <2>1, <2>2 DEF Inv, TypeOK, Ack
  <1>6. LogType' /\ AcceptedOnce'
    BY <1>2 DEF Inv, LogType, AcceptedOnce
  <1>7. Ring'
    <2>1. \A n \in DOMAIN log : SlotOf(n) \in CacheSlot
      BY SlotFacts, LenProperties DEF Inv, LogType
    <2> QED
      BY <1>2, <1>3, <2>1 DEF Inv, Ring, Held, Gone, SlotOf, KeyOf
  <1>8. Ages'
    BY <1>3, <1>4 DEF Ages
  <1>9. Tracked' /\ AckedNotPending'
    BY <1>2, <1>4 DEF Inv, Tracked, AckedNotPending
  <1> QED
    BY <1>5, <1>6, <1>7, <1>8, <1>9 DEF Inv

\* A slot is sent again, given up, or left.
LEMMA RetransmitCases ==
    ASSUME GetRetransmit, NEW i \in AckSlot
    PROVE  \/ /\ First(i)
              /\ pending'[i] = [pending[i] EXCEPT !.tx_count = @ + 1,
                                                  !.last = clock, !.age = 0]
           \/ pending'[i] = NoAck
           \/ pending'[i] = pending[i]
  BY DEF GetRetransmit

\* A slot that is due is sent again or given up.
LEMMA GetRetransmitInv ==
    ASSUME Inv, GetRetransmit
    PROVE  Inv'
  <1>1. UNCHANGED <<clock, cacheVars, sends, acked>>
    BY DEF GetRetransmit
  <1>2. ASSUME NEW i \in AckSlot
        PROVE  /\ pending'[i] \in {NoAck} \cup Ack
               /\ pending'[i].valid =>
                    /\ pending[i].valid
                    /\ pending'[i].id = pending[i].id /\ pending'[i].to = pending[i].to
                    /\ Measured(pending[i].age, pending[i].last, Timeout)'
    <2>1. CASE pending'[i] = NoAck
      BY <2>1 DEF NoAck
    <2>2. CASE pending'[i] = pending[i]
      <3>1. pending[i].valid => Measured(pending[i].age, pending[i].last, Timeout)'
        BY <1>1, <2>2 DEF Inv, Ages, Measured, Since
      <3> QED
        BY <2>2, <3>1, PendingType DEF Inv
    <2>3. CASE /\ First(i)
               /\ pending'[i] = [pending[i] EXCEPT !.tx_count = @ + 1,
                                                   !.last = clock, !.age = 0]
      <3>1. pending[i].valid /\ pending[i].tx_count < MaxRetransmit
        BY <2>3 DEF First, Retries, Due
      <3>2. pending[i] \in Ack
        BY <3>1, PendingFacts DEF Inv
      <3>3. pending'[i] \in Ack
        <4>1. pending[i].tx_count \in 0 .. MaxRetransmit
          BY <3>2 DEF Ack
        <4>2. pending[i].tx_count + 1 \in 0 .. MaxRetransmit
          BY <3>1, <4>1, TimeAssumption
        <4>3. clock \in Time /\ 0 \in 0 .. Timeout
          BY TimeAssumption DEF Inv, TypeOK
        <4> QED
          BY <2>3, <3>2, <4>2, <4>3 DEF Ack
      <3>4. /\ pending'[i].id = pending[i].id /\ pending'[i].to = pending[i].to
            /\ pending'[i].age = 0 /\ pending'[i].last = clock
        BY <2>3, <3>2 DEF Ack
      <3>5. Measured(pending[i].age, pending[i].last, Timeout)'
        BY <1>1, <3>4, TimeAssumption DEF Measured, Since, Inv, TypeOK, Time
      <3> QED
        BY <3>1, <3>3, <3>4, <3>5
    <2> QED
      BY <2>1, <2>2, <2>3, RetransmitCases
  <1>3. TypeOK'
    <2>1. pending' \in [AckSlot -> {NoAck} \cup Ack]
      BY <1>2 DEF GetRetransmit
    <2> QED
      BY <1>1, <2>1 DEF Inv, TypeOK, cacheVars, Ack
  <1>4. Ages'
    BY <1>1, <1>2, CacheKept DEF Ages
  <1>5. Tracked' /\ AckedNotPending'
    BY <1>1, <1>2 DEF Inv, Tracked, AckedNotPending
  <1> QED
    BY <1>1, <1>3, <1>4, <1>5, CacheKept DEF Inv

-----------------------------------------------------------------------------
(* Safety                                                                  *)

\* Steps of other components.
LEMMA StutterInv ==
    ASSUME Inv, UNCHANGED vars
    PROVE  Inv'
  <1>1. TypeOK' /\ Tracked' /\ AckedNotPending'
    BY DEF Inv, TypeOK, Tracked, AckedNotPending, vars, cacheVars, ackVars
  <1>2. Ages'
    BY DEF Inv, Ages, Measured, Since, vars, cacheVars, ackVars
  <1>3. LogType' /\ Ring' /\ AcceptedOnce'
    BY CacheKept DEF vars
  <1> QED
    BY <1>1, <1>2, <1>3 DEF Inv

\* Every step keeps the invariant.
LEMMA NextInv == Inv /\ [Next]_vars => Inv'
  <1> SUFFICES ASSUME Inv, [Next]_vars
               PROVE  Inv'
    OBVIOUS
  <1>1. ASSUME NEW p \in Packet, RoutePacket(p[1], p[2])
        PROVE  Inv'
    <2>1. <<p[1], p[2]>> \in Packet
      BY PacketAssumption
    <2> QED
      BY <1>1, <2>1, RoutePacketInv
  <1> QED
    BY <1>1, StutterInv, ClearOldInv, TrackInv, HandleAckInv, GetRetransmitInv,
       AckClearInv, TickInv DEF Next

\* The invariant holds in every reachable state.
THEOREM Invariance == Spec => []Inv
  BY InitInv, NextInv, PTL DEF Spec

\* The tables, the clock and the counters have their types: no slot is
\* retransmitted more than max_retransmit times.
THEOREM TypeCorrect == Spec => []TypeOK
  <1>1. Inv => TypeOK
    BY DEF Inv
  <1> QED
    BY <1>1, Invariance, PTL

\* A packet is accepted once, unless PACKET_CACHE_SIZE others came in between
\* or its entry was cleared.
THEOREM NoDuplicateAccepted == Spec => []AcceptedOnce
  <1>1. Inv => AcceptedOnce
    BY DEF Inv
  <1> QED
    BY <1>1, Invariance, PTL

\* Once acknowledged, a packet is not in the tracker any more.
THEOREM AckEndsPending == Spec => []AckedNotPending
  <1>1. Inv => AckedNotPending
    BY DEF Inv
  <1> QED
    BY <1>1, Invariance, PTL

\* The step of NothingEarly: what has gone by the time of the code has gone by
\* its true age.
LEMMA NothingEarlyStep ==
    ASSUME Inv, Next
    PROVE  /\ \A s \in CacheSlot :
                entries[s].from # Nobody /\ entries'[s].from = Nobody
                  => entries[s].age > MaxAge \/ Len(log') > Len(log)
           /\ \A i \in AckSlot :
                /\ pending[i].valid /\ pending'[i].valid
                /\ pending'[i].tx_count > pending[i].tx_count
                => pending[i].age >= Timeout
  <1>1. ASSUME NEW s \in CacheSlot,
               entries[s].from # Nobody, entries'[s].from = Nobody
        PROVE  entries[s].age > MaxAge \/ Len(log') > Len(log)
    <2>1. entries[s] \in [from : Node \cup {Nobody}, id : PacketId \cup {0}, time : Time,
                          age : 0 .. MaxAge + 1]
      BY DEF Inv, TypeOK
    <2>2. ASSUME NEW p \in Packet, RoutePacket(p[1], p[2])
          PROVE  Len(log') > Len(log)
      <3> DEFINE e == [from |-> p[1], id |-> p[2], cleared |-> FALSE]
      <3>1. e \in Entry /\ log' = Append(log, e)
        BY <2>2, PacketAssumption DEF Entry, RoutePacket
      <3> HIDE DEF e
      <3> QED
        BY <3>1, AppendProperties, LenProperties DEF Inv, LogType
    <2>3. CASE ClearOld
      <3>1. Expired(s)
        BY <1>1, <2>3 DEF ClearOld
      <3>2. Measured(entries[s].age, entries[s].time, MaxAge + 1)
        BY <1>1 DEF Inv, Ages
      <3>3. entries[s].age \in Int /\ entries[s].time \in Int /\ clock \in Int /\ MaxAge \in Nat
        BY <2>1, TimeAssumption, SizeAssumption DEF Inv, TypeOK, Time
      <3> QED
        BY <3>1, <3>2, <3>3 DEF Expired, Elapsed, Measured, Since
    <2>4. CASE Tick
      BY <1>1, <2>1, <2>4 DEF Tick
    <2> QED
      BY <1>1, <2>2, <2>3, <2>4
      DEF Next, Track, HandleAck, GetRetransmit, AckClear, cacheVars
  <1>2. ASSUME NEW i \in AckSlot, pending[i].valid, pending'[i].valid,
               pending'[i].tx_count > pending[i].tx_count
        PROVE  pending[i].age >= Timeout
    <2>1. pending[i] \in Ack
      BY <1>2, PendingFacts DEF Inv
    <2>2. pending[i].tx_count \in Nat /\ pending[i].age \in Nat /\ pending[i].last \in Int
          /\ clock \in Int /\ Timeout \in Nat
      BY <2>1, TimeAssumption, SizeAssumption DEF Ack, Time, Inv, TypeOK
    <2>3. pending'[i].tx_count # pending[i].tx_count
      BY <1>2, <2>2
    <2>4. CASE GetRetransmit
      <3>1. First(i)
        <4>1. pending'[i] # NoAck
          BY <1>2 DEF NoAck
        <4>2. pending'[i] # pending[i]
          BY <2>3
        <4> QED
          BY <2>4, <4>1, <4>2, RetransmitCases, Zenon
      <3>2. Elapsed(pending[i].last) >= Timeout
        BY <3>1 DEF First, Retries, Due
      <3>3. Measured(pending[i].age, pending[i].last, Timeout)
        BY <1>2 DEF Inv, Ages
      <3> QED
        BY <2>2, <3>2, <3>3 DEF Elapsed, Measured, Since
    <2>5. CASE Tick
      <3>1. pending'[i] = [pending[i] EXCEPT !.age = Older(@, Timeout)]
        BY <1>2, <2>5 DEF Tick
      <3> QED
        BY <2>1, <2>3, <3>1 DEF Ack
    <2>6. ASSUME NEW to \in Node, Track(to)
          PROVE  FALSE
      <3>1. pending'[i] = pending[i]
        BY <1>2, <2>6 DEF Track, Free, Inv, TypeOK
      <3> QED
        BY <2>3, <3>1
    <2>7. ASSUME NEW from \in Node, NEW id \in 0 .. MaxTracked, HandleAck(from, id)
          PROVE  FALSE
      <3>1. pending'[i] = pending[i] \/ pending'[i] = NoAck
        BY <2>7 DEF HandleAck, Inv, TypeOK
      <3> QED
        BY <1>2, <2>3, <3>1 DEF NoAck
    <2>8. CASE AckClear
      BY <1>2, <2>8 DEF AckClear, NoAck
    <2>9. CASE UNCHANGED pending
      BY <2>3, <2>9
    <2> QED
      BY <2>4, <2>5, <2>6, <2>7, <2>8, <2>9
      DEF Next, RoutePacket, ClearOld, ackVars
  <1> QED
    BY <1>1, <1>2

\* No entry is cleared before it is older than max_age and no packet is
\* retransmitted before its timeout is over, however often the clock wraps.
THEOREM NeverEarly == Spec => NothingEarly
  BY Invariance, NothingEarlyStep, PTL DEF Spec, NothingEarly

-----------------------------------------------------------------------------
(* The implementation of DuplicateFilter                                   *)

\* The mapping: the keys accepted, and the keys in the ring.
Keys == [n \in DOMAIN log |-> KeyOf(log[n])]
Known == {KeyOf(entries[s]) : s \in {r \in CacheSlot : entries[r].from # Nobody}}

\* What the filter knows is what an occupied slot holds.
LEMMA KnownFacts ==
    /\ \A k : k \in Known <=>
                 \E s \in CacheSlot : entries[s].from # Nobody /\ k = KeyOf(entries[s])
    /\ \A e, f : KeyOf(e) = KeyOf(f) <=> e.from = f.from /\ e.id = f.id
  BY DEF Known, KeyOf

\* The filter's log is that of the cache without the marks.
LEMMA KeysFacts ==
    ASSUME LogType
    PROVE  /\ Keys \in Seq(Packet) /\ Len(Keys) = Len(log) /\ Len(log) \in Nat
           /\ \A n \in 1 .. Len(log) : Keys[n] = KeyOf(log[n])
           /\ DOMAIN log = 1 .. Len(log)
  <1>1. DOMAIN log = 1 .. Len(log) /\ Len(log) \in Nat
    BY LenProperties DEF LogType
  <1>2. Keys \in [1 .. Len(log) -> Packet] /\ DOMAIN Keys = 1 .. Len(log)
    BY <1>1 DEF LogType, Keys
  <1>3. Keys \in Seq(Packet) /\ Len(Keys) = Len(log)
    BY <1>1, <1>2, SeqDef, LenProperties
  <1> QED
    BY <1>1, <1>3 DEF Keys

\* The empty cache is an empty filter.
LEMMA FilterInit == Init => Filter!Init
  <1> SUFFICES ASSUME Init
               PROVE  Filter!Init
    OBVIOUS
  <1>1. DOMAIN log = {} /\ log = <<>>
    BY DEF Init
  <1>2. Keys = <<>>
    BY <1>1 DEF Keys
  <1>3. Known = {}
    BY KnownFacts DEF Init, NoEntry
  <1> QED
    BY <1>2, <1>3 DEF Filter!Init, Keys, Known

\* The packet whose slot is taken is not among the last PACKET_CACHE_SIZE - 1,
\* and if an equal one is, then that one has a slot of its own.
LEMMA RecentSurvive ==
    ASSUME Inv, NEW from, NEW id, <<from, id>> \in Packet, RoutePacket(from, id),
           NEW k, k \in Known, NEW j \in 1 .. Len(log),
           j > Len(log) - (PACKET_CACHE_SIZE - 1), k = KeyOf(log[j])
    PROVE  k \in Known'
  <1> DEFINE L == Len(log)
  <1>1. L \in Nat /\ DOMAIN log = 1 .. L
    BY KeysFacts DEF Inv
  <1>2. index = SlotOf(L + 1) /\ index \in CacheSlot
    BY <1>1, SlotFacts DEF Inv, Ring
  <1>3. \A s \in CacheSlot : s # index => entries'[s] = entries[s]
    BY DEF RoutePacket, Add, Inv, TypeOK
  <1>4. PICK s \in CacheSlot : entries[s].from # Nobody /\ k = KeyOf(entries[s])
    BY KnownFacts
  <1>5. ASSUME NEW r \in CacheSlot, r # index, entries[r].from # Nobody,
               k = KeyOf(entries[r])
        PROVE  k \in Known'
    BY <1>3, <1>5 DEF Known
  <1>6. log[j].from # Nobody /\ log[j].from = entries[s].from /\ log[j].id = entries[s].id
    BY <1>4, KnownFacts
  <1>7. Held(j) /\ SlotOf(j) \in CacheSlot /\ SlotOf(j) # index
    <2>1. Held(j) /\ j > L + 1 - PACKET_CACHE_SIZE
      BY <1>1, SizeAssumption DEF Held
    <2>2. SlotOf(j) \in CacheSlot /\ SlotOf(j) # SlotOf(L + 1)
      <3> HIDE DEF L
      <3>1. j \in 1 .. L
        BY DEF L
      <3> QED
        BY <1>1, <2>1, <3>1, SlotFacts
    <2> QED
      BY <1>2, <2>1, <2>2
  <1>8. CASE ~ log[j].cleared
    <2>1. KeyOf(entries[SlotOf(j)]) = k
      BY <1>1, <1>6, <1>7, <1>8 DEF Inv, Ring, Gone
    <2>2. entries[SlotOf(j)].from # Nobody
      BY <1>6, <2>1, KnownFacts
    <2> QED
      BY <1>5, <1>7, <2>1, <2>2
  <1>9. CASE log[j].cleared
    <2>1. SUFFICES ASSUME s = index
                   PROVE  FALSE
      BY <1>4, <1>5
    <2>2. L >= PACKET_CACHE_SIZE
      <3>1. L < PACKET_CACHE_SIZE => index = L
        BY <1>1, <1>2, SlotFacts
      <3>2. index = L => entries[index].from = Nobody
        BY <1>1, <1>2 DEF Inv, Ring
      <3> QED
        BY <1>1, <1>4, <2>1, <3>1, <3>2, SizeAssumption
    <2> DEFINE m == L + 1 - PACKET_CACHE_SIZE
    <2>3. /\ m \in 1 .. L /\ Held(m) /\ SlotOf(m) = index
          /\ m < j /\ ~ (j - m > PACKET_CACHE_SIZE)
      <3>1. m \in 1 .. L /\ Held(m) /\ m < j /\ ~ (j - m > PACKET_CACHE_SIZE)
        BY <1>1, <2>2, SizeAssumption DEF Held
      <3>2. SlotOf(m) = SlotOf(L + 1)
        <4> HIDE DEF L
        <4> QED
          BY <1>1, <2>2, SlotFacts
      <3> QED
        BY <1>2, <3>1, <3>2
    <2> HIDE DEF m
    <2>4. ~ Gone(m) /\ KeyOf(log[m]) = k
      BY <1>1, <1>4, <2>1, <2>3 DEF Inv, Ring
    <2>5. log[m].from = log[j].from /\ log[m].id = log[j].id
      BY <2>4, KnownFacts
    <2> QED
      BY <1>1, <1>6, <2>3, <2>4, <2>5 DEF Inv, AcceptedOnce, Gone
  <1> QED
    BY <1>8, <1>9

\* An accepted packet is new to the filter, and what it pushes out is the oldest.
LEMMA FilterAccept ==
    ASSUME Inv, NEW from, NEW id, <<from, id>> \in Packet, RoutePacket(from, id)
    PROVE  Filter!Accept(<<from, id>>)
  <1> DEFINE k == <<from, id>>
             e == [from |-> from, id |-> id, cleared |-> FALSE]
             c == [from |-> from, id |-> id, time |-> clock, age |-> 0]
  <1>1. k \notin Known
    BY KnownFacts DEF RoutePacket, IsDuplicate, KeyOf
  <1>2. e \in Entry /\ log' = Append(log, e) /\ log \in Seq(Entry)
    BY PacketAssumption DEF Entry, RoutePacket, Inv, LogType
  <1>3. index \in CacheSlot /\ entries' = [entries EXCEPT ![index] = c]
    BY DEF RoutePacket, Add, Inv, TypeOK
  <1>4. entries'[index] = c /\ \A s \in CacheSlot : s # index => entries'[s] = entries[s]
    BY <1>3 DEF Inv, TypeOK
  <1>5. KeyOf(c) = k /\ KeyOf(e) = k /\ c.from = from
    BY DEF KeyOf
  <1> HIDE DEF c, e
  <1>6. Keys' = Append(Keys, k)
    <2>1. LogType' /\ LogType
      BY RoutePacketInv DEF Inv
    <2>2. /\ Len(log') = Len(log) + 1 /\ log'[Len(log) + 1] = e
          /\ \A n \in 1 .. Len(log) : log'[n] = log[n]
      BY <1>2, AppendProperties
    <2>3. /\ Keys \in Seq(Packet) /\ Len(Keys) = Len(log) /\ Len(log) \in Nat
          /\ \A n \in 1 .. Len(log) : Keys[n] = KeyOf(log[n])
      BY <2>1, KeysFacts
    <2>4. DOMAIN log' = 1 .. Len(log')
      BY <2>1, LenProperties DEF LogType
    <2>5. /\ Append(Keys, k) \in Seq(Packet) /\ Len(Append(Keys, k)) = Len(log) + 1
          /\ \A n \in 1 .. Len(log) : Append(Keys, k)[n] = Keys[n]
          /\ Append(Keys, k)[Len(log) + 1] = k
      BY <2>3, AppendProperties
    <2>6. Append(Keys, k) = [n \in 1 .. Len(log) + 1 |-> Append(Keys, k)[n]]
      BY <2>5, LenProperties
    <2>7. \A n \in 1 .. Len(log) + 1 : KeyOf(log'[n]) = Append(Keys, k)[n]
      <3> SUFFICES ASSUME NEW n \in 1 .. Len(log) + 1
                   PROVE  KeyOf(log'[n]) = Append(Keys, k)[n]
        OBVIOUS
      <3>1. CASE n = Len(log) + 1
        BY <1>5, <2>2, <2>5, <3>1
      <3>2. CASE n # Len(log) + 1
        <4>1. n \in 1 .. Len(log)
          BY <2>3, <3>2
        <4> QED
          BY <2>2, <2>3, <2>5, <4>1
      <3> QED
        BY <3>1, <3>2
    <2>8. Keys' = [n \in 1 .. Len(log) + 1 |-> KeyOf(log'[n])]
      BY <2>2, <2>4 DEF Keys, KeyOf
    <2> QED
      BY <2>6, <2>7, <2>8
  <1>7. Known' \subseteq Known \cup {k}
    <2> SUFFICES ASSUME NEW s \in CacheSlot, entries'[s].from # Nobody
                 PROVE  KeyOf(entries'[s]) \in Known \cup {k}
      BY DEF Known, KeyOf
    <2>1. CASE s = index
      BY <1>4, <1>5, <2>1
    <2>2. CASE s # index
      BY <1>4, <2>2 DEF Known
    <2> QED
      BY <2>1, <2>2
  <1>8. Known \cap Filter!Last(Keys, PACKET_CACHE_SIZE - 1) \subseteq Known'
    <2> SUFFICES ASSUME NEW x \in Known,
                        x \in Filter!Last(Keys, PACKET_CACHE_SIZE - 1)
                 PROVE  x \in Known'
      OBVIOUS
    <2>1. Len(Keys) = Len(log) /\ \A n \in 1 .. Len(log) : Keys[n] = KeyOf(log[n])
      BY KeysFacts DEF Inv
    <2>2. PICK j \in 1 .. Len(log) :
             j > Len(log) - (PACKET_CACHE_SIZE - 1) /\ x = KeyOf(log[j])
      BY <2>1 DEF Filter!Last
    <2> QED
      BY <2>2, RecentSurvive
  <1>9. k \notin {p \in Packet : p[1] = Nobody} => k \in Known'
    <2> SUFFICES ASSUME from # Nobody
                 PROVE  k \in Known'
      OBVIOUS
    <2>1. entries'[index].from # Nobody /\ KeyOf(entries'[index]) = k
      BY <1>4, <1>5
    <2> QED
      BY <1>3, <2>1 DEF Known, KeyOf
  <1> QED
    BY <1>1, <1>6, <1>7, <1>8, <1>9 DEF Filter!Accept, Keys, Known

\* Clearing only forgets.
LEMMA FilterExpire ==
    ASSUME Inv, ClearOld
    PROVE  Filter!Expire
  <1>1. Known' \subseteq Known
    BY DEF ClearOld, Known, NoEntry, KeyOf
  <1>2. Keys' = Keys
    BY ClearOldLog DEF Keys
  <1> QED
    BY <1>1, <1>2 DEF Filter!Expire, Keys, Known

\* The rest does not concern the filter: time only changes ages.
LEMMA FilterStutter ==
    ASSUME Inv, UNCHANGED log,
           \A s \in CacheSlot : entries'[s].from = entries[s].from
                                /\ entries'[s].id = entries[s].id
    PROVE  UNCHANGED Filter!filterVars
  <1>1. Keys' = Keys
    BY DEF Keys, KeyOf
  <1>2. Known' = Known
    BY DEF Known, KeyOf
  <1> QED
    BY <1>1, <1>2 DEF Filter!filterVars, Keys, Known

\* Every step is one of the filter, or none to it.
LEMMA FilterNext == Inv /\ [Next]_vars => [Filter!Next]_Filter!filterVars
  <1> SUFFICES ASSUME Inv, [Next]_vars
               PROVE  [Filter!Next]_Filter!filterVars
    OBVIOUS
  <1>1. ASSUME NEW p \in Packet, RoutePacket(p[1], p[2])
        PROVE  Filter!Next
    <2>1. <<p[1], p[2]>> \in Packet
      BY PacketAssumption
    <2>2. Filter!Accept(<<p[1], p[2]>>)
      BY <1>1, <2>1, FilterAccept
    <2> QED
      BY <2>1, <2>2 DEF Filter!Next, Filter!StrictNext
  <1>2. CASE ClearOld
    BY <1>2, FilterExpire DEF Filter!Next
  <1>3. CASE Tick
    <2>1. \A s \in CacheSlot : entries'[s].from = entries[s].from
                               /\ entries'[s].id = entries[s].id
      BY <1>3 DEF Tick, Inv, TypeOK
    <2> QED
      BY <1>3, <2>1, FilterStutter DEF Tick
  <1>4. CASE UNCHANGED cacheVars
    BY <1>4, FilterStutter DEF cacheVars
  <1> QED
    BY <1>1, <1>2, <1>3, <1>4
    DEF Next, Track, HandleAck, GetRetransmit, AckClear, vars

\* The packet cache is a filter for duplicates with a window of its size.
THEOREM ImplementsFilter == Spec => FilterSpec
  <1>1. Init => Filter!Init
    BY FilterInit
  <1>2. Inv /\ [Next]_vars => [Filter!Next]_Filter!filterVars
    BY FilterNext
  <1> QED
    BY <1>1, <1>2, Invariance, PTL DEF Spec, FilterSpec, Filter!Spec
=============================================================================
