------------------------- MODULE MeshLoRaLite_proof -------------------------
(***************************************************************************)
(* Proofs about MeshLoRaLite, for any number of nodes, cache size, retry   *)
(* table size and id width.                                                *)
(*                                                                         *)
(* That a node never displays a message that is among its last SEEN_CACHE  *)
(* marks is not inductive: it needs the ring to hold exactly the recent    *)
(* marks (SeenIsRecent), and every displayed message of this boot to be    *)
(* dated within the log (Dated).  That only copies are suppressed needs    *)
(* more: how far a sender's counter has advanced past every id that is     *)
(* still in a radio or a ring somewhere (Numbered).                        *)
(***************************************************************************)
EXTENDS MeshLoRaLite, TLAPS

LogEntry == [src : Node, id : Ids, origin : Nat]

-----------------------------------------------------------------------------
(* The ring                                                                *)

\* markSeen() keeps the ring well typed: the index stays inside seen[].
LEMMA MarkSeenType ==
    ASSUME NEW r \in SeenRing, NEW s \in Node, NEW i \in Ids, NEW o \in Nat
    PROVE  markSeen(r, s, i, o) \in SeenRing
  <1>1. [r.slot EXCEPT ![r.idx] = [src |-> s, id |-> i]] \in [Slots -> seen_t]
    BY DEF SeenRing, seen_t
  <1>2. Advance(r.idx) \in Slots
    BY CacheAssumption DEF SeenRing, Slots, Advance
  <1>3. Append(r.log, [src |-> s, id |-> i, origin |-> o]) \in Seq(LogEntry)
    BY DEF SeenRing, LogEntry
  <1> QED
    BY <1>1, <1>2, <1>3 DEF markSeen, SeenRing, LogEntry

\* What Append in markSeen() does to the log.
LEMMA MarkSeenLog ==
    ASSUME NEW r \in SeenRing, NEW s \in Node, NEW i \in Ids, NEW o \in Nat
    PROVE  /\ Len(r.log) \in Nat
           /\ Len(markSeen(r, s, i, o).log) = Len(r.log) + 1
           /\ \A k \in 1 .. Len(r.log) :
                 markSeen(r, s, i, o).log[k] = r.log[k]
           /\ markSeen(r, s, i, o).log[Len(r.log) + 1] =
                 [src |-> s, id |-> i, origin |-> o]
  BY DEF markSeen, SeenRing

\* markSeen() overwrites the oldest slot: all others only age by one.
LEMMA MarkSeenRing ==
    ASSUME NEW r \in SeenRing, NEW s \in Node, NEW i \in Ids, NEW o \in Nat,
           RingOK(r)
    PROVE  RingOK(markSeen(r, s, i, o))
  <1> DEFINE q == markSeen(r, s, i, o)
             n == Len(r.log)
  <1>1. /\ n \in Nat
        /\ Len(q.log) = n + 1
        /\ \A k \in 1 .. n : q.log[k] = r.log[k]
        /\ q.log[n + 1] = [src |-> s, id |-> i, origin |-> o]
    BY MarkSeenLog
  <1>2. /\ q.idx = Advance(r.idx)
        /\ q.slot = [r.slot EXCEPT ![r.idx] = [src |-> s, id |-> i]]
    BY DEF markSeen
  <1>3. r.idx \in Slots /\ r.slot \in [Slots -> seen_t]
    BY DEF SeenRing
  <1> DEFINE Want(k) == q.slot[k] =
               IF Age(q, k) < Len(q.log)
                 THEN [src |-> q.log[Len(q.log) - Age(q, k)].src,
                       id  |-> q.log[Len(q.log) - Age(q, k)].id]
                 ELSE [src |-> 0, id |-> 0]
  <1> SUFFICES ASSUME NEW k \in Slots PROVE Want(k)
    BY DEF RingOK
  <1>5. CASE k = r.idx
    <2>1. Age(q, k) = 0
      BY <1>2, <1>3, <1>5, CacheAssumption DEF Age, Advance, Slots
    <2>2. q.slot[k] = [src |-> s, id |-> i]
      BY <1>2, <1>3, <1>5
    <2> QED
      BY <1>1, <2>1, <2>2
  <1>6. CASE k # r.idx
    <2>1. /\ Age(q, k) = Age(r, k) + 1
          /\ Age(r, k) \in 0 .. SeenCache - 1
      <3> DEFINE x == r.idx
                 y == q.idx
      <3>1. /\ x \in 0 .. SeenCache - 1 /\ k \in 0 .. SeenCache - 1 /\ k # x
            /\ y = IF x + 1 = SeenCache THEN 0 ELSE x + 1
        BY <1>2, <1>3, <1>6 DEF Advance, Slots
      <3>2. /\ Age(q, k) = IF k < y THEN y - 1 - k ELSE y - 1 - k + SeenCache
            /\ Age(r, k) = IF k < x THEN x - 1 - k ELSE x - 1 - k + SeenCache
        BY DEF Age
      <3> HIDE DEF x, y, q, n
      <3> QED
        BY <3>1, <3>2, CacheAssumption
    <2>2. q.slot[k] = r.slot[k]
      BY <1>2, <1>3, <1>6
    <2>3. r.slot[k] = IF Age(r, k) < n
                        THEN [src |-> r.log[n - Age(r, k)].src,
                              id  |-> r.log[n - Age(r, k)].id]
                        ELSE [src |-> 0, id |-> 0]
      BY DEF RingOK
    <2>4. Age(q, k) < Len(q.log) <=> Age(r, k) < n
      BY <1>1, <2>1
    <2>5. Len(q.log) - Age(q, k) = n - Age(r, k)
      BY <1>1, <2>1
    <2>6. Age(r, k) < n => n - Age(r, k) \in 1 .. n
      BY <1>1, <2>1
    <2>7. Age(r, k) < n => q.log[n - Age(r, k)] = r.log[n - Age(r, k)]
      BY <1>1, <2>6
    <2> HIDE DEF q, n
    <2> QED
      BY <2>2, <2>3, <2>4, <2>5, <2>7
  <1> QED
    BY <1>5, <1>6

\* seenBefore() sees each of the last SEEN_CACHE marks.
LEMMA RecentIsSeen ==
    ASSUME NEW r \in SeenRing, RingOK(r), NEW k \in 1 .. Len(r.log),
           Len(r.log) - k < SeenCache
    PROVE  seenBefore(r, r.log[k].src, r.log[k].id)
  <1> DEFINE n == Len(r.log)
             a == n - k
             j == IF a < r.idx THEN r.idx - 1 - a ELSE r.idx - 1 - a + SeenCache
  <1>1. n \in Nat /\ r.idx \in Slots /\ a \in 0 .. SeenCache - 1 /\ a < n
    BY CacheAssumption DEF SeenRing
  <1>2. j \in Slots /\ Age(r, j) = a
    <2> HIDE DEF n, a
    <2> QED BY <1>1, CacheAssumption DEF Age, Slots
  <1>3. n - a = k
    BY <1>1
  <1>4. r.slot[j] = [src |-> r.log[k].src, id |-> r.log[k].id]
    BY <1>1, <1>2, <1>3 DEF RingOK
  <1> QED
    BY <1>2, <1>4 DEF seenBefore

-----------------------------------------------------------------------------
(* The history of displayed messages                                       *)

\* The messages D displayed in boot b or before are dated within the log of
\* the ring r, and none repeats one of the SEEN_CACHE marks before it.
Dated(r, D, b) ==
    \A d \in D : /\ d.boot <= b
                 /\ d.boot = b => d.pos \in 1 .. Len(r.log) /\ NotRecent(r, d)

\* A later mark changes nothing for what was displayed before.
LEMMA DatedMark ==
    ASSUME NEW r \in SeenRing, NEW s \in Node, NEW i \in Ids, NEW o \in Nat,
           NEW D \in SUBSET ShownRecord, NEW b \in Nat, Dated(r, D, b)
    PROVE  Dated(markSeen(r, s, i, o), D, b)
  <1> DEFINE q == markSeen(r, s, i, o)
             n == Len(r.log)
  <1>1. /\ n \in Nat
        /\ Len(q.log) = n + 1
        /\ \A k \in 1 .. n : q.log[k] = r.log[k]
        /\ q.log[n + 1] = [src |-> s, id |-> i, origin |-> o]
    BY MarkSeenLog
  <1> SUFFICES ASSUME NEW d \in D
               PROVE  /\ d.boot <= b
                      /\ d.boot = b => /\ d.pos \in 1 .. Len(q.log)
                                       /\ NotRecent(q, d)
    BY DEF Dated
  <1> HIDE DEF q, n
  <1>2. d.boot <= b /\ (d.boot = b => d.pos \in 1 .. n /\ NotRecent(r, d))
    BY DEF Dated, n
  <1>3. ASSUME d.boot = b PROVE NotRecent(q, d)
    <2> SUFFICES ASSUME NEW k \in 1 .. n + 1, k < d.pos, d.pos - k <= SeenCache
                 PROVE  ~ (q.log[k].src = d.src /\ q.log[k].id = d.id)
      BY <1>1 DEF NotRecent
    <2>1. k \in 1 .. n
      BY <1>1, <1>2, <1>3
    <2>2. ~ (r.log[k].src = d.src /\ r.log[k].id = d.id)
      BY <1>2, <1>3, <2>1 DEF NotRecent, n
    <2> QED
      BY <1>1, <2>1, <2>2
  <1> QED
    BY <1>1, <1>2, <1>3

\* A message that seenBefore() does not know may be displayed.
LEMMA DatedShow ==
    ASSUME NEW r \in SeenRing, NEW s \in Node, NEW i \in Ids, NEW o \in Nat,
           NEW D \in SUBSET ShownRecord, NEW b \in Nat, Dated(r, D, b),
           RingOK(r), ~ seenBefore(r, s, i)
    PROVE  Dated(markSeen(r, s, i, o),
                 D \cup {[src |-> s, id |-> i, origin |-> o,
                          pos |-> Len(r.log) + 1, boot |-> b]}, b)
  <1> DEFINE q == markSeen(r, s, i, o)
             n == Len(r.log)
             d == [src |-> s, id |-> i, origin |-> o, pos |-> n + 1, boot |-> b]
  <1>1. /\ n \in Nat
        /\ Len(q.log) = n + 1
        /\ \A k \in 1 .. n : q.log[k] = r.log[k]
        /\ q.log[n + 1] = [src |-> s, id |-> i, origin |-> o]
    BY MarkSeenLog
  <1>2. Dated(q, D, b)
    BY DatedMark
  <1>3. NotRecent(q, d)
    <2> SUFFICES ASSUME NEW k \in 1 .. Len(q.log), k < d.pos,
                        d.pos - k <= SeenCache,
                        q.log[k].src = d.src, q.log[k].id = d.id
                 PROVE  FALSE
      BY DEF NotRecent
    <2>1. k \in 1 .. n /\ n - k < SeenCache
      BY <1>1, CacheAssumption
    <2>2. r.log[k].src = s /\ r.log[k].id = i
      BY <1>1, <2>1
    <2> QED
      BY <2>1, <2>2, RecentIsSeen
  <1>4. d.boot = b /\ d.pos = n + 1 /\ b <= b /\ d.pos \in 1 .. Len(q.log)
    BY <1>1
  <1> HIDE DEF q, d
  <1>5. Dated(q, D \cup {d}, b)
    BY <1>2, <1>3, <1>4 DEF Dated
  <1> QED
    BY <1>5 DEF q, d

-----------------------------------------------------------------------------
(* Type correctness                                                        *)

\* sendPktEx() advances the 16-bit counter within its width.
LEMMA NextIdType ==
    ASSUME NEW i \in Ids
    PROVE  (i + 1) % IdMod \in Ids
  BY IdAssumption DEF Ids

\* The retry table keeps its type through sendPktEx(), with a text of any
\* length, and an ACK.
LEMMA PendingType ==
    ASSUME NEW pd \in [Pends -> pending_t], NEW e \in pending_t, NEW i, NEW s
    PROVE  /\ TrackPending(pd, e) \subseteq [Pends -> pending_t]
           /\ ClearPending(pd, i, s) \in [Pends -> pending_t]
  <1>1. 0 \in Ids
    BY IdAssumption DEF Ids
  <1>2. ASSUME NEW j \in Pends, NEW x \in Ids, NEW d \in Addr
        PROVE  [pd[j] EXCEPT !.id = x, !.dst = d] \in pending_t
    BY DEF pending_t
  <1>3. \A j \in Pends : [pd[j] EXCEPT !.id = 0] \in pending_t
    BY <1>1 DEF pending_t
  <1>4. TrackPending(pd, e) \subseteq [Pends -> pending_t]
    <2> DEFINE spot == {j \in Pends : IsFirst(Free(pd), j)}
               next == {j \in Pends : j - 1 \in spot /\ e.len = "over"}
               new(g) == [j \in Pends |->
                            IF j \in spot THEN e
                            ELSE IF j \in next
                              THEN [pd[j] EXCEPT !.id = g.id, !.dst = g.dst]
                              ELSE pd[j]]
    <2>1. TrackPending(pd, e) = {new(g) : g \in [id : Ids \ {0}, dst : Addr]}
      BY DEF TrackPending, Stored
    <2> HIDE DEF spot, next
    <2>2. ASSUME NEW g \in [id : Ids \ {0}, dst : Addr]
          PROVE  new(g) \in [Pends -> pending_t]
      <3>1. g.id \in Ids /\ g.dst \in Addr
        OBVIOUS
      <3> QED
        BY <1>2, <3>1
    <2> QED
      BY <2>1, <2>2
  <1>5. ClearPending(pd, i, s) \in [Pends -> pending_t]
    BY <1>3 DEF ClearPending
  <1> QED BY <1>4, <1>5

\* The header sendPktEx() builds is well typed.
LEMMA NewHdrType ==
    ASSUME TypeOK, NEW n \in Node, NEW type \in Types,
           NEW dst \in Node \cup {NODE_BCAST}, NEW body \in Ids
    PROVE  NewHdr(n, type, dst, body) \in mesh_hdr_t
  <1>1. TtlOf(type) \in Nat
    BY IdAssumption DEF TtlOf
  <1>2. msgID[n] \in Ids /\ meshChan[n] \in Chan /\ sent[n] + 1 \in Nat
    BY DEF TypeOK
  <1> QED
    BY <1>1, <1>2 DEF NewHdr, mesh_hdr_t

\* A transmission leaves well typed radios behind.
LEMMA StartTransmitType ==
    ASSUME TypeOK, NEW n \in Node, NEW H \in SUBSET mesh_hdr_t,
           NEW own \in mesh_hdr_t \cup {None}, startTransmit(n, H, own)
    PROVE  rxBuf' \in [Node -> mesh_hdr_t \cup {None}]
  <1>1. PICK got \in [Node \ {n} -> H \cup {None}] :
            rxBuf' = [m \in Node |-> IF m = n THEN own
                                     ELSE IF got[m] = None THEN rxBuf[m]
                                     ELSE got[m]]
    BY DEF startTransmit
  <1>2. \A m \in Node \ {n} : got[m] \in mesh_hdr_t \cup {None}
    BY <1>1
  <1> QED
    BY <1>1, <1>2 DEF TypeOK

\* What a node passes on is a mesh frame that differs in ttl alone.
LEMMA ForwardedType ==
    ASSUME NEW n, NEW h \in mesh_hdr_t, NEW rssi, NEW lucky,
           NEW f \in Forwarded(n, h, rssi, lucky)
    PROVE  /\ f \in mesh_hdr_t /\ f.type = h.type /\ f.src = h.src
           /\ f.id = h.id /\ f.origin = h.origin
  <1>1. h.ttl > 0 /\ f = [h EXCEPT !.ttl = @ - 1]
    BY DEF Forwarded
  <1>2. h.ttl - 1 \in Nat
    BY <1>1 DEF mesh_hdr_t
  <1> QED
    BY <1>1, <1>2 DEF mesh_hdr_t

\* sendPktEx() as a whole, on a well typed ring.
LEMMA SendPktExType ==
    ASSUME TypeOK, NEW n \in Node, NEW r \in SeenRing,
           NEW own \in mesh_hdr_t \cup {None}, NEW type \in Types,
           NEW dst \in Node \cup {NODE_BCAST}, NEW body \in Ids,
           NEW len \in {"fits", "over"}, NEW after \in SUBSET mesh_hdr_t,
           sendPktEx(n, r, own, type, dst, body, len, after)
    PROVE  /\ msgID' \in [Node -> Ids]
           /\ sent' \in [Node -> Nat]
           /\ seen' \in [Node -> SeenRing]
           /\ pend' \in [Node -> [Pends -> pending_t]]
           /\ meshChan' \in [Node -> Chan]
           /\ rxBuf' \in [Node -> mesh_hdr_t \cup {None}]
  <1> DEFINE h == NewHdr(n, type, dst, body)
             e == [id |-> h.id, dst |-> dst, origin |-> h.origin, len |-> len]
  <1>1. h \in mesh_hdr_t /\ h.id = msgID[n] /\ h.origin = sent[n] + 1
    BY NewHdrType DEF NewHdr
  <1>2. msgID[n] \in Ids /\ sent[n] + 1 \in Nat
    BY DEF TypeOK
  <1>3. e \in pending_t
    BY <1>1, <1>2 DEF pending_t, Addr
  <1>4. /\ msgID' = [msgID EXCEPT ![n] = (@ + 1) % IdMod]
        /\ sent' = [sent EXCEPT ![n] = @ + 1]
        /\ seen' = [seen EXCEPT ![n] = markSeen(r, n, h.id, h.origin)]
        /\ \/ pend' = pend
           \/ \E t \in TrackPending(pend[n], e) :
                 pend' = [pend EXCEPT ![n] = t]
        /\ \/ meshChan' = meshChan
           \/ \E c \in Chan : meshChan' = [meshChan EXCEPT ![n] = c]
        /\ startTransmit(n, {h} \cup after, own)
    BY DEF sendPktEx
  <1> HIDE DEF h, e
  <1>5. msgID' \in [Node -> Ids] /\ sent' \in [Node -> Nat]
    BY <1>2, <1>4, NextIdType DEF TypeOK
  <1>6. seen' \in [Node -> SeenRing]
    <2>1. markSeen(r, n, h.id, h.origin) \in SeenRing
      BY <1>1, <1>2, MarkSeenType
    <2> QED
      BY <1>4, <2>1 DEF TypeOK
  <1>7. pend' \in [Node -> [Pends -> pending_t]]
    <2>1. TrackPending(pend[n], e) \subseteq [Pends -> pending_t]
      BY <1>3, PendingType DEF TypeOK
    <2> QED
      BY <1>4, <2>1 DEF TypeOK
  <1>8. meshChan' \in [Node -> Chan]
    BY <1>4 DEF TypeOK
  <1>9. rxBuf' \in [Node -> mesh_hdr_t \cup {None}]
    <2>1. {h} \cup after \in SUBSET mesh_hdr_t
      BY <1>1
    <2> QED
      BY <1>4, <2>1, StartTransmitType
  <1> QED
    BY <1>5, <1>6, <1>7, <1>8, <1>9

\* A frame held by a radio and not None is a mesh frame.
LEMMA HeldFrame ==
    ASSUME TypeOK, NEW n \in Node, rxBuf[n] # None
    PROVE  /\ rxBuf[n] \in mesh_hdr_t
           /\ rxBuf[n].src \in Node /\ rxBuf[n].id \in Ids
           /\ rxBuf[n].origin \in Nat /\ rxBuf[n].body \in Ids
           /\ rxBuf[n].ttl \in Nat /\ Marked(n, rxBuf[n]) \in SeenRing
  <1>1. rxBuf[n] \in mesh_hdr_t
    BY DEF TypeOK
  <1>2. /\ rxBuf[n].src \in Node /\ rxBuf[n].id \in Ids
        /\ rxBuf[n].origin \in Nat /\ rxBuf[n].body \in Ids
        /\ rxBuf[n].ttl \in Nat
    BY <1>1 DEF mesh_hdr_t
  <1>3. Marked(n, rxBuf[n]) \in SeenRing
    BY <1>2, MarkSeenType DEF Marked, TypeOK
  <1> QED
    BY <1>1, <1>2, <1>3

\* What Display() adds to the history is well typed.
LEMMA DisplayType ==
    ASSUME TypeOK, NEW n \in Node, rxBuf[n] # None, Display(n, rxBuf[n])
    PROVE  shown' \in [Node -> SUBSET ShownRecord]
  <1> DEFINE h == rxBuf[n]
             d == [src |-> h.src, id |-> h.id, origin |-> h.origin,
                   pos |-> Len(seen[n].log) + 1, boot |-> boot[n]]
  <1>1. Len(seen[n].log) \in Nat /\ boot[n] \in Nat
    BY DEF TypeOK, SeenRing
  <1>2. d \in ShownRecord
    BY <1>1, HeldFrame DEF ShownRecord
  <1> QED
    BY <1>2 DEF Display, TypeOK

\* The types hold initially.
LEMMA InitType == Init => TypeOK
  <1> SUFFICES ASSUME Init PROVE TypeOK
    OBVIOUS
  <1>1. 0 \in Ids /\ 0 \in Slots /\ << >> \in Seq(LogEntry)
    BY IdAssumption, CacheAssumption DEF Ids, Slots
  <1>2. EmptySeen \in SeenRing
    BY <1>1 DEF EmptySeen, SeenRing, seen_t, LogEntry
  <1>3. EmptyPend \in [Pends -> pending_t]
    BY <1>1 DEF EmptyPend, pending_t, Addr
  <1> QED
    BY <1>1, <1>2, <1>3 DEF Init, TypeOK

\* Every step of every node keeps the types.
LEMMA NextType == TypeOK /\ [Next]_vars => TypeOK'
  <1> SUFFICES ASSUME TypeOK, [Next]_vars PROVE TypeOK'
    OBVIOUS
  <1>0. 0 \in Ids /\ {"DATA", "BEACON", "ACK"} \subseteq Types
    BY IdAssumption DEF Ids, Types
  <1>1. ASSUME NEW n \in Node, NEW dst \in Node \cup {NODE_BCAST},
               NEW len \in TextLen, CliSend(n, dst, len)
        PROVE  TypeOK'
    <2>1. /\ seen[n] \in SeenRing /\ rxBuf[n] \in mesh_hdr_t \cup {None}
          /\ len \in {"fits", "over"} /\ {} \in SUBSET mesh_hdr_t
      BY TextAssumption DEF TypeOK
    <2>2. sendPktEx(n, seen[n], rxBuf[n], "DATA", dst, 0, len, {})
      BY <1>1 DEF CliSend
    <2>3. /\ msgID' \in [Node -> Ids]
          /\ sent' \in [Node -> Nat]
          /\ seen' \in [Node -> SeenRing]
          /\ pend' \in [Node -> [Pends -> pending_t]]
          /\ meshChan' \in [Node -> Chan]
          /\ rxBuf' \in [Node -> mesh_hdr_t \cup {None}]
      BY <1>0, <2>1, <2>2, SendPktExType
    <2> QED
      BY <1>1, <2>3 DEF CliSend, TypeOK
  <1>2. ASSUME NEW n \in Node, Beacon(n) PROVE TypeOK'
    <2>1. /\ seen[n] \in SeenRing /\ rxBuf[n] \in mesh_hdr_t \cup {None}
          /\ {} \in SUBSET mesh_hdr_t
      BY DEF TypeOK
    <2>2. sendPktEx(n, seen[n], rxBuf[n], "BEACON", NODE_BCAST, 0, "fits", {})
      BY <1>2 DEF Beacon
    <2>3. /\ msgID' \in [Node -> Ids]
          /\ sent' \in [Node -> Nat]
          /\ seen' \in [Node -> SeenRing]
          /\ pend' \in [Node -> [Pends -> pending_t]]
          /\ meshChan' \in [Node -> Chan]
          /\ rxBuf' \in [Node -> mesh_hdr_t \cup {None}]
      BY <1>0, <2>1, <2>2, SendPktExType
    <2> QED
      BY <1>2, <2>3 DEF Beacon, TypeOK
  <1>3. ASSUME NEW n \in Node, NEW c \in Chan, SetChan(n, c) PROVE TypeOK'
    BY <1>3 DEF SetChan, TypeOK
  <1>4. ASSUME NEW n \in Node, Discard(n) PROVE TypeOK'
    BY <1>4 DEF Discard, TypeOK
  <1>5. ASSUME NEW n \in Node, HandleBeacon(n) PROVE TypeOK'
    <2>1. rxBuf[n] # None
      BY <1>5 DEF HandleBeacon
    <2> QED
      BY <1>5, <2>1, HeldFrame DEF HandleBeacon, TypeOK
  <1>6. ASSUME NEW n \in Node, HandleAck(n) PROVE TypeOK'
    <2>1. rxBuf[n] # None
      BY <1>6 DEF HandleAck
    <2>2. ClearPending(pend[n], rxBuf[n].body, rxBuf[n].src)
             \in [Pends -> pending_t]
      <3>1. EmptyPend[0] \in pending_t
        BY <1>0, CacheAssumption DEF EmptyPend, pending_t, Pends, Addr
      <3> QED
        BY <3>1, PendingType DEF TypeOK
    <2>3. pend' \in [Node -> [Pends -> pending_t]]
      BY <1>6, <2>2 DEF HandleAck, TypeOK
    <2>4. seen' \in [Node -> SeenRing]
      BY <1>6, <2>1, HeldFrame DEF HandleAck, TypeOK
    <2>5. \A S \in SUBSET Pends : {pend[n][i] : i \in S} \subseteq pending_t
      BY DEF TypeOK
    <2>6. acked' \in [Node -> SUBSET pending_t]
      BY <1>6, <2>5 DEF HandleAck, TypeOK
    <2>7. rxBuf' \in [Node -> mesh_hdr_t \cup {None}]
      BY <1>6 DEF HandleAck, TypeOK
    <2> QED
      BY <1>6, <2>3, <2>4, <2>6, <2>7 DEF HandleAck, TypeOK
  <1>7. ASSUME NEW n \in Node, HandleDataForMe(n) PROVE TypeOK'
    <2>1. rxBuf[n] # None /\ Display(n, rxBuf[n])
      BY <1>7 DEF HandleDataForMe
    <2>2. PICK rssi \in RssiClass, lucky \in BOOLEAN :
            sendPktEx(n, Marked(n, rxBuf[n]), None, "ACK", rxBuf[n].src,
                      rxBuf[n].id, "fits",
                      Forwarded(n, rxBuf[n], rssi, lucky))
      BY <1>7 DEF HandleDataForMe
    <2>3. /\ rxBuf[n].src \in Node /\ rxBuf[n].id \in Ids
          /\ Marked(n, rxBuf[n]) \in SeenRing
          /\ Forwarded(n, rxBuf[n], rssi, lucky) \in SUBSET mesh_hdr_t
      BY <2>1, HeldFrame, ForwardedType
    <2>4. shown' \in [Node -> SUBSET ShownRecord]
      BY <2>1, DisplayType
    <2>5. /\ msgID' \in [Node -> Ids]
          /\ sent' \in [Node -> Nat]
          /\ seen' \in [Node -> SeenRing]
          /\ pend' \in [Node -> [Pends -> pending_t]]
          /\ meshChan' \in [Node -> Chan]
          /\ rxBuf' \in [Node -> mesh_hdr_t \cup {None}]
      BY <1>0, <2>2, <2>3, SendPktExType
    <2> QED
      BY <1>7, <2>4, <2>5 DEF HandleDataForMe, TypeOK
  <1>8. ASSUME NEW n \in Node, HandleDataInTransit(n) PROVE TypeOK'
    <2> DEFINE h == rxBuf[n]
    <2>1. h # None /\ (Display(n, h) \/ UNCHANGED shown)
      BY <1>8 DEF HandleDataInTransit
    <2>2. shown' \in [Node -> SUBSET ShownRecord]
      BY <2>1, DisplayType DEF TypeOK
    <2>3. seen' \in [Node -> SeenRing]
      BY <1>8, <2>1, HeldFrame DEF HandleDataInTransit, TypeOK
    <2>4. PICK rssi \in RssiClass, lucky \in BOOLEAN :
            startTransmit(n, Forwarded(n, h, rssi, lucky), None)
      BY <1>8 DEF HandleDataInTransit
    <2>5. Forwarded(n, h, rssi, lucky) \in SUBSET mesh_hdr_t
      BY <2>1, HeldFrame, ForwardedType
    <2>6. rxBuf' \in [Node -> mesh_hdr_t \cup {None}]
      BY <2>4, <2>5, StartTransmitType
    <2> QED
      BY <1>8, <2>2, <2>3, <2>6 DEF HandleDataInTransit, TypeOK
  <1>9. ASSUME NEW n \in Node, Restart(n) PROVE TypeOK'
    <2>1. EmptySeen \in SeenRing /\ EmptyPend \in [Pends -> pending_t]
      <3>1. 0 \in Slots /\ << >> \in Seq(LogEntry)
        BY CacheAssumption DEF Slots
      <3> QED
        BY <1>0, <3>1
        DEF EmptySeen, SeenRing, seen_t, LogEntry, EmptyPend, pending_t, Addr
    <2> QED
      BY <1>0, <1>9, <2>1 DEF Restart, TypeOK
  <1>10. CASE UNCHANGED vars
    BY <1>10 DEF vars, TypeOK
  <1> QED
    BY <1>1, <1>2, <1>3, <1>4, <1>5, <1>6, <1>7, <1>8, <1>9, <1>10
    DEF Next, RxPacket

\* The state of every node is well typed in every behaviour: no index leaves
\* its array and no id its width.
THEOREM TypeCorrect == Spec => []TypeOK
  BY InitType, NextType, PTL DEF Spec

-----------------------------------------------------------------------------
(* The duplicate filter                                                    *)

HistoryOK == \A n \in Node : Dated(seen[n], shown[n], boot[n])

\* The inductive invariant.
FilterInv == TypeOK /\ SeenIsRecent /\ HistoryOK

\* A node that marks a frame without displaying one keeps the invariant.
LEMMA MarkStep ==
    ASSUME FilterInv, TypeOK', NEW n \in Node, NEW q \in SeenRing, RingOK(q),
           Dated(q, shown'[n], boot[n]),
           seen' = [seen EXCEPT ![n] = q], UNCHANGED boot,
           \A m \in Node \ {n} : shown'[m] = shown[m]
    PROVE  FilterInv'
  <1>1. SeenIsRecent'
    BY DEF FilterInv, SeenIsRecent, TypeOK
  <1>2. HistoryOK'
    BY DEF FilterInv, HistoryOK, TypeOK
  <1> QED
    BY <1>1, <1>2 DEF FilterInv

\* The ring and history of a node are those of an invariant state.
LEMMA NodeFacts ==
    ASSUME FilterInv, NEW n \in Node
    PROVE  /\ seen[n] \in SeenRing /\ RingOK(seen[n])
           /\ shown[n] \in SUBSET ShownRecord /\ boot[n] \in Nat
           /\ Dated(seen[n], shown[n], boot[n])
           /\ msgID[n] \in Ids /\ sent[n] + 1 \in Nat
  BY DEF FilterInv, TypeOK, SeenIsRecent, HistoryOK

\* sendPktEx() marks the packet it sends.
LEMMA SendMarks ==
    ASSUME NEW n, NEW r, NEW own, NEW type, NEW dst, NEW body, NEW len,
           NEW after, sendPktEx(n, r, own, type, dst, body, len, after)
    PROVE  seen' = [seen EXCEPT ![n] = markSeen(r, n, msgID[n], sent[n] + 1)]
  BY DEF sendPktEx, NewHdr

\* Sending keeps the invariant, whatever the packet.
LEMMA SendStep ==
    ASSUME FilterInv, TypeOK', NEW n \in Node, UNCHANGED <<boot, shown>>,
           seen' = [seen EXCEPT ![n] =
                      markSeen(seen[n], n, msgID[n], sent[n] + 1)]
    PROVE  FilterInv'
  <1> DEFINE q == markSeen(seen[n], n, msgID[n], sent[n] + 1)
  <1>1. q \in SeenRing /\ RingOK(q) /\ Dated(q, shown[n], boot[n])
    BY NodeFacts, MarkSeenType, MarkSeenRing, DatedMark
  <1> HIDE DEF q
  <1> QED
    BY <1>1, MarkStep DEF q

\* An accepted frame h leaves the ring and the history in order, displayed or
\* not.
LEMMA AcceptFacts ==
    ASSUME FilterInv, NEW n \in Node, rxBuf[n] # None, Accepts(n, rxBuf[n])
    PROVE  /\ Marked(n, rxBuf[n]) \in SeenRing
           /\ RingOK(Marked(n, rxBuf[n]))
           /\ Dated(Marked(n, rxBuf[n]), shown[n], boot[n])
           /\ Display(n, rxBuf[n]) =>
                 Dated(Marked(n, rxBuf[n]), shown'[n], boot[n])
  <1> DEFINE h == rxBuf[n]
             d == [src |-> h.src, id |-> h.id, origin |-> h.origin,
                   pos |-> Len(seen[n].log) + 1, boot |-> boot[n]]
  <1>1. /\ h.src \in Node /\ h.id \in Ids /\ h.origin \in Nat
        /\ Marked(n, h) \in SeenRing
    BY HeldFrame DEF FilterInv
  <1>2. RingOK(Marked(n, h)) /\ Dated(Marked(n, h), shown[n], boot[n])
    BY <1>1, NodeFacts, MarkSeenRing, DatedMark DEF Marked
  <1>3. ~ seenBefore(seen[n], h.src, h.id)
    BY DEF Accepts
  <1>4. Dated(Marked(n, h), shown[n] \cup {d}, boot[n])
    BY <1>1, <1>3, NodeFacts, DatedShow DEF Marked
  <1>5. Display(n, h) => shown'[n] = shown[n] \cup {d}
    BY DEF Display, FilterInv, TypeOK
  <1> HIDE DEF d
  <1> QED
    BY <1>1, <1>2, <1>4, <1>5

\* Every step of every node keeps the inductive invariant.
LEMMA FilterInvNext == FilterInv /\ [Next]_vars => FilterInv'
  <1> SUFFICES ASSUME FilterInv, [Next]_vars PROVE FilterInv'
    OBVIOUS
  <1>0. TypeOK /\ TypeOK'
    BY NextType DEF FilterInv
  <1>1. ASSUME NEW n \in Node, NEW dst \in Node \cup {NODE_BCAST},
               NEW len \in TextLen, CliSend(n, dst, len)
        PROVE  FilterInv'
    BY <1>0, <1>1, SendMarks, SendStep DEF CliSend
  <1>2. ASSUME NEW n \in Node, Beacon(n) PROVE FilterInv'
    BY <1>0, <1>2, SendMarks, SendStep DEF Beacon
  <1>3. ASSUME UNCHANGED <<seen, shown, boot>> PROVE FilterInv'
    BY <1>0, <1>3 DEF FilterInv, SeenIsRecent, HistoryOK
  <1>4. ASSUME NEW n \in Node, HandleBeacon(n) \/ HandleAck(n)
        PROVE  FilterInv'
    <2>1. /\ rxBuf[n] # None /\ Accepts(n, rxBuf[n])
          /\ seen' = [seen EXCEPT ![n] = Marked(n, rxBuf[n])]
          /\ UNCHANGED <<boot, shown>>
      BY <1>4 DEF HandleBeacon, HandleAck
    <2> QED
      BY <1>0, <2>1, AcceptFacts, MarkStep
  <1>5. ASSUME NEW n \in Node, HandleDataInTransit(n) PROVE FilterInv'
    <2>1. /\ rxBuf[n] # None /\ Accepts(n, rxBuf[n])
          /\ seen' = [seen EXCEPT ![n] = Marked(n, rxBuf[n])]
          /\ UNCHANGED boot
          /\ Display(n, rxBuf[n]) \/ UNCHANGED shown
      BY <1>5 DEF HandleDataInTransit
    <2>2. Dated(Marked(n, rxBuf[n]), shown'[n], boot[n])
      BY <2>1, AcceptFacts
    <2>3. \A m \in Node \ {n} : shown'[m] = shown[m]
      BY <1>0, <2>1 DEF Display, TypeOK
    <2> QED
      BY <1>0, <2>1, <2>2, <2>3, AcceptFacts, MarkStep
  <1>6. ASSUME NEW n \in Node, HandleDataForMe(n) PROVE FilterInv'
    <2> DEFINE r == Marked(n, rxBuf[n])
               q == markSeen(r, n, msgID[n], sent[n] + 1)
    <2>1. /\ rxBuf[n] # None /\ Accepts(n, rxBuf[n])
          /\ Display(n, rxBuf[n])
          /\ UNCHANGED boot
          /\ seen' = [seen EXCEPT ![n] = q]
      BY <1>6, SendMarks DEF HandleDataForMe
    <2>2. r \in SeenRing /\ RingOK(r) /\ Dated(r, shown'[n], boot[n])
      BY <2>1, AcceptFacts
    <2>3. shown'[n] \in SUBSET ShownRecord
      BY <1>0 DEF TypeOK
    <2> HIDE DEF r
    <2>4. q \in SeenRing /\ RingOK(q) /\ Dated(q, shown'[n], boot[n])
      BY <2>2, <2>3, NodeFacts, MarkSeenType, MarkSeenRing, DatedMark
    <2>5. \A m \in Node \ {n} : shown'[m] = shown[m]
      BY <1>0, <2>1 DEF Display, TypeOK
    <2> HIDE DEF q
    <2> QED
      BY <1>0, <2>1, <2>4, <2>5, MarkStep
  <1>7. ASSUME NEW n \in Node, Restart(n) PROVE FilterInv'
    <2>1. /\ seen' = [seen EXCEPT ![n] = EmptySeen]
          /\ boot' = [boot EXCEPT ![n] = @ + 1]
          /\ UNCHANGED shown
      BY <1>7 DEF Restart
    <2>2. RingOK(EmptySeen)
      BY CacheAssumption DEF RingOK, EmptySeen, Slots, Age
    <2>3. \A d \in shown[n] : d.boot \in Nat /\ d.boot <= boot[n]
      BY NodeFacts DEF Dated, ShownRecord
    <2>4. Dated(EmptySeen, shown[n], boot[n] + 1)
      BY <2>3, NodeFacts DEF Dated
    <2>5. SeenIsRecent'
      BY <1>0, <2>1, <2>2 DEF FilterInv, SeenIsRecent, TypeOK
    <2>6. HistoryOK'
      BY <1>0, <2>1, <2>4 DEF FilterInv, HistoryOK, TypeOK
    <2> QED
      BY <1>0, <2>5, <2>6 DEF FilterInv
  <1> QED
    BY <1>1, <1>2, <1>3, <1>4, <1>5, <1>6, <1>7
    DEF Next, RxPacket, SetChan, Discard, vars

\* The inductive invariant holds initially.
LEMMA FilterInvInit == Init => FilterInv
  <1> SUFFICES ASSUME Init PROVE FilterInv
    OBVIOUS
  <1>1. RingOK(EmptySeen)
    BY CacheAssumption DEF RingOK, EmptySeen, Slots, Age
  <1>2. SeenIsRecent
    BY <1>1 DEF Init, SeenIsRecent
  <1>3. HistoryOK
    BY DEF Init, HistoryOK, Dated
  <1> QED
    BY <1>2, <1>3, InitType DEF FilterInv

\* The duplicate cache of every node holds exactly its last SEEN_CACHE marks,
\* for every cache size, through sends, receptions and restarts.
THEOREM CacheCorrect == Spec => []SeenIsRecent
  <1>1. FilterInv => SeenIsRecent
    BY DEF FilterInv
  <1> QED
    BY <1>1, FilterInvInit, FilterInvNext, PTL DEF Spec

\* No node ever displays a message it has sent itself or handled before, as
\* long as fewer than SEEN_CACHE other messages came in between.
THEOREM NoRecentDuplicate == Spec => []DisplayedNotRecent
  <1>1. FilterInv => DisplayedNotRecent
    BY DEF FilterInv, HistoryOK, Dated, DisplayedNotRecent
  <1> QED
    BY <1>1, FilterInvInit, FilterInvNext, PTL DEF Spec

-----------------------------------------------------------------------------
(* Acknowledgements and the retry table                                    *)

\* The inductive invariant: AckBacked is inductive once the types are known.
AckInv == TypeOK /\ AckBacked

\* A frame is no ACK, or the message it confirms is in the history S.
Backed(h, S) ==
    h # None /\ h.type = "ACK" =>
        \E d \in S[h.src] : d.src = h.dst /\ d.id = h.body

\* What is in a radio after a transmission of the frames H was there before,
\* is one of them, or is what the node has left in its own.
LEMMA Received ==
    ASSUME TypeOK, NEW n \in Node, NEW H, NEW own, startTransmit(n, H, own),
           NEW m \in Node
    PROVE  rxBuf'[m] \in {rxBuf[m], own} \cup H
  BY DEF startTransmit, TypeOK

\* Nothing is taken back from the history of displayed messages, not even by
\* a restart.
LEMMA ShownGrows ==
    ASSUME TypeOK, [Next]_vars, NEW m \in Node
    PROVE  shown[m] \subseteq shown'[m]
  <1>1. \A n, h : Display(n, h) => shown[m] \subseteq shown'[m]
    BY DEF Display, TypeOK
  <1> QED
    BY <1>1 DEF Next, RxPacket, CliSend, Beacon, SetChan, Discard,
       HandleBeacon, HandleAck, HandleDataForMe, HandleDataInTransit, Restart,
       vars

\* A backed frame stays backed.
LEMMA BackedStays ==
    ASSUME TypeOK, [Next]_vars, NEW h \in mesh_hdr_t \cup {None},
           Backed(h, shown)
    PROVE  Backed(h, shown')
  <1>1. h # None => h.src \in Node
    BY DEF mesh_hdr_t
  <1> QED
    BY <1>1, ShownGrows DEF Backed

\* No radio holds an ACK initially.
LEMMA AckInvInit == Init => AckInv
  BY InitType DEF AckInv, AckBacked, Init

\* Every step of every node leaves only ACKs that are backed.
LEMMA AckInvNext == AckInv /\ [Next]_vars => AckInv'
  <1> SUFFICES ASSUME AckInv, [Next]_vars PROVE AckInv'
    OBVIOUS
  <1>0. TypeOK /\ TypeOK'
    BY NextType DEF AckInv
  <1>1. \A m \in Node : Backed(rxBuf[m], shown')
    <2> TAKE m \in Node
    <2>1. Backed(rxBuf[m], shown) /\ rxBuf[m] \in mesh_hdr_t \cup {None}
      BY <1>0 DEF AckInv, AckBacked, Backed, TypeOK
    <2> QED
      BY <1>0, <2>1, BackedStays
  <1>2. Backed(None, shown')
    BY DEF Backed
  <1>3. SUFFICES ASSUME NEW m \in Node PROVE Backed(rxBuf'[m], shown')
    BY <1>0 DEF AckInv, AckBacked, Backed
  <1>4. ASSUME NEW n \in Node, NEW r, NEW own, own \in {rxBuf[n], None},
               NEW type, type # "ACK", NEW dst, NEW body, NEW len,
               sendPktEx(n, r, own, type, dst, body, len, {})
        PROVE  Backed(rxBuf'[m], shown')
    <2> DEFINE h == NewHdr(n, type, dst, body)
    <2>1. startTransmit(n, {h} \cup {}, own)
      BY <1>4 DEF sendPktEx
    <2>2. Backed(h, shown')
      BY <1>4 DEF Backed, NewHdr
    <2> HIDE DEF h
    <2>3. rxBuf'[m] \in {rxBuf[m], own} \cup ({h} \cup {})
      BY <1>0, <2>1, Received
    <2> QED
      BY <1>1, <1>2, <1>4, <2>2, <2>3
  <1>5. ASSUME NEW n \in Node, NEW dst \in Node \cup {NODE_BCAST},
               NEW len \in TextLen, CliSend(n, dst, len)
        PROVE  Backed(rxBuf'[m], shown')
    BY <1>4, <1>5 DEF CliSend
  <1>6. ASSUME NEW n \in Node, Beacon(n) PROVE Backed(rxBuf'[m], shown')
    BY <1>4, <1>6 DEF Beacon
  <1>7. ASSUME NEW n \in Node, rxBuf' = [rxBuf EXCEPT ![n] = None]
        PROVE  Backed(rxBuf'[m], shown')
    BY <1>0, <1>1, <1>2, <1>7 DEF TypeOK
  <1>8. ASSUME NEW n \in Node, HandleDataForMe(n)
        PROVE  Backed(rxBuf'[m], shown')
    <2> DEFINE f == rxBuf[n]
               h == NewHdr(n, "ACK", f.src, f.id)
               d == [src |-> f.src, id |-> f.id, origin |-> f.origin,
                     pos |-> Len(seen[n].log) + 1, boot |-> boot[n]]
    <2>1. PICK rssi \in RssiClass, lucky \in BOOLEAN :
            startTransmit(n, {h} \cup Forwarded(n, f, rssi, lucky), None)
      BY <1>8 DEF HandleDataForMe, sendPktEx
    <2>2. d \in shown'[n]
      BY <1>0, <1>8 DEF HandleDataForMe, Display, TypeOK
    <2>3. Backed(h, shown')
      BY <2>2 DEF Backed, NewHdr
    <2>4. f # None /\ f.type = "DATA"
      BY <1>8 DEF HandleDataForMe
    <2>5. \A g \in Forwarded(n, f, rssi, lucky) : Backed(g, shown')
      BY <1>0, <2>4, HeldFrame, ForwardedType DEF Backed
    <2> HIDE DEF h
    <2>6. rxBuf'[m] \in
            {rxBuf[m], None} \cup ({h} \cup Forwarded(n, f, rssi, lucky))
      BY <1>0, <2>1, Received
    <2> QED
      BY <1>1, <1>2, <2>3, <2>5, <2>6
  <1>9. ASSUME NEW n \in Node, HandleDataInTransit(n)
        PROVE  Backed(rxBuf'[m], shown')
    <2>1. rxBuf[n] # None /\ rxBuf[n].type = "DATA"
      BY <1>9 DEF HandleDataInTransit
    <2>2. PICK rssi \in RssiClass, lucky \in BOOLEAN :
            startTransmit(n, Forwarded(n, rxBuf[n], rssi, lucky), None)
      BY <1>9 DEF HandleDataInTransit
    <2>3. \A g \in Forwarded(n, rxBuf[n], rssi, lucky) : Backed(g, shown')
      BY <1>0, <2>1, HeldFrame, ForwardedType DEF Backed
    <2>4. rxBuf'[m] \in
            {rxBuf[m], None} \cup Forwarded(n, rxBuf[n], rssi, lucky)
      BY <1>0, <2>2, Received
    <2> QED
      BY <1>1, <1>2, <2>3, <2>4
  <1>10. ASSUME UNCHANGED rxBuf PROVE Backed(rxBuf'[m], shown')
    BY <1>1, <1>10
  <1> QED
    BY <1>5, <1>6, <1>7, <1>8, <1>9, <1>10
    DEF Next, RxPacket, SetChan, Discard, HandleBeacon, HandleAck, Restart,
        vars

\* In a network of any size, however ACKs are lost, delayed or overwritten in
\* the radios: an ACK under way confirms a message that the node it comes
\* from has displayed.
THEOREM AckIsBacked == Spec => []AckBacked
  <1>1. AckInv => AckBacked
    BY DEF AckInv
  <1> QED
    BY <1>1, AckInvInit, AckInvNext, PTL DEF Spec

\* What a step may do to entry i of the retry table of n.
PendKeptAt(n, i) ==
    pend[n][i].id # 0 =>
         \/ pend'[n][i] = pend[n][i]
         \/ pend'[n][i] = [pend[n][i] EXCEPT !.id = 0]
         \/ boot'[n] # boot[n]
         \/ /\ TakesOverlong(n, i - 1)
            /\ pend'[n][i].origin = pend[n][i].origin

PendStep == \A n \in Node : \A i \in Pends : PendKeptAt(n, i)

\* TrackPending() changes a waiting entry only with a text that is too long,
\* in the free entry before it.
LEMMA TrackKeeps ==
    ASSUME NEW pd \in [Pends -> pending_t], NEW e \in pending_t,
           NEW t \in TrackPending(pd, e), NEW i \in Pends, pd[i].id # 0
    PROVE  \/ t[i] = pd[i]
           \/ /\ i - 1 \in Pends /\ pd[i - 1].id = 0
              /\ t[i - 1] = e /\ e.len = "over" /\ t[i].origin = pd[i].origin
  <1> DEFINE spot == {j \in Pends : IsFirst(Free(pd), j)}
             next == {j \in Pends : j - 1 \in spot /\ e.len = "over"}
  <1>1. PICK g \in [id : Ids \ {0}, dst : Addr] :
            t = [j \in Pends |->
                   IF j \in spot THEN e
                   ELSE IF j \in next
                     THEN [pd[j] EXCEPT !.id = g.id, !.dst = g.dst]
                     ELSE pd[j]]
    BY DEF TrackPending, Stored
  <1>2. \A j \in spot : j \in Pends /\ pd[j].id = 0
    BY DEF IsFirst, Free
  <1>3. i \notin spot
    BY <1>2
  <1>4. i \in next => i - 1 \in spot /\ e.len = "over"
    OBVIOUS
  <1>5. pd[i] \in pending_t
    OBVIOUS
  <1> HIDE DEF spot, next
  <1>6. CASE i \in next
    <2>1. i - 1 \in Pends /\ pd[i - 1].id = 0 /\ t[i - 1] = e
      BY <1>1, <1>2, <1>4, <1>6
    <2>2. t[i] = [pd[i] EXCEPT !.id = g.id, !.dst = g.dst]
      BY <1>1, <1>3, <1>6
    <2>3. t[i].origin = pd[i].origin
      BY <1>5, <2>2 DEF pending_t
    <2> QED
      BY <1>4, <1>6, <2>1, <2>3
  <1>7. CASE i \notin next
    BY <1>1, <1>3, <1>7
  <1> QED
    BY <1>6, <1>7

\* Every step of every node keeps the entries that wait.
LEMMA PendNext == TypeOK /\ [Next]_vars => PendStep
  <1> SUFFICES ASSUME TypeOK, [Next]_vars PROVE PendStep
    OBVIOUS
  <1>1. ASSUME NEW n \in Node, NEW r, NEW own, NEW type, NEW body,
               NEW dst \in Node \cup {NODE_BCAST}, NEW len \in {"fits", "over"},
               NEW after, sendPktEx(n, r, own, type, dst, body, len, after)
        PROVE  PendStep
    <2> DEFINE e == [id |-> msgID[n], dst |-> dst, origin |-> sent[n] + 1,
                     len |-> len]
    <2>1. \/ pend' = pend
          \/ \E t \in TrackPending(pend[n], e) : pend' = [pend EXCEPT ![n] = t]
      BY <1>1 DEF sendPktEx, NewHdr
    <2>2. e \in pending_t
      BY DEF pending_t, Addr, TypeOK
    <2>3. e.len = "over" => len = "over"
      OBVIOUS
    <2>4. e.origin = sent[n] + 1
      OBVIOUS
    <2>5. pend[n] \in [Pends -> pending_t] /\ pend \in [Node -> [Pends -> pending_t]]
      BY DEF TypeOK
    <2> HIDE DEF e
    <2>6. CASE pend' = pend
      BY <2>6 DEF PendStep, PendKeptAt
    <2>7. ASSUME NEW t \in TrackPending(pend[n], e),
                 pend' = [pend EXCEPT ![n] = t]
          PROVE  PendStep
      <3> SUFFICES ASSUME NEW m \in Node, NEW i \in Pends, pend[m][i].id # 0
                   PROVE  PendKeptAt(m, i)
        BY DEF PendStep, PendKeptAt
      <3>1. CASE m # n
        BY <2>5, <2>7, <3>1 DEF PendKeptAt
      <3>2. CASE m = n
        <4>1. pend'[n] = t
          BY <2>5, <2>7
        <4>2. \/ t[i] = pend[n][i]
              \/ /\ i - 1 \in Pends /\ pend[n][i - 1].id = 0
                 /\ t[i - 1] = e /\ e.len = "over"
                 /\ t[i].origin = pend[n][i].origin
          BY <2>2, <2>5, <3>2, TrackKeeps
        <4> QED
          BY <2>4, <3>2, <4>1, <4>2 DEF PendKeptAt, TakesOverlong
      <3> QED
        BY <3>1, <3>2
    <2> QED
      BY <2>1, <2>6, <2>7
  <1>2. ASSUME NEW n \in Node, HandleAck(n) PROVE PendStep
    <2> DEFINE t == ClearPending(pend[n], rxBuf[n].body, rxBuf[n].src)
    <2>1. pend' = [pend EXCEPT ![n] = t]
      BY <1>2 DEF HandleAck
    <2>2. \A i \in Pends : t[i] = [pend[n][i] EXCEPT !.id = 0]
                             \/ t[i] = pend[n][i]
      BY DEF ClearPending
    <2> HIDE DEF t
    <2> QED
      BY <2>1, <2>2 DEF PendStep, PendKeptAt, TypeOK
  <1>3. ASSUME NEW n \in Node, Restart(n) PROVE PendStep
    <2>1. /\ pend' = [pend EXCEPT ![n] = EmptyPend]
          /\ boot' = [boot EXCEPT ![n] = @ + 1]
      BY <1>3 DEF Restart
    <2>2. boot[n] \in Nat /\ boot'[n] = boot[n] + 1
      BY <2>1 DEF TypeOK
    <2>3. boot'[n] # boot[n]
      BY <2>2
    <2> QED
      BY <2>1, <2>3 DEF PendStep, PendKeptAt, TypeOK
  <1>4. ASSUME UNCHANGED pend PROVE PendStep
    BY <1>4 DEF PendStep, PendKeptAt
  <1>5. ASSUME NEW n \in Node, NEW dst \in Node \cup {NODE_BCAST},
               NEW len \in TextLen, CliSend(n, dst, len)
        PROVE  PendStep
    BY <1>1, <1>5, TextAssumption DEF CliSend
  <1>6. ASSUME NEW n \in Node, Beacon(n) PROVE PendStep
    BY <1>1, <1>6 DEF Beacon
  <1>7. ASSUME NEW n \in Node, HandleDataForMe(n) PROVE PendStep
    <2>1. rxBuf[n] # None
      BY <1>7 DEF HandleDataForMe
    <2>2. rxBuf[n].src \in Node
      BY <2>1, HeldFrame
    <2> QED
      BY <1>1, <1>7, <2>2 DEF HandleDataForMe
  <1> QED
    BY <1>2, <1>3, <1>4, <1>5, <1>6, <1>7
    DEF Next, RxPacket, SetChan, Discard, HandleBeacon, HandleDataInTransit,
        vars

\* For every size of the retry table and texts of every length: an entry that
\* waits for its ACK is kept as it is until an ACK or a restart frees it; no
\* send, with the table full or not, takes it, but for the id and dst that a
\* text too long for the entry before it runs over.
THEOREM WaitingIsKept == Spec => PendingKept
  <1>1. TypeOK /\ [Next]_vars =>
          [\A n \in Node : \A i \in Pends : pend[n][i].id # 0 =>
             \/ pend'[n][i] = pend[n][i]
             \/ pend'[n][i] = [pend[n][i] EXCEPT !.id = 0]
             \/ boot'[n] # boot[n]
             \/ /\ TakesOverlong(n, i - 1)
                /\ pend'[n][i].origin = pend[n][i].origin]_vars
    BY PendNext DEF PendStep, PendKeptAt
  <1> QED
    BY <1>1, TypeCorrect, PTL DEF Spec, PendingKept

-----------------------------------------------------------------------------
(* The numbering of messages                                               *)

Tag(h) == [src |-> h.src, id |-> h.id, origin |-> h.origin]

\* Node n's radio holds the message x, or n has marked it since it booted.
Holds(n, x) ==
    \/ rxBuf[n] # None /\ x = Tag(rxBuf[n])
    \/ \E k \in 1 .. Len(seen[n].log) : x = seen[n].log[k]

Items == {x \in LogEntry : \E n \in Node : Holds(n, x)}

\* How many ids the counter m has gone past i, before it meets i again.
Gap(m, i) == IF i < m THEN m - i - 1 ELSE m - i - 1 + IdMod

\* A sender that has not restarted has used its ids in turn: it has sent at
\* least as many packets since x as its counter has advanced ...
GapOK(x) ==
    /\ x.origin <= sent[x.src]
    /\ boot[x.src] = 0 => Gap(msgID[x.src], x.id) <= sent[x.src] - x.origin

\* ... so that two messages with the same source and id are the same, or a
\* turn of the counter apart.
Apart(x, y) ==
    (x.src = y.src /\ x.id = y.id /\ boot[x.src] = 0) =>
        x.origin = y.origin \/ FarApart(x.origin, y.origin)

Numbered == /\ \A x \in Items : GapOK(x)
            /\ \A x, y \in Items : Apart(x, y)

\* The counter steps through all its values.
LEMMA NextId ==
    ASSUME NEW m \in Ids
    PROVE  (m + 1) % IdMod = IF m + 1 = IdMod THEN 0 ELSE m + 1
  <1>1. CASE m + 1 = IdMod
    BY <1>1, IdAssumption DEF Ids
  <1>2. CASE m + 1 # IdMod
    <2>1. m + 1 \in 0 .. IdMod - 1
      BY <1>2, IdAssumption DEF Ids
    <2> QED
      BY <1>2, <2>1, IdAssumption
  <1> QED
    BY <1>1, <1>2

\* Losing items, other nodes' steps and restarts keep the numbering.
LEMMA ItemsShrink ==
    ASSUME TypeOK, Numbered, Items' \subseteq Items, sent' = sent,
           \A m \in Node : boot'[m] = 0 => boot[m] = 0 /\ msgID'[m] = msgID[m]
    PROVE  Numbered'
  <1>1. \A x \in Items : x.src \in Node
    BY DEF Items, LogEntry
  <1>2. \A x \in Items : GapOK(x)'
    BY <1>1 DEF Numbered, GapOK
  <1>3. \A x, y \in Items : Apart(x, y)'
    BY <1>1 DEF Numbered, Apart, FarApart
  <1> QED
    BY <1>2, <1>3 DEF Numbered

\* A new packet of n keeps the numbering: when its id is one that is still
\* known, the counter has come round since.
LEMMA ItemSent ==
    ASSUME TypeOK, Numbered, NEW n \in Node, NEW e,
           e = [src |-> n, id |-> msgID[n], origin |-> sent[n] + 1],
           Items' \subseteq Items \cup {e}, boot' = boot,
           sent' = [sent EXCEPT ![n] = @ + 1],
           msgID' = [msgID EXCEPT ![n] = (@ + 1) % IdMod]
    PROVE  Numbered'
  <1> DEFINE m == msgID[n]
             c == sent[n]
  <1>1. /\ m \in Ids /\ c \in Nat /\ IdMod \in Nat \ {0}
        /\ msgID'[n] = IF m + 1 = IdMod THEN 0 ELSE m + 1
        /\ sent'[n] = c + 1
        /\ \A s \in Node : s # n => msgID'[s] = msgID[s] /\ sent'[s] = sent[s]
        /\ \A s \in Node : msgID[s] \in Ids /\ sent[s] \in Nat
    BY NextId, IdAssumption DEF TypeOK
  <1>2. \A x \in Items : x.src \in Node /\ x.id \in Ids /\ x.origin \in Nat
    BY DEF Items, LogEntry
  <1>3. e.src = n /\ e.id = m /\ e.origin = c + 1
    OBVIOUS
  <1> HIDE DEF m, c
  <1>4. ASSUME NEW x \in Items PROVE GapOK(x)'
    <2>1. /\ x.origin <= sent[x.src]
          /\ boot[x.src] = 0 =>
               Gap(msgID[x.src], x.id) <= sent[x.src] - x.origin
      BY DEF Numbered, GapOK
    <2>2. CASE x.src = n
      <3>1. boot[x.src] = 0 =>
              Gap(msgID'[n], x.id) <= Gap(m, x.id) + 1
        BY <1>1, <1>2 DEF Gap, Ids
      <3>2. Gap(m, x.id) \in Int /\ Gap(msgID'[n], x.id) \in Int
        BY <1>1, <1>2 DEF Gap, Ids
      <3>3. boot[x.src] = 0 =>
              Gap(msgID'[x.src], x.id) <= sent'[x.src] - x.origin
        BY <1>1, <1>2, <2>1, <2>2, <3>1, <3>2 DEF m, c
      <3>4. x.origin <= sent'[x.src]
        BY <1>1, <1>2, <2>1, <2>2 DEF c
      <3> QED
        BY <1>2, <3>3, <3>4 DEF GapOK, Gap
    <2>3. CASE x.src # n
      <3>1. msgID'[x.src] = msgID[x.src] /\ sent'[x.src] = sent[x.src]
        BY <1>1, <1>2, <2>3
      <3> QED
        BY <1>2, <2>1, <3>1 DEF GapOK, Gap
    <2> QED
      BY <2>2, <2>3
  <1>5. GapOK(e)'
    <2>1. Gap(msgID'[n], m) = 0
      BY <1>1 DEF Gap, Ids
    <2> QED
      BY <1>1, <1>3, <2>1 DEF GapOK, Gap
  <1>6. ASSUME NEW x \in Items PROVE Apart(x, e)' /\ Apart(e, x)'
    <2>1. SUFFICES ASSUME x.src = n, x.id = m, boot[n] = 0
                   PROVE  c + 1 >= x.origin + IdMod
      BY <1>1, <1>2, <1>3 DEF Apart, FarApart
    <2>2. Gap(m, m) = IdMod - 1
      BY <1>1 DEF Gap, Ids
    <2>3. Gap(m, m) <= c - x.origin
      BY <2>1 DEF Numbered, GapOK, m, c
    <2> QED
      BY <1>1, <1>2, <2>2, <2>3
  <1>7. \A x, y \in Items : Apart(x, y)'
    BY DEF Numbered, Apart, FarApart
  <1>8. Apart(e, e)'
    BY DEF Apart
  <1> QED
    BY <1>4, <1>5, <1>6, <1>7, <1>8 DEF Numbered

\* What is in a ring is known.
LEMMA RingItems ==
    ASSUME TypeOK, NEW n \in Node, NEW k \in 1 .. Len(seen[n].log)
    PROVE  seen[n].log[k] \in Items
  <1>1. seen[n] \in SeenRing
    BY DEF TypeOK
  <1>2. seen[n].log \in Seq(LogEntry)
    BY <1>1 DEF SeenRing, LogEntry
  <1>3. seen[n].log[k] \in LogEntry
    BY <1>2
  <1> QED
    BY <1>3 DEF Items, Holds

\* What is in a radio is known.
LEMMA HeldItems ==
    ASSUME TypeOK, NEW n \in Node, rxBuf[n] # None
    PROVE  Tag(rxBuf[n]) \in Items
  BY HeldFrame DEF Items, Holds, Tag, LogEntry

\* markSeen() adds one entry to what the ring has marked.
LEMMA MarkAdds ==
    ASSUME NEW r \in SeenRing, NEW s \in Node, NEW i \in Ids, NEW o \in Nat,
           NEW k \in 1 .. Len(markSeen(r, s, i, o).log)
    PROVE  \/ markSeen(r, s, i, o).log[k] =
                 [src |-> s, id |-> i, origin |-> o]
           \/ \E j \in 1 .. Len(r.log) :
                 markSeen(r, s, i, o).log[k] = r.log[j]
  <1> DEFINE q == markSeen(r, s, i, o)
             l == Len(r.log)
  <1>1. /\ l \in Nat /\ Len(q.log) = l + 1
        /\ \A j \in 1 .. l : q.log[j] = r.log[j]
        /\ q.log[l + 1] = [src |-> s, id |-> i, origin |-> o]
    BY MarkSeenLog
  <1>2. k \in 1 .. Len(q.log)
    OBVIOUS
  <1> HIDE DEF q
  <1>3. k = l + 1 \/ k \in 1 .. l
    BY <1>1, <1>2
  <1>4. \/ q.log[k] = [src |-> s, id |-> i, origin |-> o]
        \/ \E j \in 1 .. l : q.log[k] = r.log[j]
    BY <1>1, <1>3
  <1> QED
    BY <1>4 DEF q

\* The mark of a held frame adds nothing new.
LEMMA MarkedItems ==
    ASSUME TypeOK, NEW n \in Node, rxBuf[n] # None,
           NEW k \in 1 .. Len(Marked(n, rxBuf[n]).log)
    PROVE  Marked(n, rxBuf[n]).log[k] \in Items
  <1> DEFINE h == rxBuf[n]
             q == markSeen(seen[n], h.src, h.id, h.origin)
  <1>1. /\ h.src \in Node /\ h.id \in Ids /\ h.origin \in Nat
        /\ seen[n] \in SeenRing
    BY HeldFrame DEF TypeOK
  <1>2. q = Marked(n, h) /\ k \in 1 .. Len(q.log)
    BY DEF Marked
  <1>3. \/ q.log[k] = Tag(h)
        \/ \E j \in 1 .. Len(seen[n].log) : q.log[k] = seen[n].log[j]
    BY <1>1, <1>2, MarkAdds DEF Tag
  <1>4. q.log[k] \in Items
    BY <1>3, HeldItems, RingItems
  <1> QED
    BY <1>2, <1>4

\* New items come only from the rings and radios that change.
LEMMA ItemsFrom ==
    ASSUME TypeOK, NEW S,
           \A m \in Node : rxBuf'[m] # None =>
               rxBuf'[m] = rxBuf[m] \/ Tag(rxBuf'[m]) \in S \cup Items,
           \A m \in Node : \A k \in 1 .. Len(seen'[m].log) :
               seen'[m] = seen[m] \/ seen'[m].log[k] \in S \cup Items
    PROVE  Items' \subseteq Items \cup S
  <1> SUFFICES ASSUME NEW x \in LogEntry, NEW m \in Node, Holds(m, x)'
               PROVE  x \in Items \cup S
    BY DEF Items
  <1>1. CASE rxBuf'[m] # None /\ x = Tag(rxBuf'[m])
    BY <1>1, HeldItems
  <1>2. ASSUME NEW k \in 1 .. Len(seen'[m].log), x = seen'[m].log[k]
        PROVE  x \in Items \cup S
    BY <1>2, RingItems
  <1> QED
    BY <1>1, <1>2 DEF Holds, Tag

\* sendPktEx() makes one new item, the packet it sends.
LEMMA SentItems ==
    ASSUME TypeOK, NEW n \in Node, NEW r \in SeenRing, NEW own, NEW type,
           NEW dst, NEW body, NEW len, NEW after,
           sendPktEx(n, r, own, type, dst, body, len, after),
           own \in {rxBuf[n], None}, \A g \in after : Tag(g) \in Items,
           \A k \in 1 .. Len(r.log) : r.log[k] \in Items
    PROVE  Items' \subseteq Items \cup
             {[src |-> n, id |-> msgID[n], origin |-> sent[n] + 1]}
  <1> DEFINE h == NewHdr(n, type, dst, body)
             e == [src |-> n, id |-> msgID[n], origin |-> sent[n] + 1]
             q == markSeen(r, n, msgID[n], sent[n] + 1)
  <1>1. startTransmit(n, {h} \cup after, own) /\ Tag(h) = e
        /\ seen' = [seen EXCEPT ![n] = q]
    BY SendMarks DEF sendPktEx, NewHdr, Tag
  <1>2. msgID[n] \in Ids /\ sent[n] + 1 \in Nat
    BY DEF TypeOK
  <1>3. \A k \in 1 .. Len(q.log) :
           q.log[k] = e \/ \E j \in 1 .. Len(r.log) : q.log[k] = r.log[j]
    BY <1>2, MarkAdds
  <1> HIDE DEF h, e, q
  <1>4. \A k \in 1 .. Len(q.log) : q.log[k] \in Items \cup {e}
    BY <1>3
  <1>5. \A m \in Node : \A k \in 1 .. Len(seen'[m].log) :
               seen'[m] = seen[m] \/ seen'[m].log[k] \in {e} \cup Items
    BY <1>1, <1>4 DEF TypeOK
  <1>6. \A m \in Node : rxBuf'[m] # None =>
               rxBuf'[m] = rxBuf[m] \/ Tag(rxBuf'[m]) \in {e} \cup Items
    <2> TAKE m \in Node
    <2>2. CASE m = n
      BY <1>1, <2>2 DEF startTransmit, TypeOK
    <2>3. CASE m # n
      <3>1. rxBuf'[m] = rxBuf[m] \/ rxBuf'[m] \in {h} \cup after
        BY <1>1, <2>3 DEF startTransmit, TypeOK
      <3> QED
        BY <1>1, <3>1
    <2> QED
      BY <2>2, <2>3
  <1>7. Items' \subseteq Items \cup {e}
    BY <1>5, <1>6, ItemsFrom
  <1> QED
    BY <1>7 DEF e

\* The inductive invariant of the numbering.
IdInv == TypeOK /\ Numbered

\* Nothing is numbered initially.
LEMMA IdInvInit == Init => IdInv
  <1> SUFFICES ASSUME Init PROVE IdInv
    OBVIOUS
  <1>1. \A n \in Node : rxBuf[n] = None /\ seen[n].log = << >>
    BY DEF Init, EmptySeen
  <1>2. Items = {}
    BY <1>1 DEF Items, Holds
  <1> QED
    BY <1>2, InitType DEF IdInv, Numbered

\* Every step of every node keeps the numbering.
LEMMA IdInvNext == IdInv /\ [Next]_vars => IdInv'
  <1> SUFFICES ASSUME IdInv, [Next]_vars PROVE IdInv'
    OBVIOUS
  <1>0. TypeOK /\ Numbered /\ TypeOK'
    BY NextType DEF IdInv
  <1>1. SUFFICES Numbered'
    BY <1>0 DEF IdInv
  <1>2. ASSUME NEW n \in Node, NEW r \in SeenRing, NEW own, NEW type,
               NEW dst, NEW body, NEW len, NEW after,
               sendPktEx(n, r, own, type, dst, body, len, after),
               own \in {rxBuf[n], None}, boot' = boot,
               \A g \in after : Tag(g) \in Items,
               \A k \in 1 .. Len(r.log) : r.log[k] \in Items
        PROVE  Numbered'
    <2>1. /\ sent' = [sent EXCEPT ![n] = @ + 1]
          /\ msgID' = [msgID EXCEPT ![n] = (@ + 1) % IdMod]
      BY <1>2 DEF sendPktEx
    <2>2. Items' \subseteq Items \cup
             {[src |-> n, id |-> msgID[n], origin |-> sent[n] + 1]}
      BY <1>0, <1>2, SentItems
    <2> QED
      BY <1>0, <1>2, <2>1, <2>2, ItemSent
  <1>3. ASSUME NEW n \in Node,
               \/ \E dst \in Node \cup {NODE_BCAST}, len \in TextLen :
                     CliSend(n, dst, len)
               \/ Beacon(n)
        PROVE  Numbered'
    <2>1. seen[n] \in SeenRing
          /\ \A k \in 1 .. Len(seen[n].log) : seen[n].log[k] \in Items
      BY <1>0, RingItems DEF TypeOK
    <2> QED
      BY <1>2, <1>3, <2>1 DEF CliSend, Beacon
  <1>4. ASSUME NEW n \in Node, HandleDataForMe(n) PROVE Numbered'
    <2>1. rxBuf[n] # None /\ boot' = boot
      BY <1>4 DEF HandleDataForMe
    <2>2. PICK rssi \in RssiClass, lucky \in BOOLEAN :
            sendPktEx(n, Marked(n, rxBuf[n]), None, "ACK", rxBuf[n].src,
                      rxBuf[n].id, "fits",
                      Forwarded(n, rxBuf[n], rssi, lucky))
      BY <1>4 DEF HandleDataForMe
    <2>3. /\ Marked(n, rxBuf[n]) \in SeenRing
          /\ \A k \in 1 .. Len(Marked(n, rxBuf[n]).log) :
                Marked(n, rxBuf[n]).log[k] \in Items
      BY <1>0, <2>1, HeldFrame, MarkedItems
    <2>4. \A g \in Forwarded(n, rxBuf[n], rssi, lucky) : Tag(g) \in Items
      <3> TAKE g \in Forwarded(n, rxBuf[n], rssi, lucky)
      <3>1. Tag(g) = Tag(rxBuf[n])
        BY <1>0, <2>1, HeldFrame, ForwardedType DEF Tag
      <3> QED
        BY <1>0, <2>1, <3>1, HeldItems
    <2> QED
      BY <1>2, <2>1, <2>2, <2>3, <2>4
  <1>5. ASSUME NEW n \in Node, UNCHANGED <<msgID, sent, boot>>,
               \/ seen' = seen
               \/ rxBuf[n] # None
                  /\ seen' = [seen EXCEPT ![n] = Marked(n, rxBuf[n])],
               \A m \in Node : rxBuf'[m] # None =>
                  \/ rxBuf'[m] = rxBuf[m]
                  \/ rxBuf[n] # None /\ Tag(rxBuf'[m]) = Tag(rxBuf[n])
        PROVE  Numbered'
    <2>1. \A m \in Node : rxBuf'[m] # None =>
               rxBuf'[m] = rxBuf[m] \/ Tag(rxBuf'[m]) \in {} \cup Items
      BY <1>0, <1>5, HeldItems
    <2>2. \A m \in Node : \A k \in 1 .. Len(seen'[m].log) :
               seen'[m] = seen[m] \/ seen'[m].log[k] \in {} \cup Items
      BY <1>0, <1>5, MarkedItems DEF TypeOK
    <2>3. Items' \subseteq Items \cup {}
      BY <1>0, <2>1, <2>2, ItemsFrom
    <2> QED
      BY <1>0, <1>5, <2>3, ItemsShrink
  <1>6. ASSUME NEW n \in Node, NEW c \in Chan, SetChan(n, c) PROVE Numbered'
    BY <1>5, <1>6 DEF SetChan
  <1>7. ASSUME NEW n \in Node,
               Discard(n) \/ HandleBeacon(n) \/ HandleAck(n)
        PROVE  Numbered'
    <2>1. /\ UNCHANGED <<msgID, sent, boot>>
          /\ rxBuf[n] # None /\ rxBuf' = [rxBuf EXCEPT ![n] = None]
          /\ \/ seen' = seen
             \/ seen' = [seen EXCEPT ![n] = Marked(n, rxBuf[n])]
      BY <1>7 DEF Discard, HandleBeacon, HandleAck
    <2>2. \A m \in Node : rxBuf'[m] # None => rxBuf'[m] = rxBuf[m]
      BY <1>0, <2>1 DEF TypeOK
    <2> QED
      BY <1>5, <2>1, <2>2
  <1>8. ASSUME NEW n \in Node, HandleDataInTransit(n) PROVE Numbered'
    <2>1. /\ UNCHANGED <<msgID, sent, boot>> /\ rxBuf[n] # None
          /\ seen' = [seen EXCEPT ![n] = Marked(n, rxBuf[n])]
      BY <1>8 DEF HandleDataInTransit
    <2>2. PICK rssi \in RssiClass, lucky \in BOOLEAN :
            startTransmit(n, Forwarded(n, rxBuf[n], rssi, lucky), None)
      BY <1>8 DEF HandleDataInTransit
    <2>3. \A g \in Forwarded(n, rxBuf[n], rssi, lucky) :
             Tag(g) = Tag(rxBuf[n])
      BY <1>0, <2>1, HeldFrame, ForwardedType DEF Tag
    <2>4. \A m \in Node : rxBuf'[m] # None =>
                  rxBuf'[m] = rxBuf[m] \/ Tag(rxBuf'[m]) = Tag(rxBuf[n])
      <3> TAKE m \in Node
      <3>1. rxBuf'[m] \in
              {rxBuf[m], None} \cup Forwarded(n, rxBuf[n], rssi, lucky)
        BY <1>0, <2>2, Received
      <3> QED
        BY <2>3, <3>1
    <2> QED
      BY <1>5, <2>1, <2>4
  <1>9. ASSUME NEW n \in Node, Restart(n) PROVE Numbered'
    <2>1. /\ sent' = sent /\ boot' = [boot EXCEPT ![n] = @ + 1]
          /\ msgID' = [msgID EXCEPT ![n] = 0]
          /\ seen' = [seen EXCEPT ![n] = EmptySeen]
          /\ rxBuf' = [rxBuf EXCEPT ![n] = None]
      BY <1>9 DEF Restart
    <2>2. \A m \in Node : rxBuf'[m] # None =>
               rxBuf'[m] = rxBuf[m] \/ Tag(rxBuf'[m]) \in {} \cup Items
      BY <1>0, <2>1 DEF TypeOK
    <2>3. \A m \in Node : \A k \in 1 .. Len(seen'[m].log) :
               seen'[m] = seen[m] \/ seen'[m].log[k] \in {} \cup Items
      BY <1>0, <2>1 DEF TypeOK, EmptySeen
    <2>4. Items' \subseteq Items \cup {}
      BY <1>0, <2>2, <2>3, ItemsFrom
    <2>5. \A m \in Node :
             boot'[m] = 0 => boot[m] = 0 /\ msgID'[m] = msgID[m]
      BY <1>0, <2>1 DEF TypeOK
    <2> QED
      BY <1>0, <2>1, <2>4, <2>5, ItemsShrink
  <1>10. CASE UNCHANGED vars
    <2>1. Items' = Items
      BY <1>10 DEF vars, Items, Holds
    <2> QED
      BY <1>0, <1>10, <2>1, ItemsShrink DEF vars
  <1> QED
    BY <1>3, <1>4, <1>6, <1>7, <1>8, <1>9, <1>10 DEF Next, RxPacket

\* seenBefore() finds only what has been marked, and (0, 0) in a slot that is
\* not in use yet.
LEMMA SeenIsMarked ==
    ASSUME NEW r \in SeenRing, RingOK(r), NEW s \in Node, NEW i,
           seenBefore(r, s, i), s # 0 \/ i # 0
    PROVE  \E k \in 1 .. Len(r.log) : r.log[k].src = s /\ r.log[k].id = i
  <1>1. PICK j \in Slots : r.slot[j] = [src |-> s, id |-> i]
    BY DEF seenBefore
  <1> DEFINE n == Len(r.log)
             a == Age(r, j)
  <1>2. n \in Nat /\ a \in 0 .. SeenCache - 1
    BY <1>1, CacheAssumption DEF SeenRing, Age, Slots
  <1>3. r.slot[j] # [src |-> 0, id |-> 0]
    BY <1>1
  <1>4. r.slot[j] = IF a < n THEN [src |-> r.log[n - a].src, id |-> r.log[n - a].id]
                    ELSE [src |-> 0, id |-> 0]
    BY <1>1 DEF RingOK
  <1> HIDE DEF a, n
  <1>5. a < n
    BY <1>3, <1>4
  <1>6. n - a \in 1 .. n
    BY <1>2, <1>5
  <1>7. r.log[n - a].src = s /\ r.log[n - a].id = i
    BY <1>1, <1>4, <1>5
  <1> QED
    BY <1>6, <1>7 DEF n

\* For every cache size, id width and set of nodeIDs: what the duplicate
\* filter suppresses from a sender that has not restarted is a copy of what
\* the node has handled, or has the id of a packet that the same sender sent
\* a whole turn of its counter away; but for the message (0, 0).
THEOREM OnlyDuplicatesDropped == Spec => []SuppressedIsDuplicate
  <1>1. FilterInv /\ IdInv => SuppressedIsDuplicate
    <2> SUFFICES ASSUME FilterInv, IdInv, NEW n \in Node, rxBuf[n] # None,
                        boot[rxBuf[n].src] = 0,
                        rxBuf[n].src # 0 \/ rxBuf[n].id # 0,
                        seenBefore(seen[n], rxBuf[n].src, rxBuf[n].id)
                 PROVE  \E k \in 1 .. Len(seen[n].log) :
                          /\ seen[n].log[k].src = rxBuf[n].src
                          /\ seen[n].log[k].id = rxBuf[n].id
                          /\ \/ seen[n].log[k].origin = rxBuf[n].origin
                             \/ FarApart(seen[n].log[k].origin,
                                         rxBuf[n].origin)
      BY DEF SuppressedIsDuplicate
    <2>1. TypeOK /\ rxBuf[n].src \in Node
      BY HeldFrame DEF IdInv
    <2>2. PICK k \in 1 .. Len(seen[n].log) :
               /\ seen[n].log[k].src = rxBuf[n].src
               /\ seen[n].log[k].id = rxBuf[n].id
      BY <2>1, NodeFacts, SeenIsMarked
    <2>3. Apart(seen[n].log[k], Tag(rxBuf[n]))
      BY <2>1, <2>2, RingItems, HeldItems DEF IdInv, Numbered
    <2>4. \/ seen[n].log[k].origin = rxBuf[n].origin
          \/ FarApart(seen[n].log[k].origin, rxBuf[n].origin)
      BY <2>2, <2>3 DEF Apart, Tag
    <2> QED
      BY <2>2, <2>4
  <1> QED
    BY <1>1, FilterInvInit, FilterInvNext, IdInvInit, IdInvNext, PTL DEF Spec
=============================================================================
