---------------------------- MODULE MeshLoRaLite ----------------------------
(***************************************************************************)
(* The flooding protocol of meshtastic_alternative/MeshLoRaLite: a network *)
(* of nodes that each run the loop() of meshloralite.c.                    *)
(*                                                                         *)
(* One action is one branch of a node's loop: a CLI command, the beacon    *)
(* timer, or the handling of the frame the radio holds.  The nodes share   *)
(* nothing but the air, so a branch of one node is atomic for the others;  *)
(* the interrupt routines only raise flags.                                *)
(*                                                                         *)
(* The air (RadioLib and the SX1262, not part of the repository) is lossy: *)
(* a transmission reaches any subset of the other nodes, for range,        *)
(* collisions, CRC errors and radios that are not listening (the loop      *)
(* itself calls startReceive() right after a handler has started a         *)
(* transmission).  A radio holds one frame: a later one overwrites it.     *)
(*                                                                         *)
(* Left to modules of their own: the neighbour table (MeshNodeTable), the  *)
(* configuration and its flash page (MeshConfig).  Neither is read by a    *)
(* decision of the protocol, apart from ttl and chan.                      *)
(***************************************************************************)
EXTENDS Integers, Sequences, FiniteSets

CONSTANTS
    Node,         \* the nodeIDs present: genNodeID() is a CRC16, any value
    Chan,         \* the logical channels in use
    Ttl,          \* cfg.ttl, the same on every node
    IdMod,        \* number of values of the uint16_t msgID
    SeenCache,    \* SEEN_CACHE
    MaxPending,   \* MAX_PENDING
    TextLen,      \* the classes of text lengths in use
    MaxSends,     \* bound: frames originated by CLI commands and beacons
    MaxRestarts   \* bound: reboots of any node

NODE_BCAST == 65535

ASSUME CacheAssumption == SeenCache \in Nat \ {0} /\ MaxPending \in Nat \ {0}
ASSUME IdAssumption    == IdMod \in Nat \ {0, 1} /\ Ttl \in Nat
ASSUME TextAssumption  == TextLen \subseteq {"fits", "over"}
ASSUME BoundAssumption == MaxSends \in Nat /\ MaxRestarts \in Nat

Types == {"DATA", "BEACON", "ACK"}
Ids   == 0 .. IdMod - 1
Slots == 0 .. SeenCache - 1
Pends == 0 .. MaxPending - 1
Addr  == Node \cup {0, NODE_BCAST}

(***************************************************************************)
(* A frame: mesh_hdr_t, and body, the id an ACK confirms (0 otherwise).    *)
(* origin is the number, among those of its src, of the sendPktEx() call   *)
(* that built it: it stands for the text of a message, and tells two       *)
(* messages apart that happen to carry the same (src, id).                 *)
(***************************************************************************)
mesh_hdr_t == [type : Types, src : Node, dst : Node \cup {NODE_BCAST},
               id : Ids, ttl : Nat, chan : Chan, body : Ids, origin : Nat]

None == [type |-> "none"]

VARIABLES
    msgID,     \* msgID[n]: next id
    meshChan,  \* meshChan[n]
    seen,      \* seen[n]: the ring seen[] with seenIdx, and its history
    pend,      \* pend[n]: the retry table
    rxBuf,     \* rxBuf[n]: frame held by the radio with rxFlag set, or None
    sent,      \* sent[n]: number of sendPktEx() calls of n, over all boots
    cliSends,  \* calls of all nodes that came from the CLI or a beacon timer
    boot,      \* boot[n]: number of restarts of n
    shown,     \* shown[n]: history of the messages displayed by n
    acked      \* acked[n]: history of the pending entries n saw acknowledged

vars == <<msgID, meshChan, seen, pend, rxBuf, sent, cliSends, boot, shown,
          acked>>

-----------------------------------------------------------------------------
(* The duplicate cache.  log is a history: everything ever marked.         *)

seen_t == [src : Node \cup {0}, id : Ids]

SeenRing == [slot : [Slots -> seen_t], idx : Slots,
             log : Seq([src : Node, id : Ids, origin : Nat])]

EmptySeen == [slot |-> [k \in Slots |-> [src |-> 0, id |-> 0]],
              idx |-> 0, log |-> << >>]

\* Mutant: the scan stops one slot early.
seenBeforeShort(r, s, i) ==
    \E k \in 0 .. SeenCache - 2 : r.slot[k] = [src |-> s, id |-> i]

seenBefore(r, s, i) == \E k \in Slots : r.slot[k] = [src |-> s, id |-> i]

\* Mutant: the index wraps one slot too late.
AdvanceLate(k) == IF k = SeenCache THEN 0 ELSE k + 1

\* Mutant: the index saturates at the last slot.
AdvanceStuck(k) == IF k + 1 = SeenCache THEN k ELSE k + 1

\* seenIdx++ followed by seenIdx %= SEEN_CACHE
Advance(k) == IF k + 1 = SeenCache THEN 0 ELSE k + 1

markSeen(r, s, i, o) ==
    [slot |-> [r.slot EXCEPT ![r.idx] = [src |-> s, id |-> i]],
     idx  |-> Advance(r.idx),
     log  |-> Append(r.log, [src |-> s, id |-> i, origin |-> o])]

-----------------------------------------------------------------------------
(* The retry table: an entry whose id is 0 is free.  len is "over" for a   *)
(* text that reaches beyond payload[64] and the padding behind it.         *)

pending_t == [id : Ids, dst : Addr, origin : Nat, len : {"fits", "over"}]

EmptyPend == [i \in Pends |->
                [id |-> 0, dst |-> 0, origin |-> 0, len |-> "fits"]]

IsFirst(P, i) == i \in P /\ \A j \in P : i <= j

Free(pd) == {i \in Pends : pd[i].id = 0}

\* The tables that may result when the message e takes the entries spot of pd.
\* memcpy() does not check the length: a text that is too long goes on over
\* the id (characters are not 0) and the dst of the next entry.
Stored(pd, spot, e) ==
    LET next == {i \in Pends : i - 1 \in spot /\ e.len = "over"}
    IN  {[i \in Pends |->
            IF i \in spot THEN e
            ELSE IF i \in next THEN [pd[i] EXCEPT !.id = g.id, !.dst = g.dst]
            ELSE pd[i]] : g \in [id : Ids \ {0}, dst : Addr]}

\* Mutant: without a free entry the first one is taken.
TrackPendingAlways(pd, e) ==
    LET spot == IF Free(pd) = {} THEN Pends ELSE Free(pd)
    IN  Stored(pd, {i \in Pends : IsFirst(spot, i)}, e)

\* sendPktEx(): the first free entry takes the message e; none, no tracking.
TrackPending(pd, e) == Stored(pd, {i \in Pends : IsFirst(Free(pd), i)}, e)

\* From the last entry the text reaches lastPrune and meshChan, which follow
\* pend[] in memory.
ReachesChan(pd, e) == e.len = "over" /\ IsFirst(Free(pd), MaxPending - 1)

\* handlePkt(): the entries an ACK from src for id matches, the first is freed.
Matching(pd, id, src) == {i \in Pends : pd[i].id = id /\ pd[i].dst = src}

ClearPending(pd, id, src) ==
    [i \in Pends |-> IF IsFirst(Matching(pd, id, src), i)
                       THEN [pd[i] EXCEPT !.id = 0]
                       ELSE pd[i]]

-----------------------------------------------------------------------------
Init ==
    /\ msgID = [n \in Node |-> 0]
    /\ meshChan \in [Node -> Chan]
    /\ seen = [n \in Node |-> EmptySeen]
    /\ pend = [n \in Node |-> EmptyPend]
    /\ rxBuf = [n \in Node |-> None]
    /\ sent = [n \in Node |-> 0]
    /\ cliSends = 0
    /\ boot = [n \in Node |-> 0]
    /\ shown = [n \in Node |-> {}]
    /\ acked = [n \in Node |-> {}]

\* radio.startTransmit() of the frames H by n in one branch of its loop, once
\* n's own radio holds own: every other radio ends up with one of them, or
\* hears none.
startTransmit(n, H, own) ==
    \E got \in [Node \ {n} -> H \cup {None}] :
        rxBuf' = [m \in Node |-> IF m = n THEN own
                                 ELSE IF got[m] = None THEN rxBuf[m]
                                 ELSE got[m]]

\* sendPkt()'s choice of ttl
TtlOf(type) == IF type \in {"ACK", "BEACON"} THEN 1 ELSE Ttl

\* The header sendPktEx() builds.
NewHdr(n, type, dst, body) ==
    [type |-> type, src |-> n, dst |-> dst, id |-> msgID[n],
     ttl |-> TtlOf(type), chan |-> meshChan[n], body |-> body,
     origin |-> sent[n] + 1]

\* Mutant: ACKs do not consume an id.
sendPktExAckKeepsId(n, r, own, type, dst, body, len, after) ==
    LET h == NewHdr(n, type, dst, body)
        e == [id |-> h.id, dst |-> dst, origin |-> h.origin, len |-> len]
        tracked == type = "DATA" /\ dst # NODE_BCAST
    IN  /\ msgID' = [msgID EXCEPT ![n] = IF type = "ACK" THEN @
                                         ELSE (@ + 1) % IdMod]
        /\ sent' = [sent EXCEPT ![n] = @ + 1]
        /\ seen' = [seen EXCEPT ![n] = markSeen(r, n, h.id, h.origin)]
        /\ IF tracked
             THEN \E t \in TrackPending(pend[n], e) :
                    pend' = [pend EXCEPT ![n] = t]
             ELSE pend' = pend
        /\ IF tracked /\ ReachesChan(pend[n], e)
             THEN \E c \in Chan : meshChan' = [meshChan EXCEPT ![n] = c]
             ELSE meshChan' = meshChan
        /\ startTransmit(n, {h} \cup after, own)

\* sendPktEx(), on the cache r left by what the handler did before the call,
\* with the frame own in n's radio and the frames after transmitted by the
\* rest of the handler.
sendPktEx(n, r, own, type, dst, body, len, after) ==
    LET h == NewHdr(n, type, dst, body)
        e == [id |-> h.id, dst |-> dst, origin |-> h.origin, len |-> len]
        tracked == type = "DATA" /\ dst # NODE_BCAST
    IN  /\ msgID' = [msgID EXCEPT ![n] = (@ + 1) % IdMod]
        /\ sent' = [sent EXCEPT ![n] = @ + 1]
        /\ seen' = [seen EXCEPT ![n] = markSeen(r, n, h.id, h.origin)]
        /\ IF tracked
             THEN \E t \in TrackPending(pend[n], e) :
                    pend' = [pend EXCEPT ![n] = t]
             ELSE pend' = pend
        /\ IF tracked /\ ReachesChan(pend[n], e)
             THEN \E c \in Chan : meshChan' = [meshChan EXCEPT ![n] = c]
             ELSE meshChan' = meshChan
        /\ startTransmit(n, {h} \cup after, own)

\* CLI: send <dst> <msg> and broadcast <msg>
CliSend(n, dst, len) ==
    /\ cliSends < MaxSends
    /\ cliSends' = cliSends + 1
    /\ sendPktEx(n, seen[n], rxBuf[n], "DATA", dst, 0, len, {})
    /\ UNCHANGED <<boot, shown, acked>>

\* loop(): the beacon timer has expired
Beacon(n) ==
    /\ cliSends < MaxSends
    /\ cliSends' = cliSends + 1
    /\ sendPktEx(n, seen[n], rxBuf[n], "BEACON", NODE_BCAST, 0, "fits", {})
    /\ UNCHANGED <<boot, shown, acked>>

\* CLI: set chan <c>
SetChan(n, c) ==
    /\ meshChan[n] # c
    /\ meshChan' = [meshChan EXCEPT ![n] = c]
    /\ UNCHANGED <<msgID, seen, pend, rxBuf, sent, cliSends, boot, shown,
                   acked>>

-----------------------------------------------------------------------------
(* handlePkt().                                                            *)

Accepts(n, h) == h.chan = meshChan[n] /\ ~ seenBefore(seen[n], h.src, h.id)

Marked(n, h) == markSeen(seen[n], h.src, h.id, h.origin)

RssiClass == {"below -115", "between", "above -90"}

\* lucky is the outcome of random(0, 100) < 40
shouldForward(rssi, ttl, lucky) ==
    /\ ttl # 0
    /\ rssi # "below -115"
    /\ rssi = "above -90" \/ lucky

\* The frame a node passes on, with one hop less, or nothing: forwarded if
\* shouldForward() agrees, it is not our own and not for us alone.
Forwarded(n, h, rssi, lucky) ==
    IF /\ h.ttl > 0 /\ h.src # n
       /\ h.dst = NODE_BCAST \/ h.dst # n
       /\ shouldForward(rssi, h.ttl, lucky)
      THEN {[h EXCEPT !.ttl = @ - 1]} ELSE {}

\* Mutant: the early returns leave the frame in the radio.
DiscardKeeps(n) ==
    /\ rxBuf[n] # None
    /\ ~ Accepts(n, rxBuf[n])
    /\ UNCHANGED vars

\* The frame is of another channel or already in the cache.
Discard(n) ==
    /\ rxBuf[n] # None
    /\ ~ Accepts(n, rxBuf[n])
    /\ rxBuf' = [rxBuf EXCEPT ![n] = None]
    /\ UNCHANGED <<msgID, meshChan, seen, pend, sent, cliSends, boot, shown,
                   acked>>

HandleBeacon(n) ==
    LET h == rxBuf[n]
    IN  /\ h # None /\ Accepts(n, h) /\ h.type = "BEACON"
        /\ seen' = [seen EXCEPT ![n] = Marked(n, h)]
        /\ rxBuf' = [rxBuf EXCEPT ![n] = None]
        /\ UNCHANGED <<msgID, meshChan, pend, sent, cliSends, boot, shown,
                       acked>>

\* The code compares h.src with the entry's dst; it does not look at h.dst.
HandleAck(n) ==
    LET h == rxBuf[n]
    IN  /\ h # None /\ Accepts(n, h) /\ h.type = "ACK"
        /\ seen' = [seen EXCEPT ![n] = Marked(n, h)]
        /\ rxBuf' = [rxBuf EXCEPT ![n] = None]
        /\ pend' = [pend EXCEPT ![n] = ClearPending(@, h.body, h.src)]
        /\ acked' = [acked EXCEPT ![n] = @ \cup
               {pend[n][i] : i \in {j \in Pends :
                   /\ IsFirst(Matching(pend[n], h.body, h.src), j)
                   /\ pend[n][j].id # 0}}]
        /\ UNCHANGED <<msgID, meshChan, sent, cliSends, boot, shown>>

\* What Serial.write() prints; pos and boot date it in n's history.
Display(n, h) ==
    shown' = [shown EXCEPT ![n] = @ \cup
                {[src |-> h.src, id |-> h.id, origin |-> h.origin,
                  pos |-> Len(seen[n].log) + 1, boot |-> boot[n]]}]

\* Mutant: the ACK carries the node's own counter, not the id received.
HandleDataForMeOwnId(n) ==
    LET h == rxBuf[n]
    IN  /\ h # None /\ Accepts(n, h) /\ h.type = "DATA" /\ h.dst = n
        /\ Display(n, h)
        /\ \E rssi \in RssiClass, lucky \in BOOLEAN :
              sendPktEx(n, Marked(n, h), None, "ACK", h.src, msgID[n], "fits",
                        Forwarded(n, h, rssi, lucky))
        /\ UNCHANGED <<cliSends, boot, acked>>

\* DATA for this node: displayed and acknowledged.  It is forwarded only by
\* the node whose nodeID happens to be NODE_BCAST.
HandleDataForMe(n) ==
    LET h == rxBuf[n]
    IN  /\ h # None /\ Accepts(n, h) /\ h.type = "DATA" /\ h.dst = n
        /\ Display(n, h)
        /\ \E rssi \in RssiClass, lucky \in BOOLEAN :
              sendPktEx(n, Marked(n, h), None, "ACK", h.src, h.id, "fits",
                        Forwarded(n, h, rssi, lucky))
        /\ UNCHANGED <<cliSends, boot, acked>>

\* DATA for everyone or for another node: displayed if broadcast, forwarded.
HandleDataInTransit(n) ==
    LET h == rxBuf[n]
    IN  /\ h # None /\ Accepts(n, h) /\ h.type = "DATA" /\ h.dst # n
        /\ IF h.dst = NODE_BCAST THEN Display(n, h) ELSE UNCHANGED shown
        /\ seen' = [seen EXCEPT ![n] = Marked(n, h)]
        /\ \E rssi \in RssiClass, lucky \in BOOLEAN :
              startTransmit(n, Forwarded(n, h, rssi, lucky), None)
        /\ UNCHANGED <<msgID, meshChan, pend, sent, cliSends, boot, acked>>

RxPacket(n) ==
    \/ Discard(n)
    \/ HandleBeacon(n)
    \/ HandleAck(n)
    \/ HandleDataForMe(n)
    \/ HandleDataInTransit(n)

\* CLI reboot, or a power failure: all of this is RAM.  The channel is the
\* one saved in flash, whichever that is.
Restart(n) ==
    /\ boot[n] < MaxRestarts
    /\ boot' = [boot EXCEPT ![n] = @ + 1]
    /\ msgID' = [msgID EXCEPT ![n] = 0]
    /\ \E c \in Chan : meshChan' = [meshChan EXCEPT ![n] = c]
    /\ seen' = [seen EXCEPT ![n] = EmptySeen]
    /\ pend' = [pend EXCEPT ![n] = EmptyPend]
    /\ rxBuf' = [rxBuf EXCEPT ![n] = None]
    /\ UNCHANGED <<sent, cliSends, shown, acked>>

Next ==
    \E n \in Node :
        \/ \E dst \in Node \cup {NODE_BCAST}, len \in TextLen :
              CliSend(n, dst, len)
        \/ Beacon(n)
        \/ \E c \in Chan : SetChan(n, c)
        \/ RxPacket(n)
        \/ Restart(n)

Spec == Init /\ [][Next]_vars

\* loop() polls rxFlag for ever: a frame held by the radio is handled.
FairSpec == Spec /\ \A n \in Node : WF_vars(RxPacket(n))
-----------------------------------------------------------------------------
(* Properties                                                              *)

ShownRecord == [src : Node, id : Ids, origin : Nat, pos : Nat \ {0}, boot : Nat]

\* Type correctness of the state of every node.
TypeOK ==
    /\ msgID \in [Node -> Ids]
    /\ meshChan \in [Node -> Chan]
    /\ seen \in [Node -> SeenRing]
    /\ pend \in [Node -> [Pends -> pending_t]]
    /\ rxBuf \in [Node -> mesh_hdr_t \cup {None}]
    /\ sent \in [Node -> Nat] /\ cliSends \in Nat
    /\ boot \in [Node -> Nat]
    /\ shown \in [Node -> SUBSET ShownRecord]
    /\ acked \in [Node -> SUBSET pending_t]

\* How many marks ago slot k of the ring r was written (0: the last one).
Age(r, k) == IF k < r.idx THEN r.idx - 1 - k
                          ELSE r.idx - 1 - k + SeenCache

RingOK(r) ==
    \A k \in Slots :
        r.slot[k] = IF Age(r, k) < Len(r.log)
                      THEN [src |-> r.log[Len(r.log) - Age(r, k)].src,
                            id  |-> r.log[Len(r.log) - Age(r, k)].id]
                      ELSE [src |-> 0, id |-> 0]

\* The ring seen[] holds exactly the last SEEN_CACHE marks, each once, and
\* zeroes where nothing has been marked yet: markSeen()'s wrapping index
\* never skips a slot or overwrites one that is not the oldest.
SeenIsRecent == \A n \in Node : RingOK(seen[n])

\* The message displayed as d was not among the SEEN_CACHE marks before it.
NotRecent(r, d) ==
    \A k \in 1 .. Len(r.log) :
        (k < d.pos /\ d.pos - k <= SeenCache) =>
            ~ (r.log[k].src = d.src /\ r.log[k].id = d.id)

\* handlePkt() never displays a message that this node has itself sent, or
\* has already handled, among the SEEN_CACHE messages it marked before it.
DisplayedNotRecent ==
    \A n \in Node : \A d \in shown[n] :
        d.boot = boot[n] => NotRecent(seen[n], d)

\* An ACK on its way to anyone was sent by a node that has displayed the
\* message with that id from the node the ACK is addressed to.
AckBacked ==
    \A m \in Node : (rxBuf[m] # None /\ rxBuf[m].type = "ACK") =>
        \E d \in shown[rxBuf[m].src] :
            d.src = rxBuf[m].dst /\ d.id = rxBuf[m].body

\* The packets o and p of one sender are at least 2^16 of its packets apart.
FarApart(o, p) == o >= p + IdMod \/ p >= o + IdMod

\* What seenBefore() makes handlePkt() drop is a copy of a message the node
\* has handled or sent before: "Duplicate detection and removal (cache of
\* last seen messages)".  New messages may be lost of a sender that has
\* restarted, and numbers its messages from 0 again, and of one that has sent
\* 2^16 packets since the one with the same id; and the first message of the
\* node whose nodeID is 0, which looks like an unused slot.
SuppressedIsDuplicate ==
    \A n \in Node :
        LET h == rxBuf[n]
        IN  (/\ h # None /\ boot[h.src] = 0
             /\ h.src # 0 \/ h.id # 0
             /\ seenBefore(seen[n], h.src, h.id)) =>
                \E k \in 1 .. Len(seen[n].log) :
                    /\ seen[n].log[k].src = h.src
                    /\ seen[n].log[k].id = h.id
                    /\ \/ seen[n].log[k].origin = h.origin
                       \/ FarApart(seen[n].log[k].origin, h.origin)

\* A pending entry is only freed as acknowledged when its destination has
\* displayed that very message: "Unicast packets wait for an ACK from the
\* destination."
AckedWasDelivered ==
    \A n \in Node : \A e \in acked[n] :
        \E d \in shown[e.dst] : d.src = n /\ d.origin = e.origin

\* Entry i of n's table was free and takes a text longer than payload[64].
TakesOverlong(n, i) ==
    /\ i \in Pends /\ pend[n][i].id = 0
    /\ pend'[n][i].len = "over" /\ pend'[n][i].origin = sent[n] + 1

\* A message that waits for its ACK keeps its entry until that is freed by an
\* ACK or a restart, also when all MAX_PENDING entries are taken: sendPktEx()
\* then sends the new message without tracking it, it does not give up an
\* older one.  The one thing that takes a waiting entry, its id and dst, is a
\* text longer than payload[64] in the entry right before it.
PendingKept ==
    [][\A n \in Node : \A i \in Pends : pend[n][i].id # 0 =>
         \/ pend'[n][i] = pend[n][i]
         \/ pend'[n][i] = [pend[n][i] EXCEPT !.id = 0]
         \/ boot'[n] # boot[n]
         \/ /\ TakesOverlong(n, i - 1)
            /\ pend'[n][i].origin = pend[n][i].origin]_vars

\* The same without the exception for long texts.
WaitingNeverTaken ==
    [][\A n \in Node : \A i \in Pends : pend[n][i].id # 0 =>
         \/ pend'[n][i] = pend[n][i]
         \/ pend'[n][i] = [pend[n][i] EXCEPT !.id = 0]
         \/ boot'[n] # boot[n]]_vars

\* With no new messages a flood dies out and every radio is read, even when
\* the duplicate cache is too small to recognise the copies: every frame is
\* handled or discarded, and every forward costs a hop.
FloodDies == <>[](\A n \in Node : rxBuf[n] = None)

\* A unicast message does not wait for its ACK for ever: it is acknowledged,
\* or given up after its retries.  "If it is not received within
\* approximately 3 seconds, the packet is retried up to two times."
PendingResolved ==
    \A n \in Node : \A i \in Pends : \A o \in 1 .. MaxSends :
        (pend[n][i].id # 0 /\ pend[n][i].origin = o)
            ~> ~ (pend[n][i].id # 0 /\ pend[n][i].origin = o)

=============================================================================
