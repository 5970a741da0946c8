--------------------------- MODULE PacketRouting ----------------------------
(***************************************************************************)
(* The routing of Meshtastic packets in lunarcore (meshtastic/packet.c):   *)
(* the PacketCache against duplicates with route_packet(), and the         *)
(* AckTracker that retransmits what is not acknowledged.  The calls come   *)
(* in any order.                                                           *)
(*                                                                         *)
(* Times are 32-bit counters that wrap: here modulo ClockMod.  age is the  *)
(* true age of an entry, which the code does not have; it stops once it is *)
(* past the limit the entry is compared with.                              *)
(***************************************************************************)
EXTENDS Integers, Sequences

CONSTANTS
    Node,               \* node numbers other than 0
    Nobody,             \* node number 0
    PacketId,
    Packet,             \* the packets in the air, as <<from, id>>
    PACKET_CACHE_SIZE,
    ACK_TRACKER_SIZE,
    ClockMod,           \* 2^32
    MaxAge,             \* max_age of packet_cache_clear_old()
    Timeout,            \* retransmit_timeout
    MaxRetransmit,      \* max_retransmit
    MaxPackets,         \* bound: packets accepted or tracked
    MaxTracked          \* bound: packets tracked

ASSUME SizeAssumption ==
    {PACKET_CACHE_SIZE, ACK_TRACKER_SIZE, ClockMod} \subseteq Nat \ {0}
ASSUME TimeAssumption ==
    /\ {MaxAge, Timeout, MaxRetransmit, MaxPackets, MaxTracked} \subseteq Nat
    /\ MaxAge < ClockMod /\ Timeout < ClockMod
ASSUME PacketAssumption ==
    /\ Nobody \notin Node
    /\ Packet \subseteq (Node \cup {Nobody}) \X PacketId

VARIABLES
    clock,
    entries, index,     \* PacketCache
    pending,            \* AckTracker: pending with pending_valid
    log,                \* history: the packets accepted, and which were cleared
    sends,              \* history: how many packets were tracked
    acked               \* history: the packets acknowledged

cacheVars == <<entries, index, log>>
ackVars == <<pending, sends, acked>>
vars == <<clock, cacheVars, ackVars>>

CacheSlot == 0 .. PACKET_CACHE_SIZE - 1
AckSlot == 0 .. ACK_TRACKER_SIZE - 1
Time == 0 .. ClockMod - 1

NoEntry == [from |-> Nobody, id |-> 0, time |-> 0, age |-> 0]
NoAck == [valid |-> FALSE]

Init ==
    /\ clock = 0
    /\ entries = [s \in CacheSlot |-> NoEntry] /\ index = 0 /\ log = <<>>
    /\ pending = [i \in AckSlot |-> NoAck] /\ sends = 0 /\ acked = {}

\* Mutant: the distance of the two times.
ElapsedEitherWay(time) == IF clock > time THEN clock - time ELSE time - clock

\* current_time > t ? current_time - t : 0
Elapsed(time) == IF clock > time THEN clock - time ELSE 0

Older(age, limit) == IF age < limit THEN age + 1 ELSE age

Tick ==
    /\ clock' = (clock + 1) % ClockMod
    /\ entries' = [s \in CacheSlot |->
                     IF entries[s].from # Nobody
                     THEN [entries[s] EXCEPT !.age = Older(@, MaxAge + 1)]
                     ELSE entries[s]]
    /\ pending' = [i \in AckSlot |->
                     IF pending[i].valid
                     THEN [pending[i] EXCEPT !.age = Older(@, Timeout)]
                     ELSE NoAck]
    /\ UNCHANGED <<index, log, sends, acked>>

-----------------------------------------------------------------------------
(* PacketCache                                                             *)

\* packet_cache_is_duplicate()
IsDuplicate(from, id) ==
    \E s \in CacheSlot :
        entries[s].from = from /\ entries[s].id = id /\ from # Nobody

\* Mutant: the oldest slot is written without moving on.
AddStuck(from, id) ==
    /\ entries' = [entries EXCEPT ![index] =
                     [from |-> from, id |-> id, time |-> clock, age |-> 0]]
    /\ UNCHANGED index

\* packet_cache_add()
Add(from, id) ==
    /\ entries' = [entries EXCEPT ![index] =
                     [from |-> from, id |-> id, time |-> clock, age |-> 0]]
    /\ index' = (index + 1) % PACKET_CACHE_SIZE

\* route_packet() of a packet that is no duplicate, a duplicate changes
\* nothing.  The decision that follows (LOCAL, FORWARD or DROP) is a function
\* of the packet.
RoutePacket(from, id) ==
    /\ ~ IsDuplicate(from, id)
    /\ Len(log) + sends < MaxPackets
    /\ Add(from, id)
    /\ log' = Append(log, [from |-> from, id |-> id, cleared |-> FALSE])
    /\ UNCHANGED <<clock, ackVars>>

\* The slot of the n-th packet accepted.
SlotOf(n) == (n - 1) % PACKET_CACHE_SIZE

Expired(s) == entries[s].from # Nobody /\ Elapsed(entries[s].time) > MaxAge

\* Mutant: clearing starts the ring anew.
ClearOldRestarts ==
    /\ entries' = [s \in CacheSlot |->
                     IF Expired(s) THEN NoEntry ELSE entries[s]]
    /\ index' = 0
    /\ UNCHANGED <<clock, log, ackVars>>

\* packet_cache_clear_old()
ClearOld ==
    /\ entries' = [s \in CacheSlot |->
                     IF Expired(s) THEN NoEntry ELSE entries[s]]
    /\ log' = [n \in DOMAIN log |->
                 [log[n] EXCEPT !.cleared =
                    @ \/ (n > Len(log) - PACKET_CACHE_SIZE
                            /\ Expired(SlotOf(n)))]]
    /\ UNCHANGED <<clock, index, ackVars>>

-----------------------------------------------------------------------------
(* AckTracker                                                              *)

Free == {i \in AckSlot : ~ pending[i].valid}

\* A packet that wants an acknowledgement is sent and tracked, in the first
\* free slot (ack_tracker_add()).  Packet ids are not used twice.
Track(to) ==
    /\ sends < MaxTracked /\ Len(log) + sends < MaxPackets
    /\ \E i \in Free :
         /\ \A j \in Free : i <= j
         /\ pending' = [pending EXCEPT ![i] =
                          [valid |-> TRUE, to |-> to, id |-> sends,
                           tx_count |-> 0, last |-> clock, age |-> 0]]
    /\ sends' = sends + 1
    /\ UNCHANGED <<clock, cacheVars, acked>>

Matches(i, from, request_id) ==
    pending[i].valid /\ pending[i].to = from /\ pending[i].id = request_id

\* Mutant: the slot stays valid.
HandleAckKeeps(from, request_id) ==
    /\ acked' = acked \cup {<<from, request_id>>}
    /\ UNCHANGED <<clock, cacheVars, pending, sends>>

\* ack_tracker_handle_ack()
HandleAck(from, request_id) ==
    /\ \E i \in AckSlot :
         /\ Matches(i, from, request_id)
         /\ \A j \in AckSlot : Matches(j, from, request_id) => i <= j
         /\ pending' = [pending EXCEPT ![i] = NoAck]
    /\ acked' = acked \cup {<<from, request_id>>}
    /\ UNCHANGED <<clock, cacheVars, sends>>

Due(i) == pending[i].valid /\ Elapsed(pending[i].last) >= Timeout

\* Mutant: one retransmission more.
RetriesOnceMore(i) == Due(i) /\ pending[i].tx_count <= MaxRetransmit

Retries(i) == Due(i) /\ pending[i].tx_count < MaxRetransmit
GivesUp(i) == Due(i) /\ pending[i].tx_count >= MaxRetransmit
First(i) == Retries(i) /\ \A j \in AckSlot : Retries(j) => i <= j

\* Mutant: the slots that have no tries left stay.
GetRetransmitKeeps ==
    /\ pending' = [i \in AckSlot |->
         IF First(i) THEN [pending[i] EXCEPT !.tx_count = @ + 1,
                                             !.last = clock, !.age = 0]
                     ELSE pending[i]]
    /\ UNCHANGED <<clock, cacheVars, sends, acked>>

\* ack_tracker_get_retransmit(): the first slot that is due and has tries left
\* is sent again; the slots before it that have none are given up.
GetRetransmit ==
    /\ pending' = [i \in AckSlot |->
         IF First(i) THEN [pending[i] EXCEPT !.tx_count = @ + 1,
                                             !.last = clock, !.age = 0]
         ELSE IF GivesUp(i) /\ \A j \in AckSlot : First(j) => i < j THEN NoAck
         ELSE pending[i]]
    /\ UNCHANGED <<clock, cacheVars, sends, acked>>

\* ack_tracker_clear()
AckClear ==
    /\ pending' = [i \in AckSlot |-> NoAck]
    /\ UNCHANGED <<clock, cacheVars, sends, acked>>

Next ==
    \/ \E p \in Packet : RoutePacket(p[1], p[2])
    \/ ClearOld
    \/ \E to \in Node : Track(to)
    \/ \E from \in Node, id \in 0 .. MaxTracked : HandleAck(from, id)
    \/ GetRetransmit \/ AckClear \/ Tick

Spec == Init /\ [][Next]_vars

\* Time passes, and the caller polls often enough not to miss for ever the
\* times at which a packet is due, which end when the clock wraps.
FairSpec == Spec /\ SF_vars(GetRetransmit) /\ WF_vars(Tick)

-----------------------------------------------------------------------------
(* Properties                                                              *)

\* Type correctness.
TypeOK ==
    /\ clock \in Time /\ index \in CacheSlot
    /\ entries \in [CacheSlot -> [from : Node \cup {Nobody},
                                  id : PacketId \cup {0}, time : Time,
                                  age : 0 .. MaxAge + 1]]
    /\ pending \in [AckSlot -> {NoAck} \cup
                      [valid : {TRUE}, to : Node, id : 0 .. MaxTracked,
                       tx_count : 0 .. MaxRetransmit, last : Time,
                       age : 0 .. Timeout]]
    /\ sends \in 0 .. MaxTracked /\ acked \subseteq Node \X (0 .. MaxTracked)

\* "Check if packet is duplicate": a packet is accepted once, unless
\* PACKET_CACHE_SIZE others came in between or its entry was cleared.
AcceptedOnce ==
    \A m, n \in DOMAIN log :
        /\ m < n
        /\ log[m].from = log[n].from /\ log[m].id = log[n].id
        /\ log[m].from # Nobody
        => n - m > PACKET_CACHE_SIZE \/ log[m].cleared

\* "Clear old entries from cache": no entry goes before it is older than
\* max_age, unless a new packet takes its slot, and no packet is retransmitted
\* before its timeout is over, also when the clock has wrapped since.
NothingEarly ==
    [][/\ \A s \in CacheSlot :
            entries[s].from # Nobody /\ entries'[s].from = Nobody
              => entries[s].age > MaxAge \/ Len(log') > Len(log)
       /\ \A i \in AckSlot :
            /\ pending[i].valid /\ pending'[i].valid
            /\ pending'[i].tx_count > pending[i].tx_count
            => pending[i].age >= Timeout]_vars

\* Once acknowledged, a packet is not sent again.
AckedNotPending ==
    \A i \in AckSlot :
        pending[i].valid => <<pending[i].to, pending[i].id>> \notin acked

\* The clock wraps before the timeout of a packet sent now is over.
NearWrap(i) == pending[i].last + Timeout >= ClockMod

\* Every tracked packet is acknowledged or given up after its last try, unless
\* one of its transmissions came so late that the clock wraps first.
PendingEnds ==
    \A i \in AckSlot :
        (pending[i].valid /\ ~ NearWrap(i))
            ~> (~ pending[i].valid \/ NearWrap(i))

\* "Max retransmits reached, clear the slot": the same without exception.
AlwaysEnds == \A i \in AckSlot : pending[i].valid ~> ~ pending[i].valid

KeyOf(e) == <<e.from, e.id>>

Filter == INSTANCE DuplicateFilter WITH
    Key       <- Packet,
    Untracked <- {p \in Packet : p[1] = Nobody},
    Window    <- PACKET_CACHE_SIZE,
    log       <- [n \in DOMAIN log |-> KeyOf(log[n])],
    known     <- {KeyOf(entries[s]) :
                    s \in {r \in CacheSlot : entries[r].from # Nobody}}

\* The cache is a filter for duplicates with a window of its size; what it
\* clears are holes that do not shorten the window of the others.
FilterSpec == Filter!Spec
=============================================================================
