------------------------------ MODULE Repeater ------------------------------
(***************************************************************************)
(* The CubeCell repeater (CubeCellRepeater/src/main.cpp): loop(), the      *)
(* transmit queue PacketQueueClass and the DIO1 interrupt.                 *)
(*                                                                         *)
(* loop() is cut where an interrupt makes a difference: before the test of *)
(* dio1, before the queue, in the delay before sending, while sending,     *)
(* before startReceive(), where that restarts the modem, and before the    *)
(* deep sleep.                                                             *)
(*                                                                         *)
(* irqStatus is a static variable with an initializer: it keeps what the   *)
(* first interrupt was.  DIO1 is raised by RX_DONE while receiving, and    *)
(* perhapsSend() consumes the TX_DONE it waits for, so the first and with  *)
(* it every interrupt counts as RX_DONE; the branch for TX_DONE is dead.   *)
(* packetTime is the number of the reception: the code compares times of   *)
(* different packets only.                                                 *)
(***************************************************************************)
EXTENDS RepeaterIds, FiniteSets

CONSTANTS
    QueueSize,  \* MAX_TX_QUEUE
    CountMod,   \* 2^8: Count is a uint8_t
    MaxRx,      \* bound: packets heard, not counting those that are damaged
    MaxFails    \* bound: calls that start a transmission or reception and fail

ASSUME QueueAssumption == QueueSize \in Nat /\ QueueSize >= 3
ASSUME CountAssumption == CountMod \in Nat /\ CountMod > QueueSize
ASSUME RxBounds == MaxRx \in Nat /\ MaxFails \in Nat

\* The slots the loops of add(), pop() and clear() visit: not the last one.
QSlot == 0 .. QueueSize - 2

None == [id |-> Zero, time |-> 0]   \* size = 0

VARIABLES
    pc,          \* where loop() is, or that the MCU sleeps
    dio1,        \* set by the interrupt
    air,         \* what the radio's buffer holds
    receiving,   \* the radio is in receive mode
    Queue, Count,
    p,           \* the packet to send, None if p == NULL
    late,        \* p has been waiting for a minute
    PacketSent,
    rx, fails,   \* counters of receptions and failed calls
    sent,        \* history: the ids transmitted, in order
    outside,     \* history: a packet was written outside of the queue
    lost         \* history: packets overwritten in the queue since pop() has
                 \* last found it empty

repVars == <<pc, dio1, air, receiving, Queue, Count, p, late, PacketSent, rx,
             fails, sent, outside, lost>>
vars == <<storeVars, repVars>>

\* A packet with a valid header, one with a bad CRC, one that is too short.
Heard == [kind : {"ok"}, id : Id \cup {Zero}, hop : 0 .. 1]
            \cup [kind : {"crc", "short"}, id : {Zero}, hop : {0}]

NoFrame == [kind |-> "short", id |-> Zero, hop |-> 0]

\* setup()
Init ==
    /\ StoreInit
    /\ pc = "top" /\ dio1 = FALSE /\ receiving = TRUE
    /\ air = NoFrame
    /\ Queue = [i \in QSlot |-> None] /\ Count = 0
    /\ p = None /\ late = FALSE /\ PacketSent = FALSE
    /\ rx = 0 /\ fails = 0
    /\ sent = <<>> /\ outside = FALSE /\ lost = 0

-----------------------------------------------------------------------------
(* Radio and interrupt                                                     *)

\* RX_DONE: ISR_dio1Action() sets the flag, and wakes the MCU from the sleep
\* at the end of loop().  Damaged frames may go on for ever.
Receive(h) ==
    /\ receiving
    /\ IF h.kind = "ok" THEN rx < MaxRx /\ rx' = rx + 1 ELSE rx' = rx
    /\ air' = h
    /\ dio1' = TRUE
    /\ pc' = IF pc = "asleep" THEN "top" ELSE pc
    /\ UNCHANGED <<storeVars, outside, lost, receiving, Queue, Count, p,
                   late, PacketSent, fails, sent>>

Interrupt == \E h \in Heard : Receive(h)

\* The minute after which a packet is dropped has passed.
Minute ==
    /\ p # None /\ ~ late
    /\ late' = TRUE
    /\ UNCHANGED <<storeVars, outside, lost, pc, dio1, air, receiving, Queue,
                   Count, p, PacketSent, rx, fails, sent>>

\* dio1 = false: what the radio's buffer holds is not looked at any more.
ClearDio1 == dio1' = FALSE /\ air' = NoFrame

-----------------------------------------------------------------------------
(* PacketQueueClass                                                        *)

Occupied == {i \in QSlot : Queue[i] # None}
Newest(S) == CHOOSE i \in S : \A j \in S : Queue[j].time <= Queue[i].time

Put(i, q) ==
    /\ Queue' = [Queue EXCEPT ![i] = q]
    /\ Count' = (Count + 1) % CountMod

\* add() with a free slot: the first one.
AddFree(q) ==
    \E i \in QSlot \ Occupied :
        /\ \A j \in QSlot : j < i => j \in Occupied
        /\ Put(i, q)
        /\ UNCHANGED lost

\* add() to a full queue starts from Queue[MAX_TX_QUEUE], outside of the
\* array, and looks for a larger packetTime: it overwrites the newest packet
\* but the one in slot 0 ...
AddOverNewest(q) ==
    /\ Occupied = QSlot
    /\ Put(Newest(QSlot \ {0}), q)
    /\ lost' = lost + 1

\* ... or, if the word it reads there is not smaller, writes the packet there:
\* over Count and what follows the queue in memory.
AddOutside ==
    /\ Occupied = QSlot
    /\ Count' \in 0 .. CountMod - 1
    /\ UNCHANGED Queue

\* Mutant: Count is decremented twice.
PopNewestTwice ==
    /\ Occupied # {}
    /\ p' = Queue[Newest(Occupied)]
    /\ Queue' = [Queue EXCEPT ![Newest(Occupied)] = None]
    /\ Count' = Count - 2

\* Mutant: the slot is not marked as deleted.
PopNewestKeeps ==
    /\ Occupied # {}
    /\ p' = Queue[Newest(Occupied)]
    /\ UNCHANGED Queue
    /\ Count' = Count - 1

\* pop() of a queue with packets: the one with the largest packetTime.
PopNewest ==
    /\ Occupied # {}
    /\ p' = Queue[Newest(Occupied)]
    /\ Queue' = [Queue EXCEPT ![Newest(Occupied)] = None]
    /\ Count' = Count - 1

-----------------------------------------------------------------------------
(* loop()                                                                  *)

Goto(l) == pc' = l

\* No interrupt: on to the queue.
NoPacket ==
    /\ pc = "top" /\ ~ dio1
    /\ Goto("tx")
    /\ UNCHANGED <<storeVars, outside, lost, dio1, air, receiving, Queue,
                   Count, p, late, PacketSent, rx, fails, sent>>

\* A packet that cannot be read; one that is too short ends the pass.
ReadBad ==
    /\ pc = "top" /\ dio1
    /\ air.kind # "ok"
    /\ ClearDio1
    /\ Goto(IF air.kind = "short" THEN "top" ELSE "tx")
    /\ UNCHANGED <<storeVars, outside, lost, receiving, Queue, Count, p,
                   late, PacketSent, rx, fails, sent>>

\* A packet whose id is known or whose hop limit is 0 is not repeated; in the
\* latter case its id is stored all the same.
ReadNoRepeat ==
    /\ pc = "top" /\ dio1
    /\ air.kind = "ok"
    /\ AddKnown(air.id) \/ (air.hop = 0 /\ AddNew(air.id))
    /\ ClearDio1
    /\ Goto("tx")
    /\ UNCHANGED <<outside, lost, receiving, Queue, Count, p, late,
                   PacketSent, rx, fails, sent>>

\* A new packet goes to the queue, with its hop limit reduced.
ReadRepeat ==
    /\ pc = "top" /\ dio1
    /\ air.kind = "ok" /\ air.hop > 0
    /\ AddNew(air.id)
    /\ LET q == [id |-> air.id, time |-> rx] IN AddFree(q) \/ AddOverNewest(q)
    /\ ClearDio1
    /\ Goto("tx")
    /\ UNCHANGED <<outside, receiving, p, late, PacketSent, rx, fails, sent>>

\* The same, when the packet is written outside of the queue; the store of
\* ids, which the linker may place behind it, holds anything afterwards.
ReadOutside ==
    /\ pc = "top" /\ dio1
    /\ air.kind = "ok" /\ air.hop > 0
    /\ ~ IsKnown(air.id) /\ Len(accepted) < MaxAdds
    /\ accepted' = Append(accepted, air.id)
    /\ storage' \in [Word -> Id \cup {Zero}]
    /\ AddOutside
    /\ outside' = TRUE
    /\ ClearDio1
    /\ Goto("tx")
    /\ UNCHANGED <<lost, receiving, p, late, PacketSent, rx, fails, sent>>

\* Nothing to send, or a packet is waiting already.
TxKeep ==
    /\ pc = "tx"
    /\ p # None \/ Count = 0
    /\ Goto(IF p = None THEN "rx" ELSE "wait")
    /\ UNCHANGED <<storeVars, outside, lost, dio1, air, receiving, Queue,
                   Count, p, late, PacketSent, rx, fails, sent>>

TxPop ==
    /\ pc = "tx"
    /\ p = None /\ Count > 0
    /\ PopNewest
    /\ late' = FALSE
    /\ Goto("wait")
    /\ UNCHANGED <<storeVars, outside, lost, dio1, air, receiving,
                   PacketSent, rx, fails, sent>>

\* Count was too large: pop() corrects it.
TxPopEmpty ==
    /\ pc = "tx"
    /\ p = None /\ Count > 0
    /\ Occupied = {}
    /\ Count' = 0 /\ lost' = 0
    /\ PacketSent' = TRUE
    /\ Goto("top")
    /\ UNCHANGED <<storeVars, outside, dio1, air, receiving, Queue, p, late,
                   rx, fails, sent>>

\* A packet arrives during the delay: "New packet, no TX".
WaitInterrupted ==
    /\ pc = "wait" /\ dio1
    /\ Goto("top")
    /\ UNCHANGED <<storeVars, outside, lost, dio1, air, receiving, Queue,
                   Count, p, late, PacketSent, rx, fails, sent>>

\* Mutant: the packet is kept.
DropKeeps ==
    /\ pc = "wait" /\ late
    /\ PacketSent' = TRUE
    /\ Goto("top")
    /\ UNCHANGED <<storeVars, outside, lost, dio1, air, receiving, Queue,
                   Count, p, late, rx, fails, sent>>

\* The delay is over, after a minute in all.
Drop ==
    /\ pc = "wait" /\ late
    /\ p' = None
    /\ PacketSent' = TRUE
    /\ Goto("top")
    /\ UNCHANGED <<storeVars, outside, lost, dio1, air, receiving, Queue,
                   Count, late, rx, fails, sent>>

\* perhapsSend(): the interrupt flag is cleared, the radio leaves receive mode.
StartTx ==
    /\ pc = "wait" /\ ~ late
    /\ ClearDio1 /\ receiving' = FALSE
    /\ Goto("sending")
    /\ UNCHANGED <<storeVars, outside, lost, Queue, Count, p, late,
                   PacketSent, rx, fails, sent>>

\* perhapsSend() returns true.
TxDone ==
    /\ pc = "sending"
    /\ sent' = Append(sent, p.id)
    /\ p' = None
    /\ PacketSent' = TRUE
    /\ Goto("rx")
    /\ UNCHANGED <<storeVars, outside, lost, dio1, air, receiving, Queue,
                   Count, late, rx, fails>>

\* Mutant: receiving is not resumed.
TxFailedDeaf ==
    /\ pc = "sending"
    /\ fails < MaxFails
    /\ fails' = fails + 1
    /\ Goto("rx")
    /\ UNCHANGED <<storeVars, outside, lost, dio1, air, receiving, Queue,
                   Count, p, late, PacketSent, rx, sent>>

\* perhapsSend() returns false: startTransmit() failed, or the MCU woke up
\* without TX_DONE.  The packet is kept.
TxFailed ==
    /\ pc = "sending"
    /\ fails < MaxFails
    /\ fails' = fails + 1
    /\ PacketSent' = TRUE
    /\ Goto("rx")
    /\ UNCHANGED <<storeVars, outside, lost, dio1, air, receiving, Queue,
                   Count, p, late, rx, sent>>

\* startReceive(), after a transmission or a packet given up: the radio goes
\* to standby, the interrupt flag is cleared, and the reception started.
ResumeRx ==
    /\ pc = "rx"
    /\ PacketSent' = FALSE
    /\ IF PacketSent THEN ClearDio1 /\ receiving' = TRUE
                     ELSE UNCHANGED <<dio1, air, receiving>>
    /\ Goto("end")
    /\ UNCHANGED <<storeVars, outside, lost, Queue, Count, p, late, rx,
                   fails, sent>>

\* startReceive(): the reception cannot be started.
ResumeRxFails ==
    /\ pc = "rx" /\ PacketSent
    /\ fails < MaxFails
    /\ fails' = fails + 1
    /\ PacketSent' = FALSE
    /\ ClearDio1 /\ receiving' = FALSE
    /\ Goto("restart")
    /\ UNCHANGED <<storeVars, outside, lost, Queue, Count, p, late, rx,
                   sent>>

\* startReceive(): the modem is restarted and the reception starts; a round of
\* that loop that fails once more changes nothing, so it is no step of its own.
RestartRx ==
    /\ pc = "restart"
    /\ receiving' = TRUE
    /\ Goto("end")
    /\ UNCHANGED <<storeVars, outside, lost, dio1, air, Queue, Count, p,
                   late, PacketSent, rx, fails, sent>>

\* The modem does not start: applyModemConfig() never returns.
FullStop ==
    /\ pc = "restart"
    /\ Goto("stopped")
    /\ UNCHANGED <<storeVars, outside, lost, dio1, air, receiving, Queue,
                   Count, p, late, PacketSent, rx, fails, sent>>

\* With an empty queue the MCU sleeps until the next interrupt.
EndOfLoop ==
    /\ pc = "end"
    /\ Goto(IF Count = 0 THEN "asleep" ELSE "top")
    /\ UNCHANGED <<storeVars, outside, lost, dio1, air, receiving, Queue,
                   Count, p, late, PacketSent, rx, fails, sent>>

Loop ==
    \/ NoPacket \/ ReadBad \/ ReadNoRepeat \/ ReadRepeat \/ ReadOutside
    \/ TxKeep \/ TxPop \/ TxPopEmpty \/ WaitInterrupted \/ Drop \/ StartTx
    \/ TxDone \/ TxFailed \/ ResumeRx \/ ResumeRxFails \/ RestartRx
    \/ FullStop \/ EndOfLoop

Next == Loop \/ Minute \/ Interrupt

Spec == Init /\ [][Next]_vars

\* The MCU runs, transmissions end, and time passes.
FairSpec == Spec /\ WF_vars(Loop) /\ WF_vars(Minute)

-----------------------------------------------------------------------------
(* Properties                                                              *)

QPacket == [id : Id \cup {Zero}, time : 0 .. MaxRx]

LoopType ==
    /\ pc \in {"top", "tx", "wait", "sending", "rx", "restart", "stopped",
               "end", "asleep"}
    /\ dio1 \in BOOLEAN /\ receiving \in BOOLEAN
    /\ late \in BOOLEAN /\ PacketSent \in BOOLEAN
    /\ air \in Heard
    /\ rx \in 0 .. MaxRx /\ fails \in 0 .. MaxFails

QueueType ==
    /\ Queue \in [QSlot -> QPacket] /\ Count \in 0 .. CountMod - 1
    /\ p \in QPacket
    /\ sent \in Seq(Id \cup {Zero})
    /\ outside \in BOOLEAN /\ lost \in Nat

\* Type correctness.
TypeOK == StoreTypeOK /\ LoopType /\ QueueType

Occurrences(s, id) == Cardinality({n \in DOMAIN s : s[n] = id})

\* The copies of a packet: waiting in the queue, about to be sent, sent.
Copies(id) ==
    Cardinality({i \in QSlot : Queue[i].id = id})
        + (IF p.id = id THEN 1 ELSE 0) + Occurrences(sent, id)

\* "Will repeat packets ONCE": whatever is retried, dropped or overwritten, a
\* packet is in the queue, being sent and sent at most as often as its id was
\* accepted by the store.
RepeatedOnce == \A id \in Id : Copies(id) <= Occurrences(accepted, id)

\* So many packets were overwritten that Count, a uint8_t that counts them
\* too, may have wrapped.
Wrapped == lost > CountMod - QueueSize

\* Count is never less than the number of packets waiting, so the MCU never
\* sleeps on a packet in the queue: as long as nothing was written over it, and
\* until 2^8 - MAX_TX_QUEUE packets are overwritten between two times that the
\* queue is empty.
CountCovers == outside \/ Wrapped \/ Count >= Cardinality(Occupied)

\* "we have packets in queue": without the exception for a Count that wraps.
CountAlwaysCovers == outside \/ Count >= Cardinality(Occupied)

\* The store does its work inside loop() too, whatever the hop limits and the
\* ids of the packets: the last MAX_ID_LIST - 1 are known, and an id is
\* accepted again only MAX_ID_LIST acceptances later.
RecentNotRepeated == outside \/ (RecentKnown /\ RepeatsAreFar)

\* While the radio is not receiving, a transmission is under way or loop() is
\* going to restart the reception: whatever fails, the repeater goes deaf
\* only in startReceive(), as long as the radio refuses, and for good in the
\* "Full Stop" of applyModemConfig(), when it cannot be started again.
ListensAgain ==
    receiving \/ PacketSent \/ pc \in {"sending", "restart", "stopped"}

\* No more frames are heard from some time on.
AirFallsSilent == <>[][~ Interrupt]_vars

\* Once the air falls silent, whatever waits in the queue leaves it, through
\* failed transmissions and restarts of the modem too, with the exceptions of
\* CountCovers and the "Full Stop".  Without silence it need not: see below.
QueueDrains ==
    AirFallsSilent =>
        ((Occupied # {}) ~>
            (Occupied = {} \/ outside \/ Wrapped \/ pc = "stopped"))

\* The same under any traffic.
QueueAlwaysDrains ==
    (Occupied # {}) ~> (Occupied = {} \/ outside \/ Wrapped \/ pc = "stopped")

\* "drop packet if we could not send it in 1 minute": a packet taken from the
\* queue is sent or dropped.  Every frame heard ends the delay before the
\* minute is looked at.
PendingResolved == (p # None) ~> (p = None \/ pc = "stopped")

\* "Will repeat packets ONCE": a packet that was received is looked at.
ReceivedRead == dio1 ~> ~ dio1

Oldest(S) == CHOOSE i \in S : \A j \in S : Queue[j].time >= Queue[i].time

\* "find oldest packet": pop() takes the packet that waited longest.
PopsOldest ==
    [][p = None /\ p' # None => p' = Queue[Oldest(Occupied)]]_vars

\* "no free slot, overwrite oldest packet".
OverwritesOldest ==
    [][Occupied = QSlot /\ accepted' # accepted /\ Count' # Count
         => Queue'[Oldest(Occupied)] # Queue[Oldest(Occupied)]]_vars
=============================================================================
