----------------------------- MODULE MeshyTask ------------------------------
(***************************************************************************)
(* The FreeRTOS tasks of meshtastic_lite (meshtastic_task.c): meshy_rx_task *)
(* and meshy_tx_task share one SX1262 and its DIO1 line without a mutex,   *)
(* and the user interface starts and stops them.  Every access to the chip *)
(* or to the port expander is a step of its own.                           *)
(*                                                                         *)
(* The chip is modelled from its use: DIO1 is high while one of the flags  *)
(* chosen by set_irq_pin_mode() is set; a flag stays until it is cleared;  *)
(* receive_data() returns what the buffer holds.  configure_radio() is     *)
(* empty, so the chip is taken to be receiving before meshy_start().  The  *)
(* queue s_rx_queue to the user interface is an output and left out.       *)
(***************************************************************************)
EXTENDS Integers, Sequences

CONSTANTS
    Frame,              \* frames of other nodes, as <<from, id>>
    Own,                \* the frame that meshy_tx_task sends, <<from, id>>
    None,
    TxTask,             \* tasks that run meshy_tx_task
    MESHY_MSG_HISTORY, MESHY_MAX_NODES,
    TX_QUEUE_SIZE,
    MaxEvents           \* bound: frames received, wrong headers, timeouts and
                        \* calls of meshy_send_text() and meshy_start()

ASSUME MeshySizeAssumption ==
    /\ {MESHY_MSG_HISTORY, MESHY_MAX_NODES, TX_QUEUE_SIZE} \subseteq Nat \ {0}
    /\ MaxEvents \in Nat
ASSUME MeshyFrameAssumption ==
    Own \notin Frame /\ None \notin Frame \cup {Own} \cup TxTask

VARIABLES
    mode, irq, pin,     \* SX1262: chip mode, flags, flags shown on DIO1
    buffer,             \* SX1262: data buffer; read is history
    loaded,             \* SX1262: the task whose frame send_data() put on the air
    vctl,               \* RF switch
    running,            \* s_running
    api,                \* what the user interface is doing
    rx,                 \* meshy_rx_task: where it is, and what it read
    tx,                 \* meshy_tx_task: where each one is
    tx_hdl,             \* s_tx_task_hdl is set
    tx_queue,           \* length of s_tx_queue
    s_nodes,            \* nodes in the order of last_seen_ms
    s_msg_history, s_msg_write_idx, s_msg_count,
    tx_packets,         \* s_stats.tx_packets
    aired,              \* history: frames transmitted since meshy_start()
    gaveUp,             \* history: the last meshy_stop() gave up waiting
    left,               \* history: TX tasks that the last meshy_start() found alive
    log,                \* history: what was stored in s_msg_history
    events              \* history: how many events there were

chipVars == <<mode, irq, pin, buffer, loaded, vctl, aired>>
storeVars == <<s_nodes, s_msg_history, s_msg_write_idx, s_msg_count, log>>
controlVars == <<running, api, gaveUp, left>>
apiVars == <<controlVars, events>>
txVars == <<tx, tx_hdl, tx_packets>>
vars == <<chipVars, storeVars, apiVars, txVars, rx, tx_queue>>

Message == Frame \cup {Own}
Slot == 0 .. MESHY_MSG_HISTORY - 1
Dead(t) == tx[t] = "dead"
TxIdle(t) == tx[t] \in {"dead", "idle", "build"}

Init ==
    /\ mode = "RX" /\ irq = {} /\ pin = "RX_DONE" /\ vctl = "LOW"
    /\ buffer = [msg |-> None, read |-> TRUE] /\ loaded = None
    /\ running = FALSE /\ api = "off" /\ gaveUp = FALSE /\ left = {}
    /\ rx = [pc |-> "dead", msg |-> None, via |-> {}]
    /\ tx = [t \in TxTask |-> "dead"] /\ tx_hdl = FALSE
    /\ tx_queue = 0 /\ s_nodes = <<>>
    /\ s_msg_history = [s \in Slot |-> None]
    /\ s_msg_write_idx = 0 /\ s_msg_count = 0
    /\ tx_packets = 0 /\ aired = 0 /\ log = <<>>
    /\ events = 0

-----------------------------------------------------------------------------
(* SX1262                                                                  *)

Dio1 == irq \cap {pin}

\* A frame ends while the chip and the RF switch are set to receive.  With a
\* wrong checksum CRC_ERROR is raised along with RX_DONE.
ChipReceive(f, flags) ==
    /\ mode = "RX" /\ vctl = "LOW" /\ events < MaxEvents
    /\ buffer' = [msg |-> f, read |-> FALSE]
    /\ irq' = irq \cup {"RX_DONE"} \cup flags
    /\ events' = events + 1
    /\ UNCHANGED <<mode, pin, loaded, vctl, aired, storeVars, controlVars,
                   txVars, rx, tx_queue>>

\* A header is wrong, or nothing came in time; neither is shown on DIO1.
ChipFails(flag, next) ==
    /\ mode = "RX" /\ events < MaxEvents
    /\ irq' = irq \cup {flag} /\ mode' = next /\ events' = events + 1
    /\ UNCHANGED <<pin, buffer, loaded, vctl, aired, storeVars, controlVars,
                   txVars, rx, tx_queue>>

\* A transmission ends; the fallback mode is FS.
ChipTxDone ==
    /\ mode = "TX" /\ loaded # None
    /\ irq' = irq \cup {"TX_DONE"} /\ mode' = "FS" /\ loaded' = None
    /\ aired' = aired + 1
    /\ UNCHANGED <<pin, buffer, vctl, storeVars, apiVars, txVars,
                   rx, tx_queue>>

ChipClear(flag) ==
    /\ irq' = irq \ {flag}
    /\ UNCHANGED <<mode, pin, buffer, loaded, vctl, aired>>

\* start_lora_transmit(); a transmission under way is aborted.
ChipMode(m) ==
    /\ mode' = m /\ loaded' = None
    /\ UNCHANGED <<irq, pin, buffer, vctl, aired>>

\* set_irq_pin_mode()
ChipPin(flag) ==
    /\ pin' = flag
    /\ UNCHANGED <<mode, irq, buffer, loaded, vctl, aired>>

-----------------------------------------------------------------------------
(* meshy_rx_task                                                           *)

\* The RX task goes on at pc and leaves all but the chip alone.
RxGoto(pc) ==
    /\ rx' = [rx EXCEPT !.pc = pc,
                         !.via = IF pc \in {"poll", "dead"} THEN {} ELSE @]
    /\ UNCHANGED <<storeVars, apiVars, txVars, tx_queue>>

\* while (s_running), pin_read(XL9535_SX1262_DIO1)
RxPoll ==
    /\ rx.pc = "poll"
    /\ running /\ Dio1 # {}
    /\ rx' = [rx EXCEPT !.pc = "flags", !.via = Dio1]
    /\ UNCHANGED <<chipVars, storeVars, apiVars, txVars, tx_queue>>

RxExit ==
    /\ rx.pc = "poll" /\ ~ running
    /\ RxGoto("dead") /\ UNCHANGED chipVars

\* parse_irq_status(get_irq_flag()) with the branches on the flags, or its
\* failure.
RxFlags ==
    /\ rx.pc = "flags"
    /\ \/ RxGoto("clear")
       \/ RxGoto(IF "CRC_ERROR" \in irq THEN "crc"
                 ELSE IF "TIMEOUT" \in irq THEN "timeout"
                 ELSE IF "HEADER_ERROR" \in irq THEN "header"
                 ELSE "read")
    /\ UNCHANGED chipVars

\* The branches that end in a clear_irq_flag(), or start receiving again.
RxBranch ==
    \/ rx.pc = "clear" /\ ChipClear("RX_DONE") /\ RxGoto("poll")
    \/ rx.pc = "crc" /\ ChipClear("CRC_ERROR") /\ RxGoto("poll")
    \/ rx.pc = "header" /\ ChipClear("HEADER_ERROR") /\ RxGoto("poll")
    \/ rx.pc = "timeout" /\ ChipClear("TIMEOUT") /\ RxGoto("restart")
    \/ rx.pc = "restart" /\ ChipMode("RX") /\ RxGoto("pin")
    \/ rx.pc = "pin" /\ ChipPin("RX_DONE") /\ RxGoto("clear")

\* receive_data(), which may fail and return nothing.
RxRead ==
    /\ rx.pc = "read"
    /\ \E msg \in {buffer.msg, None} :
         /\ rx' = [rx EXCEPT !.pc = "process", !.msg = msg]
         /\ buffer' = [buffer EXCEPT !.read = @ \/ msg # None]
    /\ UNCHANGED <<mode, irq, pin, loaded, vctl, aired, storeVars,
                   apiVars, txVars, tx_queue>>

\* update_node_from_packet() with find_or_create_node(): the node heard is
\* now the newest; it takes the place of the oldest if the table is full.
UpdateNode(node) ==
    LET others == SelectSeq(s_nodes, LAMBDA n : n # node)
    IN  s_nodes' = Append(IF Len(others) < MESHY_MAX_NODES THEN others
                          ELSE Tail(others), node)

\* Mutant: the last slot is not looked at.
SearchedShort ==
    {IF s_msg_count < MESHY_MSG_HISTORY THEN i
     ELSE (s_msg_write_idx + i) % MESHY_MSG_HISTORY : i \in 0 .. s_msg_count - 2}

\* The slots the search for a duplicate looks at.
Searched ==
    {IF s_msg_count < MESHY_MSG_HISTORY THEN i
     ELSE (s_msg_write_idx + i) % MESHY_MSG_HISTORY : i \in 0 .. s_msg_count - 1}

\* "Store in ring buffer - dedup by packet ID"
Store(msg) ==
    IF \E s \in Searched : s_msg_history[s] = msg
    THEN UNCHANGED <<s_msg_history, s_msg_write_idx, s_msg_count, log>>
    ELSE /\ s_msg_history' = [s_msg_history EXCEPT ![s_msg_write_idx] = msg]
         /\ s_msg_write_idx' = (s_msg_write_idx + 1) % MESHY_MSG_HISTORY
         /\ s_msg_count' = IF s_msg_count < MESHY_MSG_HISTORY
                           THEN s_msg_count + 1 ELSE s_msg_count
         /\ log' = Append(log, msg)

\* Mutant: RX_DONE stays set.
RxProcessNoClear ==
    /\ rx.pc = "process" /\ RxGoto("poll") /\ UNCHANGED chipVars

\* RX_DONE is cleared; what was read, if it can be decoded, goes to the node
\* table and the history.
RxProcess ==
    /\ rx.pc = "process"
    /\ ChipClear("RX_DONE")
    /\ rx' = [rx EXCEPT !.pc = "poll", !.msg = None, !.via = {}]
    /\ \/ UNCHANGED storeVars
       \/ /\ rx.msg # None
          /\ UpdateNode(rx.msg[1])
          /\ Store(rx.msg)
    /\ UNCHANGED <<apiVars, txVars, tx_queue>>

RxStep == RxPoll \/ RxExit \/ RxFlags \/ RxBranch \/ RxRead \/ RxProcess

-----------------------------------------------------------------------------
(* meshy_tx_task                                                           *)

TxGoto(t, pc) ==
    /\ tx' = [tx EXCEPT ![t] = pc]
    /\ UNCHANGED <<storeVars, apiVars, rx>>

\* xQueueReceive(s_tx_queue)
TxTake(t) ==
    /\ tx[t] = "idle" /\ running /\ tx_queue > 0
    /\ tx_queue' = tx_queue - 1
    /\ TxGoto(t, "build") /\ UNCHANGED <<chipVars, tx_hdl, tx_packets>>

TxExit(t) ==
    /\ tx[t] = "idle" /\ ~ running
    /\ tx_hdl' = FALSE
    /\ TxGoto(t, "dead") /\ UNCHANGED <<chipVars, tx_packets, tx_queue>>

\* The random backoff, buildTextTx(), which may fail, and the RF switch.
TxBuild(t) ==
    /\ tx[t] = "build"
    /\ \/ vctl' = "HIGH" /\ TxGoto(t, "mode")
       \/ UNCHANGED vctl /\ TxGoto(t, "idle")
    /\ UNCHANGED <<mode, irq, pin, buffer, loaded, aired, tx_hdl,
                   tx_packets, tx_queue>>

\* Mutant: the flag of the last transmission is not cleared.
TxSwitchNoClear(t) ==
    /\ \/ tx[t] = "mode" /\ ChipMode("TX") /\ TxGoto(t, "pin")
       \/ tx[t] = "pin" /\ ChipPin("TX_DONE") /\ TxGoto(t, "send")
    /\ UNCHANGED <<tx_hdl, tx_packets, tx_queue>>

\* "Switch to TX"
TxSwitch(t) ==
    /\ \/ tx[t] = "mode" /\ ChipMode("TX") /\ TxGoto(t, "pin")
       \/ tx[t] = "pin" /\ ChipPin("TX_DONE") /\ TxGoto(t, "clear")
       \/ tx[t] = "clear" /\ ChipClear("TX_DONE") /\ TxGoto(t, "send")
    /\ UNCHANGED <<tx_hdl, tx_packets, tx_queue>>

\* Mutant: a failure goes on with the next request.
TxSendNext(t) ==
    /\ tx[t] = "send"
    /\ TxGoto(t, "idle")
    /\ UNCHANGED <<chipVars, tx_hdl, tx_packets, tx_queue>>

\* send_data(), which may fail.  The data buffer may be that of the frame
\* received.
TxSend(t) ==
    /\ tx[t] = "send"
    /\ \/ TxGoto(t, "low") /\ UNCHANGED <<buffer, loaded>>
       \/ /\ TxGoto(t, "wait")
          /\ loaded' = IF mode = "TX" THEN t ELSE None
          /\ buffer' \in {buffer, [msg |-> Own, read |-> FALSE]}
    /\ UNCHANGED <<mode, irq, pin, vctl, aired, tx_hdl, tx_packets,
                   tx_queue>>

\* "Wait for TX done (poll DIO1)"
TxSuccess(t) ==
    /\ tx[t] = "wait" /\ Dio1 # {} /\ "TX_DONE" \in irq
    /\ tx_packets' = tx_packets + 1
    /\ TxGoto(t, "low") /\ UNCHANGED <<chipVars, tx_hdl, tx_queue>>

\* Mutant: the wait has no limit.
TxTimeoutNever(t) == tx[t] = "wait" /\ loaded # t /\ UNCHANGED vars

\* "TX timeout": five seconds are longer than any frame, so the task's own is
\* not on the air any more.  That of another task may be, and TX_DONE may be set
\* if it could not be read in 500 polls.
TxTimeout(t) ==
    /\ tx[t] = "wait" /\ loaded # t
    /\ TxGoto(t, "low")
    /\ UNCHANGED <<chipVars, tx_hdl, tx_packets, tx_queue>>

\* "Return to RX"
TxReturn(t) ==
    /\ \/ /\ tx[t] = "low" /\ vctl' = "LOW" /\ TxGoto(t, "rxmode")
          /\ UNCHANGED <<mode, irq, pin, buffer, loaded, aired>>
       \/ tx[t] = "rxmode" /\ ChipMode("RX") /\ TxGoto(t, "rxpin")
       \/ tx[t] = "rxpin" /\ ChipPin("RX_DONE") /\ TxGoto(t, "rxclear")
       \/ tx[t] = "rxclear" /\ ChipClear("RX_DONE") /\ TxGoto(t, "idle")
    /\ UNCHANGED <<tx_hdl, tx_packets, tx_queue>>

TxStep(t) ==
    \/ TxTake(t) \/ TxExit(t) \/ TxBuild(t) \/ TxSwitch(t) \/ TxSend(t)
    \/ TxSuccess(t) \/ TxTimeout(t) \/ TxReturn(t)

-----------------------------------------------------------------------------
(* The calls of the user interface                                         *)

\* meshy_start(): the queues, the history and the nodes stay, the statistics
\* are reset, and both tasks are created.  A creation that fails, twice, is not
\* noticed and leaves the handle as it is.
Start ==
    /\ api = "off" /\ ~ running /\ events < MaxEvents
    /\ running' = TRUE /\ api' = "on" /\ events' = events + 1
    /\ rx' \in {rx, [pc |-> "poll", msg |-> None, via |-> {}]}
    /\ \/ UNCHANGED <<tx, tx_hdl>>
       \/ /\ \E t \in TxTask : Dead(t)
          /\ tx' = [tx EXCEPT ![CHOOSE t \in TxTask : Dead(t)] = "idle"]
          /\ tx_hdl' = TRUE
    /\ left' = {t \in TxTask : ~ Dead(t)}
    /\ tx_packets' = 0 /\ aired' = 0
    /\ UNCHANGED <<mode, irq, pin, buffer, loaded, vctl, storeVars,
                   gaveUp, tx_queue>>

\* meshy_stop() up to its wait.
Stop ==
    /\ api = "on" /\ running
    /\ running' = FALSE /\ api' = "stopping"
    /\ UNCHANGED <<chipVars, storeVars, txVars, gaveUp, left, events, rx,
                   tx_queue>>

\* Mutant: one of the tasks is enough.
HandlesClearEither == rx.pc = "dead" \/ ~ tx_hdl

HandlesClear == rx.pc = "dead" /\ ~ tx_hdl

\* The end of the wait: both handles are null, or two seconds are over.  The
\* RX task takes some 60 ms for a round and has ended by then, the TX task
\* may be waiting for TX_DONE.
StopEnd ==
    /\ api = "stopping"
    /\ HandlesClear \/ rx.pc = "dead"
    /\ api' = "off" /\ gaveUp' = ~ HandlesClear
    /\ ChipMode("RX")
    /\ UNCHANGED <<storeVars, txVars, running, left, events, rx, tx_queue>>

\* meshy_send_text() and meshy_send_dm() with room in the queue.
SendText ==
    /\ running /\ tx_queue < TX_QUEUE_SIZE /\ events < MaxEvents
    /\ tx_queue' = tx_queue + 1 /\ events' = events + 1
    /\ UNCHANGED <<chipVars, storeVars, txVars, controlVars, rx>>

Chip ==
    \/ \E f \in Frame, flags \in {{}, {"CRC_ERROR"}} : ChipReceive(f, flags)
    \/ ChipFails("HEADER_ERROR", "RX") \/ ChipFails("TIMEOUT", "STBY")
    \/ ChipTxDone

Next ==
    \/ Chip \/ RxStep \/ (\E t \in TxTask : TxStep(t))
    \/ Start \/ Stop \/ StopEnd \/ SendText

Spec == Init /\ [][Next]_vars

\* The scheduler runs every task that is ready, a transmission ends, and
\* meshy_stop() returns; what the user and the other nodes do is up to them.
FairSpec ==
    /\ Spec /\ WF_vars(RxStep) /\ WF_vars(ChipTxDone) /\ WF_vars(StopEnd)
    /\ \A t \in TxTask : WF_vars(TxStep(t))

-----------------------------------------------------------------------------
(* Properties                                                              *)

Flag == {"RX_DONE", "TX_DONE", "CRC_ERROR", "TIMEOUT", "HEADER_ERROR"}

ChipType ==
    /\ mode \in {"RX", "TX", "FS", "STBY"} /\ irq \subseteq Flag
    /\ pin \in {"RX_DONE", "TX_DONE"} /\ vctl \in {"LOW", "HIGH"}
    /\ buffer \in [msg : Message \cup {None}, read : BOOLEAN]
    /\ loaded \in TxTask \cup {None} /\ aired \in Nat

TaskType ==
    /\ running \in BOOLEAN /\ gaveUp \in BOOLEAN /\ tx_hdl \in BOOLEAN
    /\ left \subseteq TxTask
    /\ api \in {"off", "on", "stopping"} /\ events \in 0 .. MaxEvents
    /\ rx \in [pc : {"dead", "poll", "flags", "clear", "crc", "header",
                     "timeout", "restart", "pin", "read", "process"},
               msg : Message \cup {None}, via : SUBSET Flag]
    /\ tx \in [TxTask -> {"dead", "idle", "build", "mode", "pin", "clear",
                          "send", "wait", "low", "rxmode", "rxpin", "rxclear"}]
    /\ tx_queue \in 0 .. TX_QUEUE_SIZE /\ tx_packets \in Nat

StoreType ==
    /\ s_msg_history \in [Slot -> Message \cup {None}]
    /\ s_msg_write_idx \in Slot /\ s_msg_count \in 0 .. MESHY_MSG_HISTORY
    /\ log \in Seq(Message)

\* Type correctness.
TypeOK == ChipType /\ TaskType /\ StoreType

\* "Return to RX": whenever no task is transmitting, whatever went wrong and
\* however many tasks there were, the RF switch and DIO1 are set to receive and
\* the chip receives, unless its receive timeout is over.
IdleListens ==
    (\A t \in TxTask : TxIdle(t)) =>
        /\ vctl = "LOW" /\ pin = "RX_DONE"
        /\ \/ mode = "RX"
           \/ mode = "STBY" /\ ("TIMEOUT" \in irq \/ rx.pc = "restart")

\* A packet is only counted as sent if it was on the air: no TX_DONE of an
\* earlier transmission is taken for its own.  With a TX task left over from an
\* earlier meshy_start() two tasks may count the same TX_DONE, or the old one
\* counts in the new statistics.
CountedIsSent == left = {} => tx_packets <= aired

\* "Wait for tasks to exit": when meshy_stop() has returned within its time no
\* task is left to use the radio, provided that meshy_start() found none, also
\* when stops before that gave up.
StoppedIsQuiet ==
    api = "off" /\ ~ gaveUp /\ left = {} =>
        rx.pc = "dead" /\ \A t \in TxTask : Dead(t)

\* "or DIO1 stays asserted and we re-read the same buffer every poll cycle": a
\* frame that was read is read again only if DIO1 was high for the TX task.
RereadOnlyInTx ==
    [][rx.pc = "read" /\ rx'.pc = "process" /\ rx'.msg # None /\ buffer.read
         => "TX_DONE" \in rx.via]_vars

\* Every transmission ends, and after meshy_stop() every task.
TasksEnd ==
    /\ \A t \in TxTask : ~ TxIdle(t) ~> TxIdle(t)
    /\ ~ running ~> (running \/ (api = "off" /\ \A t \in TxTask : Dead(t)))

Filter == INSTANCE DuplicateFilter WITH
    Key <- Message, Untracked <- {}, Window <- MESHY_MSG_HISTORY,
    log <- log, known <- {s_msg_history[s] : s \in Slot} \ {None}

\* The message history stores a message once as long as it is among the last
\* MESHY_MSG_HISTORY ones.
HistorySpec == Filter!StrictSpec

\* The same without the exception: every frame is read once.  Violated.
ReadOnce ==
    [][rx.pc = "read" /\ rx'.pc = "process" /\ rx'.msg # None
         => ~ buffer.read]_vars

\* The same as StoppedIsQuiet whatever meshy_start() found.  Violated:
\* meshy_start() overwrites the handle of a task that is still waiting for
\* TX_DONE, and either task clears it.
TimelyStopIsQuiet ==
    api = "off" /\ ~ gaveUp => rx.pc = "dead" /\ \A t \in TxTask : Dead(t)

\* The same as CountedIsSent whatever meshy_start() found.  Violated.
AlwaysCountedIsSent == tx_packets <= aired

\* There is one TX task.  Violated.
OneTxTask == \A t, u \in TxTask : Dead(t) \/ Dead(u) \/ t = u
=============================================================================
