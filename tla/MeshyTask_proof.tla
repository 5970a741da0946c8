--------------------------- MODULE MeshyTask_proof ---------------------------
(***************************************************************************)
(* The tasks of meshtastic_lite, for any number of TX tasks left behind by *)
(* meshy_stop(), any interleaving with the RX task and the chip, and every *)
(* size of the history.                                                    *)
(*                                                                         *)
(* The radio has no owner, so the invariant says for each setting that     *)
(* somebody is still going to put it back: Switched for the RF switch,     *)
(* DIO1 and the mode.  Alone and Counted hold whenever the last            *)
(* meshy_start() found no TX task alive.  Unread relates RX_DONE with the  *)
(* buffer the RX task is about to read, and History the ring with what was *)
(* stored in it.                                                           *)
(***************************************************************************)
EXTENDS MeshyTask, SequenceTheorems, TLAPS

-----------------------------------------------------------------------------
(* The invariant                                                           *)

\* Some TX task is at one of the points S.
At(S) == \E t \in TxTask : tx[t] \in S

Switched ==
    /\ vctl = "HIGH" => At({"mode", "pin", "clear", "send", "wait", "low"})
    /\ pin = "TX_DONE" => At({"clear", "send", "wait", "low", "rxmode", "rxpin"})
    /\ mode \in {"TX", "FS"} => At({"pin", "clear", "send", "wait", "low", "rxmode"})
    /\ mode = "STBY" => "TIMEOUT" \in irq \/ rx.pc = "restart"

\* The handles tell the tasks.
Alone ==
    /\ api = "off" => rx.pc = "dead"
    /\ api = "off" /\ ~ gaveUp => ~ tx_hdl
    /\ left = {} =>
          /\ \A t, u \in TxTask : Dead(t) \/ Dead(u) \/ t = u
          /\ ~ tx_hdl => \A t \in TxTask : Dead(t)

\* TX_DONE is the one of the transmission a task waits for.
Counted ==
    left = {} =>
        /\ tx_packets <= aired
        /\ At({"pin", "clear", "send"}) => loaded = None
        /\ At({"send"}) => "TX_DONE" \notin irq
        /\ At({"wait"}) /\ "TX_DONE" \in irq => tx_packets < aired

\* A frame that was read is not announced any more, once it is processed.
Unread ==
    /\ buffer.read /\ "RX_DONE" \in irq => rx.pc = "process"
    /\ rx.pc \in {"flags", "read"} /\ "TX_DONE" \notin rx.via => ~ buffer.read

\* The slot written j steps before the last one.
Back(j) ==
    IF s_msg_write_idx > j THEN s_msg_write_idx - 1 - j
    ELSE s_msg_write_idx - 1 - j + MESHY_MSG_HISTORY

History ==
    /\ s_msg_count = IF Len(log) < MESHY_MSG_HISTORY THEN Len(log)
                     ELSE MESHY_MSG_HISTORY
    /\ s_msg_count < MESHY_MSG_HISTORY => s_msg_write_idx = s_msg_count
    /\ \A j \in 0 .. s_msg_count - 1 : s_msg_history[Back(j)] = log[Len(log) - j]
    /\ \A s \in Slot : s_msg_count < MESHY_MSG_HISTORY /\ s >= s_msg_count
                           => s_msg_history[s] = None

Inv ==
    /\ TypeOK
    /\ Switched
    /\ Alone
    /\ Counted
    /\ Unread
    /\ History

-----------------------------------------------------------------------------
(* The invariant is inductive                                              *)

\* The tasks are not started and the radio receives.
LEMMA InitInv == Init => Inv
  <1> SUFFICES ASSUME Init
               PROVE  Inv
    OBVIOUS
  <1>1. log = <<>> /\ log \in Seq(Message) /\ Len(log) = 0
    BY EmptySeq DEF Init
  <1>2. 0 \in Slot /\ 0 \in 0 .. MESHY_MSG_HISTORY /\ 0 \in 0 .. TX_QUEUE_SIZE
    BY MeshySizeAssumption DEF Slot
  <1>3. s_msg_history \in [Slot -> Message \cup {None}]
    BY DEF Init
  <1>4. tx \in [TxTask -> {"dead"}]
    BY DEF Init
  <1>5. TypeOK
    BY <1>1, <1>2, <1>3, <1>4, MeshySizeAssumption
    DEF Init, TypeOK, ChipType, TaskType, StoreType
  <1>6. Switched /\ Alone /\ Counted /\ Unread
    BY DEF Init, Switched, Alone, Counted, Unread, At, Dead
  <1>7. History
    BY <1>1, MeshySizeAssumption DEF Init, History
  <1> QED
    BY <1>5, <1>6, <1>7 DEF Inv

\* Only RxProcess stores messages.
LEMMA HistoryKept ==
    ASSUME Inv, UNCHANGED storeVars
    PROVE  StoreType' /\ History'
  BY DEF Inv, TypeOK, StoreType, History, Back, storeVars


\* What the chip does by itself keeps the invariant.
LEMMA ChipInv ==
    ASSUME Inv, Chip
    PROVE  Inv'
  <1> USE DEF Inv, TypeOK, storeVars, apiVars, controlVars, txVars, chipVars

  <1>1. ASSUME NEW f \in Frame, NEW flags \in {{}, {"CRC_ERROR"}}, ChipReceive(f, flags)
        PROVE  Inv'
    <2>1. ChipType'
      BY <1>1 DEF ChipType, Flag, ChipReceive, Message, Flag
    <2>2. TaskType'
      BY <1>1, MeshySizeAssumption
      DEF TaskType, Flag, ChipReceive, Message, Flag
    <2>3. Switched'
      BY <1>1 DEF TaskType, Switched, At, ChipReceive, Message, Flag
    <2>4. Alone'
      BY <1>1 DEF TaskType, Alone, Dead, ChipReceive, Message, Flag
    <2>5. Counted'
      BY <1>1
      DEF ChipType, TaskType, Counted, Alone, At, Dead, ChipReceive, Message,
          Flag
    <2>6. Unread'
      BY <1>1 DEF ChipType, TaskType, Unread, ChipReceive, Message, Flag
    <2>7. StoreType' /\ History'
      BY <1>1, HistoryKept DEF ChipReceive, Message, Flag
    <2> QED
      BY <2>1, <2>2, <2>3, <2>4, <2>5, <2>6, <2>7
  <1>2. CASE ChipFails("HEADER_ERROR", "RX")
    <2>1. ChipType'
      BY <1>2 DEF ChipType, Flag, ChipFails, Flag
    <2>2. TaskType'
      BY <1>2, MeshySizeAssumption DEF TaskType, Flag, ChipFails, Flag
    <2>3. Switched'
      BY <1>2 DEF TaskType, Switched, At, ChipFails, Flag
    <2>4. Alone'
      BY <1>2 DEF TaskType, Alone, Dead, ChipFails, Flag
    <2>5. Counted'
      BY <1>2 DEF ChipType, TaskType, Counted, Alone, At, Dead, ChipFails, Flag
    <2>6. Unread'
      BY <1>2 DEF ChipType, TaskType, Unread, ChipFails, Flag
    <2>7. StoreType' /\ History'
      BY <1>2, HistoryKept DEF ChipFails, Flag
    <2> QED
      BY <2>1, <2>2, <2>3, <2>4, <2>5, <2>6, <2>7
  <1>3. CASE ChipFails("TIMEOUT", "STBY")
    <2>1. ChipType'
      BY <1>3 DEF ChipType, Flag, ChipFails, Flag
    <2>2. TaskType'
      BY <1>3, MeshySizeAssumption DEF TaskType, Flag, ChipFails, Flag
    <2>3. Switched'
      BY <1>3 DEF TaskType, Switched, At, ChipFails, Flag
    <2>4. Alone'
      BY <1>3 DEF TaskType, Alone, Dead, ChipFails, Flag
    <2>5. Counted'
      BY <1>3 DEF ChipType, TaskType, Counted, Alone, At, Dead, ChipFails, Flag
    <2>6. Unread'
      BY <1>3 DEF ChipType, TaskType, Unread, ChipFails, Flag
    <2>7. StoreType' /\ History'
      BY <1>3, HistoryKept DEF ChipFails, Flag
    <2> QED
      BY <2>1, <2>2, <2>3, <2>4, <2>5, <2>6, <2>7
  <1>4. CASE ChipTxDone
    <2>1. ChipType'
      <3>1. loaded' \in TxTask \cup {None}
        BY <1>4 DEF ChipType, Flag, ChipTxDone, Flag
      <3>2. aired' \in Nat
        BY <1>4 DEF ChipType, Flag, ChipTxDone, Flag
      <3>3. irq' \subseteq Flag /\ mode' = "FS"
        BY <1>4 DEF ChipType, Flag, ChipTxDone, Flag
      <3> QED
        BY <1>4, <3>1, <3>2, <3>3 DEF ChipType, Flag, ChipTxDone, Flag
    <2>2. TaskType'
      BY <1>4, MeshySizeAssumption DEF TaskType, Flag, ChipTxDone, Flag
    <2>3. Switched'
      BY <1>4 DEF TaskType, Switched, At, ChipTxDone, Flag
    <2>4. Alone'
      BY <1>4 DEF TaskType, Alone, Dead, ChipTxDone, Flag
    <2>5. Counted'
      BY <1>4
      DEF ChipType, TaskType, Counted, Alone, At, Dead, ChipTxDone, Flag
    <2>6. Unread'
      BY <1>4 DEF ChipType, TaskType, Unread, ChipTxDone, Flag
    <2>7. StoreType' /\ History'
      BY <1>4, HistoryKept DEF ChipTxDone, Flag
    <2> QED
      BY <2>1, <2>2, <2>3, <2>4, <2>5, <2>6, <2>7
  <1> QED
    BY <1>1, <1>2, <1>3, <1>4 DEF Chip

\* So does every step of the RX task but the one that stores a message.
LEMMA RxStepInv ==
    ASSUME Inv, RxStep, ~ RxProcess
    PROVE  Inv'
  <1> USE DEF Inv, TypeOK, storeVars, apiVars, controlVars, txVars, chipVars

  <1>1. CASE RxPoll
    <2>1. ChipType'
      BY <1>1 DEF ChipType, Flag, RxPoll, Dio1
    <2>2. TaskType'
      <3>1. Dio1 \in SUBSET Flag
        BY <1>1, MeshySizeAssumption DEF ChipType, TaskType, Flag, RxPoll, Dio1
      <3>2. rx' \in [pc : {"dead", "poll", "flags", "clear", "crc", "header", "timeout",
                        "restart", "pin", "read", "process"},
                   msg : Message \cup {None}, via : SUBSET Flag]
        BY <1>1, <3>1 DEF TaskType, RxPoll
      <3> QED
        BY <1>1, <3>1, <3>2 DEF ChipType, TaskType, Flag, RxPoll, Dio1
    <2>3. Switched'
      BY <1>1 DEF TaskType, Switched, At, RxPoll, Dio1
    <2>4. Alone'
      BY <1>1 DEF TaskType, Alone, Dead, RxPoll, Dio1
    <2>5. Counted'
      BY <1>1 DEF ChipType, TaskType, Counted, Alone, At, Dead, RxPoll, Dio1
    <2>6. Unread'
      BY <1>1 DEF ChipType, TaskType, Unread, RxPoll, Dio1
    <2>7. StoreType' /\ History'
      BY <1>1, HistoryKept DEF RxPoll, Dio1
    <2> QED
      BY <2>1, <2>2, <2>3, <2>4, <2>5, <2>6, <2>7
  <1>2. CASE RxExit
    <2>1. ChipType'
      BY <1>2 DEF ChipType, Flag, RxExit, RxGoto
    <2>2. TaskType'
      BY <1>2, MeshySizeAssumption DEF TaskType, Flag, RxExit, RxGoto
    <2>3. Switched'
      BY <1>2 DEF TaskType, Switched, At, RxExit, RxGoto
    <2>4. Alone'
      BY <1>2 DEF TaskType, Alone, Dead, RxExit, RxGoto
    <2>5. Counted'
      BY <1>2 DEF ChipType, TaskType, Counted, Alone, At, Dead, RxExit, RxGoto
    <2>6. Unread'
      BY <1>2 DEF ChipType, TaskType, Unread, RxExit, RxGoto
    <2>7. StoreType' /\ History'
      BY <1>2, HistoryKept DEF RxExit, RxGoto
    <2> QED
      BY <2>1, <2>2, <2>3, <2>4, <2>5, <2>6, <2>7
  <1>3. CASE RxFlags
    <2>1. ChipType'
      BY <1>3 DEF ChipType, Flag, RxFlags, RxGoto
    <2>2. TaskType'
      BY <1>3, MeshySizeAssumption DEF TaskType, Flag, RxFlags, RxGoto
    <2>3. Switched'
      BY <1>3 DEF TaskType, Switched, At, RxFlags, RxGoto
    <2>4. Alone'
      BY <1>3 DEF TaskType, Alone, Dead, RxFlags, RxGoto
    <2>5. Counted'
      BY <1>3 DEF ChipType, TaskType, Counted, Alone, At, Dead, RxFlags, RxGoto
    <2>6. Unread'
      BY <1>3 DEF ChipType, TaskType, Unread, RxFlags, RxGoto
    <2>7. StoreType' /\ History'
      BY <1>3, HistoryKept DEF RxFlags, RxGoto
    <2> QED
      BY <2>1, <2>2, <2>3, <2>4, <2>5, <2>6, <2>7
  <1>4. CASE RxBranch
    <2>1. ChipType'
      BY <1>4
      DEF ChipType, Flag, RxBranch, ChipClear, ChipMode, ChipPin, RxGoto
    <2>2. TaskType'
      BY <1>4, MeshySizeAssumption
      DEF TaskType, Flag, RxBranch, ChipClear, ChipMode, ChipPin, RxGoto
    <2>3. Switched'
      BY <1>4
      DEF TaskType, Switched, At, RxBranch, ChipClear, ChipMode, ChipPin,
          RxGoto
    <2>4. Alone'
      BY <1>4
      DEF TaskType, Alone, Dead, RxBranch, ChipClear, ChipMode, ChipPin, RxGoto
    <2>5. Counted'
      BY <1>4
      DEF ChipType, TaskType, Counted, Alone, At, Dead, RxBranch, ChipClear,
          ChipMode, ChipPin, RxGoto
    <2>6. Unread'
      BY <1>4
      DEF ChipType, TaskType, Unread, RxBranch, ChipClear, ChipMode, ChipPin,
          RxGoto
    <2>7. StoreType' /\ History'
      BY <1>4, HistoryKept DEF RxBranch, ChipClear, ChipMode, ChipPin, RxGoto
    <2> QED
      BY <2>1, <2>2, <2>3, <2>4, <2>5, <2>6, <2>7
  <1>5. CASE RxRead
    <2>1. ChipType'
      BY <1>5 DEF ChipType, Flag, RxRead
    <2>2. TaskType'
      <3>1. buffer.msg \in Message \cup {None}
        BY <1>5, MeshySizeAssumption DEF ChipType, TaskType, Flag, RxRead
      <3>2. rx' \in [pc : {"dead", "poll", "flags", "clear", "crc", "header", "timeout",
                        "restart", "pin", "read", "process"},
                   msg : Message \cup {None}, via : SUBSET Flag]
        BY <1>5, MeshySizeAssumption DEF ChipType, TaskType, Flag, RxRead
      <3> QED
        BY <1>5, <3>1, <3>2 DEF ChipType, TaskType, Flag, RxRead
    <2>3. Switched'
      BY <1>5 DEF TaskType, Switched, At, RxRead
    <2>4. Alone'
      BY <1>5 DEF TaskType, Alone, Dead, RxRead
    <2>5. Counted'
      BY <1>5 DEF ChipType, TaskType, Counted, Alone, At, Dead, RxRead
    <2>6. Unread'
      BY <1>5 DEF ChipType, TaskType, Unread, RxRead
    <2>7. StoreType' /\ History'
      BY <1>5, HistoryKept DEF RxRead
    <2> QED
      BY <2>1, <2>2, <2>3, <2>4, <2>5, <2>6, <2>7
  <1> QED
    BY <1>1, <1>2, <1>3, <1>4, <1>5 DEF RxStep

\* Every step of a TX task: whatever it has set, it is on its way to reset.
LEMMA TxStepInv ==
    ASSUME Inv, NEW t \in TxTask, TxStep(t)
    PROVE  Inv'
  <1> USE DEF Inv, TypeOK, storeVars, apiVars, controlVars, txVars, chipVars

  <1>1. CASE TxTake(t)
    <2>1. ChipType'
      BY <1>1 DEF ChipType, Flag, TxTake, TxGoto
    <2>2. TaskType'
      BY <1>1, MeshySizeAssumption DEF TaskType, Flag, TxTake, TxGoto
    <2>3. Switched'
      BY <1>1 DEF TaskType, Switched, At, TxTake, TxGoto
    <2>4. Alone'
      BY <1>1 DEF TaskType, Alone, Dead, TxTake, TxGoto
    <2>5. Counted'
      BY <1>1 DEF ChipType, TaskType, Counted, Alone, At, Dead, TxTake, TxGoto
    <2>6. Unread'
      BY <1>1 DEF ChipType, TaskType, Unread, TxTake, TxGoto
    <2>7. StoreType' /\ History'
      BY <1>1, HistoryKept DEF TxTake, TxGoto
    <2> QED
      BY <2>1, <2>2, <2>3, <2>4, <2>5, <2>6, <2>7
  <1>2. CASE TxExit(t)
    <2>1. ChipType'
      BY <1>2 DEF ChipType, Flag, TxExit, TxGoto
    <2>2. TaskType'
      BY <1>2, MeshySizeAssumption DEF TaskType, Flag, TxExit, TxGoto
    <2>3. Switched'
      BY <1>2 DEF TaskType, Switched, At, TxExit, TxGoto
    <2>4. Alone'
      BY <1>2 DEF TaskType, Alone, Dead, TxExit, TxGoto
    <2>5. Counted'
      BY <1>2 DEF ChipType, TaskType, Counted, Alone, At, Dead, TxExit, TxGoto
    <2>6. Unread'
      BY <1>2 DEF ChipType, TaskType, Unread, TxExit, TxGoto
    <2>7. StoreType' /\ History'
      BY <1>2, HistoryKept DEF TxExit, TxGoto
    <2> QED
      BY <2>1, <2>2, <2>3, <2>4, <2>5, <2>6, <2>7
  <1>3. CASE TxBuild(t)
    <2>1. ChipType'
      BY <1>3 DEF ChipType, Flag, TxBuild, TxGoto
    <2>2. TaskType'
      BY <1>3, MeshySizeAssumption DEF TaskType, Flag, TxBuild, TxGoto
    <2>3. Switched'
      BY <1>3 DEF TaskType, Switched, At, TxBuild, TxGoto
    <2>4. Alone'
      BY <1>3 DEF TaskType, Alone, Dead, TxBuild, TxGoto
    <2>5. Counted'
      BY <1>3 DEF ChipType, TaskType, Counted, Alone, At, Dead, TxBuild, TxGoto
    <2>6. Unread'
      BY <1>3 DEF ChipType, TaskType, Unread, TxBuild, TxGoto
    <2>7. StoreType' /\ History'
      BY <1>3, HistoryKept DEF TxBuild, TxGoto
    <2> QED
      BY <2>1, <2>2, <2>3, <2>4, <2>5, <2>6, <2>7
  <1>4. CASE TxSwitch(t)
    <2>1. ChipType'
      BY <1>4
      DEF ChipType, Flag, TxSwitch, ChipMode, ChipPin, ChipClear, TxGoto
    <2>2. TaskType'
      BY <1>4, MeshySizeAssumption
      DEF TaskType, Flag, TxSwitch, ChipMode, ChipPin, ChipClear, TxGoto
    <2>3. Switched'
      BY <1>4
      DEF TaskType, Switched, At, TxSwitch, ChipMode, ChipPin, ChipClear,
          TxGoto
    <2>4. Alone'
      BY <1>4
      DEF TaskType, Alone, Dead, TxSwitch, ChipMode, ChipPin, ChipClear, TxGoto
    <2>5. Counted'
      BY <1>4
      DEF ChipType, TaskType, Counted, Alone, At, Dead, TxSwitch, ChipMode,
          ChipPin, ChipClear, TxGoto
    <2>6. Unread'
      BY <1>4
      DEF ChipType, TaskType, Unread, TxSwitch, ChipMode, ChipPin, ChipClear,
          TxGoto
    <2>7. StoreType' /\ History'
      BY <1>4, HistoryKept DEF TxSwitch, ChipMode, ChipPin, ChipClear, TxGoto
    <2> QED
      BY <2>1, <2>2, <2>3, <2>4, <2>5, <2>6, <2>7
  <1>5. CASE TxSend(t)
    <2>1. ChipType'
      <3>1. loaded' \in TxTask \cup {None}
        BY <1>5 DEF ChipType, Flag, TxSend, TxGoto
      <3>2. buffer' \in {buffer, [msg |-> Own, read |-> FALSE]}
        BY <1>5 DEF TxSend
      <3>3. [msg |-> Own, read |-> FALSE] \in [msg : Message \cup {None}, read : BOOLEAN]
        BY DEF Message
      <3>4. buffer' \in [msg : Message \cup {None}, read : BOOLEAN]
        BY <3>2, <3>3 DEF ChipType
      <3> QED
        BY <1>5, <3>1, <3>2, <3>3, <3>4 DEF ChipType, Flag, TxSend, TxGoto
    <2>2. TaskType'
      BY <1>5, MeshySizeAssumption DEF TaskType, Flag, TxSend, TxGoto
    <2>3. Switched'
      BY <1>5 DEF TaskType, Switched, At, TxSend, TxGoto
    <2>4. Alone'
      BY <1>5 DEF TaskType, Alone, Dead, TxSend, TxGoto
    <2>5. Counted'
      BY <1>5 DEF ChipType, TaskType, Counted, Alone, At, Dead, TxSend, TxGoto
    <2>6. Unread'
      BY <1>5 DEF ChipType, TaskType, Unread, TxSend, TxGoto
    <2>7. StoreType' /\ History'
      BY <1>5, HistoryKept DEF TxSend, TxGoto
    <2> QED
      BY <2>1, <2>2, <2>3, <2>4, <2>5, <2>6, <2>7
  <1>6. CASE TxSuccess(t)
    <2>1. ChipType'
      BY <1>6 DEF ChipType, Flag, TxSuccess, Dio1, TxGoto
    <2>2. TaskType'
      BY <1>6, MeshySizeAssumption DEF TaskType, Flag, TxSuccess, Dio1, TxGoto
    <2>3. Switched'
      BY <1>6 DEF TaskType, Switched, At, TxSuccess, Dio1, TxGoto
    <2>4. Alone'
      BY <1>6 DEF TaskType, Alone, Dead, TxSuccess, Dio1, TxGoto
    <2>5. Counted'
      BY <1>6
      DEF ChipType, TaskType, Counted, Alone, At, Dead, TxSuccess, Dio1, TxGoto
    <2>6. Unread'
      BY <1>6 DEF ChipType, TaskType, Unread, TxSuccess, Dio1, TxGoto
    <2>7. StoreType' /\ History'
      BY <1>6, HistoryKept DEF TxSuccess, Dio1, TxGoto
    <2> QED
      BY <2>1, <2>2, <2>3, <2>4, <2>5, <2>6, <2>7
  <1>7. CASE TxTimeout(t)
    <2>1. ChipType'
      BY <1>7 DEF ChipType, Flag, TxTimeout, Dio1, TxGoto
    <2>2. TaskType'
      BY <1>7, MeshySizeAssumption DEF TaskType, Flag, TxTimeout, Dio1, TxGoto
    <2>3. Switched'
      BY <1>7 DEF TaskType, Switched, At, TxTimeout, Dio1, TxGoto
    <2>4. Alone'
      BY <1>7 DEF TaskType, Alone, Dead, TxTimeout, Dio1, TxGoto
    <2>5. Counted'
      BY <1>7
      DEF ChipType, TaskType, Counted, Alone, At, Dead, TxTimeout, Dio1, TxGoto
    <2>6. Unread'
      BY <1>7 DEF ChipType, TaskType, Unread, TxTimeout, Dio1, TxGoto
    <2>7. StoreType' /\ History'
      BY <1>7, HistoryKept DEF TxTimeout, Dio1, TxGoto
    <2> QED
      BY <2>1, <2>2, <2>3, <2>4, <2>5, <2>6, <2>7
  <1>8. CASE TxReturn(t)
    <2>1. ChipType'
      BY <1>8
      DEF ChipType, Flag, TxReturn, ChipMode, ChipPin, ChipClear, TxGoto
    <2>2. TaskType'
      BY <1>8, MeshySizeAssumption
      DEF TaskType, Flag, TxReturn, ChipMode, ChipPin, ChipClear, TxGoto
    <2>3. Switched'
      BY <1>8
      DEF TaskType, Switched, At, TxReturn, ChipMode, ChipPin, ChipClear,
          TxGoto
    <2>4. Alone'
      BY <1>8
      DEF TaskType, Alone, Dead, TxReturn, ChipMode, ChipPin, ChipClear, TxGoto
    <2>5. Counted'
      BY <1>8
      DEF ChipType, TaskType, Counted, Alone, At, Dead, TxReturn, ChipMode,
          ChipPin, ChipClear, TxGoto
    <2>6. Unread'
      BY <1>8
      DEF ChipType, TaskType, Unread, TxReturn, ChipMode, ChipPin, ChipClear,
          TxGoto
    <2>7. StoreType' /\ History'
      BY <1>8, HistoryKept DEF TxReturn, ChipMode, ChipPin, ChipClear, TxGoto
    <2> QED
      BY <2>1, <2>2, <2>3, <2>4, <2>5, <2>6, <2>7
  <1> QED
    BY <1>1, <1>2, <1>3, <1>4, <1>5, <1>6, <1>7, <1>8 DEF TxStep

\* meshy_start() gives a free task the new handle, or creates none.
LEMMA StartInv ==
    ASSUME Inv, Start
    PROVE  Inv'
  <1> DEFINE c == CHOOSE x \in TxTask : Dead(x)
             Created(t) == /\ t \in TxTask /\ Dead(t)
                           /\ tx' = [tx EXCEPT ![t] = "idle"] /\ tx_hdl' = TRUE
  <1>1. UNCHANGED <<tx, tx_hdl>> \/ \E t \in TxTask : Created(t)
    <2>1. CASE UNCHANGED <<tx, tx_hdl>>
      BY <2>1
    <2>2. CASE /\ \E t \in TxTask : Dead(t)
               /\ tx' = [tx EXCEPT ![c] = "idle"] /\ tx_hdl' = TRUE
      <3>1. c \in TxTask /\ Dead(c)
        BY <2>2, Zenon
      <3> HIDE DEF c
      <3>2. Created(c)
        BY <2>2, <3>1
      <3> QED
        BY <3>1, <3>2, Zenon
    <2> QED
      BY <2>1, <2>2 DEF Start
  <1>2. /\ api = "off" /\ ~ running /\ events < MaxEvents
        /\ running' = TRUE /\ api' = "on" /\ events' = events + 1
        /\ rx' \in {rx, [pc |-> "poll", msg |-> None, via |-> {}]}
        /\ left' = {t \in TxTask : ~ Dead(t)}
        /\ tx_packets' = 0 /\ aired' = 0
        /\ UNCHANGED <<mode, irq, pin, buffer, loaded, vctl, storeVars,
                       gaveUp, tx_queue>>
    BY DEF Start
  <1>3. left' = {} => \A t \in TxTask : Dead(t)
    BY <1>2
  <1>4. ChipType'
    BY <1>2 DEF Inv, TypeOK, ChipType
  <1>5. TaskType'
    <2>1. rx' \in [pc : {"dead", "poll", "flags", "clear", "crc", "header", "timeout",
                      "restart", "pin", "read", "process"},
                 msg : Message \cup {None}, via : SUBSET Flag]
      BY <1>2 DEF Inv, TypeOK, TaskType
    <2>2. left' \subseteq TxTask /\ events' \in 0 .. MaxEvents
      BY <1>2, MeshySizeAssumption DEF Inv, TypeOK, TaskType
    <2> QED
      BY <1>1, <1>2, <2>1, <2>2 DEF Inv, TypeOK, TaskType
  <1>6. Switched'
    BY <1>1, <1>2 DEF Inv, TypeOK, TaskType, Switched, At, Dead, Alone
  <1>7. Alone'
    BY <1>1, <1>2, <1>3 DEF Inv, TypeOK, TaskType, Dead, Alone
  <1>8. Counted'
    BY <1>1, <1>2, <1>3 DEF Inv, TypeOK, TaskType, At, Dead, Alone, Counted
  <1>9. Unread'
    BY <1>2 DEF Inv, Unread, Alone
  <1>10. StoreType' /\ History'
    BY <1>2, HistoryKept
  <1> QED
    BY <1>4, <1>5, <1>6, <1>7, <1>8, <1>9, <1>10 DEF Inv, TypeOK

\* meshy_stop() and the sending calls.
LEMMA ApiInv ==
    ASSUME Inv, Stop \/ StopEnd \/ SendText
    PROVE  Inv'
  <1> USE DEF Inv, TypeOK, storeVars, apiVars, controlVars, txVars, chipVars

  <1>1. CASE Stop
    <2>1. ChipType'
      BY <1>1 DEF ChipType, Flag, Stop
    <2>2. TaskType'
      BY <1>1, MeshySizeAssumption DEF TaskType, Flag, Stop
    <2>3. Switched'
      BY <1>1 DEF TaskType, Switched, At, Stop
    <2>4. Alone'
      BY <1>1 DEF TaskType, Alone, Dead, Stop
    <2>5. Counted'
      BY <1>1 DEF ChipType, TaskType, Counted, Alone, At, Dead, Stop
    <2>6. Unread'
      BY <1>1 DEF ChipType, TaskType, Unread, Stop
    <2>7. StoreType' /\ History'
      BY <1>1, HistoryKept DEF Stop
    <2> QED
      BY <2>1, <2>2, <2>3, <2>4, <2>5, <2>6, <2>7
  <1>2. CASE StopEnd
    <2>1. ChipType'
      BY <1>2 DEF ChipType, Flag, StopEnd, HandlesClear, ChipMode
    <2>2. TaskType'
      BY <1>2, MeshySizeAssumption
      DEF TaskType, Flag, StopEnd, HandlesClear, ChipMode
    <2>3. Switched'
      BY <1>2 DEF TaskType, Switched, At, StopEnd, HandlesClear, ChipMode
    <2>4. Alone'
      BY <1>2 DEF TaskType, Alone, Dead, StopEnd, HandlesClear, ChipMode
    <2>5. Counted'
      BY <1>2
      DEF ChipType, TaskType, Counted, Alone, At, Dead, StopEnd, HandlesClear,
          ChipMode
    <2>6. Unread'
      BY <1>2 DEF ChipType, TaskType, Unread, StopEnd, HandlesClear, ChipMode
    <2>7. StoreType' /\ History'
      BY <1>2, HistoryKept DEF StopEnd, HandlesClear, ChipMode
    <2> QED
      BY <2>1, <2>2, <2>3, <2>4, <2>5, <2>6, <2>7
  <1>3. CASE SendText
    <2>1. ChipType'
      BY <1>3 DEF ChipType, Flag, SendText
    <2>2. TaskType'
      BY <1>3, MeshySizeAssumption DEF TaskType, Flag, SendText
    <2>3. Switched'
      BY <1>3 DEF TaskType, Switched, At, SendText
    <2>4. Alone'
      BY <1>3 DEF TaskType, Alone, Dead, SendText
    <2>5. Counted'
      BY <1>3 DEF ChipType, TaskType, Counted, Alone, At, Dead, SendText
    <2>6. Unread'
      BY <1>3 DEF ChipType, TaskType, Unread, SendText
    <2>7. StoreType' /\ History'
      BY <1>3, HistoryKept DEF SendText
    <2> QED
      BY <2>1, <2>2, <2>3, <2>4, <2>5, <2>6, <2>7
  <1> QED
    BY <1>1, <1>2, <1>3

-----------------------------------------------------------------------------
(* The history                                                             *)

\* A message that is not among the ones searched for a duplicate is added.
Added(msg) ==
    /\ ~ \E s \in Searched : s_msg_history[s] = msg
    /\ s_msg_history' = [s_msg_history EXCEPT ![s_msg_write_idx] = msg]
    /\ s_msg_write_idx' = (s_msg_write_idx + 1) % MESHY_MSG_HISTORY
    /\ s_msg_count' = IF s_msg_count < MESHY_MSG_HISTORY
                      THEN s_msg_count + 1 ELSE s_msg_count
    /\ log' = Append(log, msg)

\* The ring from its write index backwards, before and after an addition.
LEMMA BackFacts ==
    ASSUME StoreType,
           s_msg_write_idx' = (s_msg_write_idx + 1) % MESHY_MSG_HISTORY
    PROVE  /\ s_msg_write_idx' \in Slot
           /\ s_msg_write_idx + 1 < MESHY_MSG_HISTORY
                 => s_msg_write_idx' = s_msg_write_idx + 1
           /\ Back(0)' = s_msg_write_idx
           /\ \A j \in 0 .. MESHY_MSG_HISTORY - 1 : Back(j) \in Slot
           /\ \A j \in 0 .. MESHY_MSG_HISTORY - 2 :
                 Back(j) # s_msg_write_idx /\ Back(j + 1)' = Back(j)
  <1> DEFINE H == MESHY_MSG_HISTORY
             i == s_msg_write_idx
  <1>1. H \in Nat \ {0} /\ i \in 0 .. H - 1
    BY MeshySizeAssumption DEF StoreType, Slot
  <1>2. i' = IF i = H - 1 THEN 0 ELSE i + 1
    BY <1>1
  <1>3. i' \in Slot /\ (i + 1 < H => i' = i + 1)
    BY <1>1, <1>2 DEF Slot
  <1>4. Back(0)' = i
    BY <1>1, <1>2 DEF Back
  <1>5. \A j \in 0 .. H - 1 : Back(j) \in Slot
    BY <1>1 DEF Back, Slot
  <1>6. ASSUME NEW j \in 0 .. H - 2
        PROVE  Back(j) # i /\ Back(j + 1)' = Back(j)
    BY <1>1, <1>2 DEF Back
  <1> QED
    BY <1>3, <1>4, <1>5, <1>6

\* Storing a message moves the ring on by one.
LEMMA AddedInv ==
    ASSUME StoreType, History, NEW msg \in Message, Added(msg)
    PROVE  StoreType' /\ History'
  <1> DEFINE H == MESHY_MSG_HISTORY
             L == Len(log)
             c == s_msg_count
             i == s_msg_write_idx
  <1>1. H \in Nat \ {0} /\ c \in 0 .. H /\ i \in Slot /\ Slot = 0 .. H - 1
    BY MeshySizeAssumption DEF StoreType, Slot
  <1>2. /\ L \in Nat /\ Len(log') = L + 1 /\ log' \in Seq(Message)
        /\ \A n \in 1 .. L : log'[n] = log[n]
        /\ log'[L + 1] = msg
    BY LenProperties, AppendProperties DEF StoreType, Added
  <1>3. /\ i' \in Slot /\ (i + 1 < H => i' = i + 1) /\ Back(0)' = i
        /\ \A j \in 0 .. H - 1 : Back(j) \in Slot
        /\ \A j \in 0 .. H - 2 : Back(j) # i /\ Back(j + 1)' = Back(j)
    BY BackFacts DEF Added
  <1>4. /\ s_msg_history'[i] = msg
        /\ \A s \in Slot : s # i => s_msg_history'[s] = s_msg_history[s]
        /\ s_msg_history' \in [Slot -> Message \cup {None}]
    BY <1>1 DEF StoreType, Added
  <1>5. /\ c = IF L < H THEN L ELSE H
        /\ c < H => i = c
        /\ \A j \in 0 .. c - 1 : s_msg_history[Back(j)] = log[L - j]
        /\ \A s \in Slot : c < H /\ s >= c => s_msg_history[s] = None
    BY DEF History
  <1>6. c' = IF c < H THEN c + 1 ELSE c
    BY DEF Added
  <1> HIDE DEF H, L, c, i
  <1>7. c' \in 0 .. H /\ c' = (IF L + 1 < H THEN L + 1 ELSE H) /\ (c' < H => i' = c')
    BY <1>1, <1>2, <1>3, <1>5, <1>6
  <1>8. StoreType'
    BY <1>2, <1>3, <1>4, <1>7 DEF StoreType, H, c, i
  <1>9. ASSUME NEW j \in 0 .. c' - 1
        PROVE  s_msg_history'[Back(j)'] = log'[L + 1 - j]
    <2>1. CASE j = 0
      BY <1>2, <1>3, <1>4, <2>1
    <2>2. CASE j # 0
      <3> DEFINE k == j - 1
      <3>1. k \in 0 .. c - 1 /\ k \in 0 .. H - 2 /\ k + 1 = j /\ L - k \in 1 .. L
            /\ L + 1 - j = L - k
        BY <1>1, <1>2, <1>5, <1>6, <1>7, <2>2
      <3> HIDE DEF k
      <3>2. Back(j)' = Back(k) /\ Back(k) # i /\ Back(k) \in Slot
        <4>1. k \in 0 .. H - 1
          BY <1>1, <3>1
        <4>2. Back(k + 1)' = Back(k) /\ Back(k) # i
          BY <1>3, <3>1
        <4> QED
          BY <1>3, <3>1, <4>1, <4>2
      <3>3. s_msg_history'[Back(k)] = log[L - k]
        BY <1>4, <1>5, <3>1, <3>2
      <3> QED
        BY <1>2, <3>1, <3>2, <3>3
    <2> QED
      BY <2>1, <2>2
  <1>10. ASSUME NEW s \in Slot, c' < H, s >= c'
         PROVE  s_msg_history'[s] = None
    <2>1. c < H /\ s >= c /\ s # i
      BY <1>1, <1>5, <1>6, <1>10
    <2> QED
      BY <1>4, <1>5, <2>1
  <1>11. History'
    BY <1>2, <1>7, <1>9, <1>10 DEF History, H, c, i
  <1> QED
    BY <1>8, <1>11

\* The search for a duplicate looks at every message in the history.
LEMMA SearchedAll ==
    ASSUME StoreType, History, NEW s \in Slot, s_msg_history[s] # None
    PROVE  s \in Searched
  <1> DEFINE H == MESHY_MSG_HISTORY
             i == s_msg_write_idx
             k == IF s >= i THEN s - i ELSE s - i + H
  <1>1. H \in Nat \ {0} /\ i \in 0 .. H - 1 /\ s \in 0 .. H - 1 /\ s_msg_count \in 0 .. H
    BY MeshySizeAssumption DEF StoreType, Slot
  <1>2. CASE s_msg_count < H
    <2>1. s \in 0 .. s_msg_count - 1
      BY <1>1, <1>2 DEF History
    <2> QED
      BY <1>2, <2>1 DEF Searched
  <1>3. CASE s_msg_count = H
    <2>1. k \in 0 .. H - 1 /\ (i + k = s \/ i + k = s + H)
      BY <1>1
    <2>2. s % H = s /\ (s + H) % H = s
      BY <1>1
    <2> HIDE DEF k
    <2>3. (i + k) % H = s
      BY <2>1, <2>2
    <2> QED
      BY <1>1, <1>3, <2>1, <2>3 DEF Searched
  <1> QED
    BY <1>1, <1>2, <1>3

\* The step of the RX task that stores a message or drops a duplicate.
LEMMA RxProcessInv ==
    ASSUME Inv, RxProcess
    PROVE  Inv'
  <1> USE DEF Inv, TypeOK, storeVars, apiVars, controlVars, txVars
  <1>1. ChipType'
    BY DEF ChipType, RxProcess, ChipClear
  <1>2. TaskType'
    BY DEF TaskType, Flag, RxProcess
  <1>3. Switched'
    BY DEF TaskType, Switched, At, RxProcess, ChipClear
  <1>4. Alone'
    BY DEF TaskType, Alone, Dead, RxProcess
  <1>5. Counted'
    BY DEF ChipType, TaskType, Counted, At, RxProcess, ChipClear
  <1>6. Unread'
    BY DEF ChipType, TaskType, Unread, RxProcess, ChipClear
  <1>7. StoreType' /\ History'
    <2>1. CASE UNCHANGED <<s_msg_history, s_msg_write_idx, s_msg_count, log>>
      BY <2>1 DEF StoreType, History, Back
    <2>2. CASE rx.msg # None /\ Added(rx.msg)
      <3>1. rx.msg \in Message
        BY <2>2 DEF TaskType
      <3> QED
        BY <2>2, <3>1, AddedInv
    <2> QED
      BY <2>1, <2>2 DEF RxProcess, Store, Added
  <1> QED
    BY <1>1, <1>2, <1>3, <1>4, <1>5, <1>6, <1>7

-----------------------------------------------------------------------------
(* Safety                                                                  *)

\* Steps of other components.
LEMMA StutterInv ==
    ASSUME Inv, UNCHANGED vars
    PROVE  Inv'
  <1> USE DEF vars, storeVars, apiVars, controlVars, txVars, chipVars
  <1>1. TypeOK'
    BY DEF Inv, TypeOK, ChipType, TaskType, StoreType
  <1>2. Switched' /\ Alone' /\ Counted' /\ Unread'
    BY DEF Inv, Switched, Alone, Counted, Unread, At, Dead
  <1> QED
    BY <1>1, <1>2, HistoryKept DEF Inv

\* Every step keeps the invariant.
LEMMA NextInv == Inv /\ [Next]_vars => Inv'
  BY StutterInv, ChipInv, RxStepInv, RxProcessInv, TxStepInv, StartInv, ApiInv
  DEF Next

\* The invariant holds in every reachable state.
THEOREM Invariance == Spec => []Inv
  BY InitInv, NextInv, PTL DEF Spec

\* The chip, the tasks and the history keep their types.
THEOREM TypeCorrect == Spec => []TypeOK
  <1>1. Inv => TypeOK
    BY DEF Inv
  <1> QED
    BY <1>1, Invariance, PTL

\* Whenever no task transmits, the radio is set to receive, for any number of
\* TX tasks that use it without a lock.
THEOREM Listens == Spec => []IdleListens
  <1>1. Inv => IdleListens
    BY DEF Inv, TypeOK, ChipType, TaskType, Switched, At, IdleListens, TxIdle
  <1> QED
    BY <1>1, Invariance, PTL

\* Unless meshy_start() found a TX task alive, every packet counted as sent was
\* on the air.
THEOREM CountsWhatIsSent == Spec => []CountedIsSent
  <1>1. Inv => CountedIsSent
    BY DEF Inv, Counted, CountedIsSent
  <1> QED
    BY <1>1, Invariance, PTL

\* When meshy_stop() has returned in time, no task is left, unless meshy_start()
\* had found one: whatever earlier stops did.
THEOREM StopIsQuiet == Spec => []StoppedIsQuiet
  <1>1. Inv => StoppedIsQuiet
    BY DEF Inv, Alone, StoppedIsQuiet
  <1> QED
    BY <1>1, Invariance, PTL

\* The RX task reads a frame again only if DIO1 was high for a TX task.
THEOREM Rereads == Spec => RereadOnlyInTx
  <1>1. Inv /\ [Next]_vars =>
           [rx.pc = "read" /\ rx'.pc = "process" /\ rx'.msg # None /\ buffer.read
              => "TX_DONE" \in rx.via]_vars
    BY DEF Inv, Unread
  <1> QED
    BY <1>1, Invariance, PTL DEF Spec, RereadOnlyInTx

-----------------------------------------------------------------------------
(* The implementation of DuplicateFilter                                   *)

Known == {s_msg_history[s] : s \in Slot} \ {None}

\* The empty history is an empty filter.
LEMMA FilterInit == Init => Filter!Init
  BY DEF Init, Filter!Init, Slot

\* A message that is stored is one the filter accepts, and only the oldest of a
\* full window is forgotten.
LEMMA FilterAccept ==
    ASSUME StoreType, History, NEW msg \in Message, Added(msg)
    PROVE  Filter!Accept(msg)
  <1> DEFINE H == MESHY_MSG_HISTORY
             i == s_msg_write_idx
  <1>1. H \in Nat \ {0} /\ i \in Slot
    BY MeshySizeAssumption DEF StoreType
  <1>2. /\ s_msg_history'[i] = msg /\ msg # None
        /\ \A s \in Slot : s # i => s_msg_history'[s] = s_msg_history[s]
    BY <1>1, MeshyFrameAssumption DEF StoreType, Added, Message
  <1>3. msg \notin Known
    BY SearchedAll DEF Added, Known
  <1>4. Known' \subseteq Known \cup {msg} /\ msg \in Known'
    BY <1>1, <1>2 DEF Known
  <1>5. ASSUME NEW x \in Known, x \in Filter!Last(log, H - 1)
        PROVE  x \in Known'
    <2>1. Len(log) \in Nat
      BY LenProperties DEF StoreType
    <2>2. PICK n \in 1 .. Len(log) : n > Len(log) - (H - 1) /\ x = log[n]
      BY <1>5 DEF Filter!Last
    <2> DEFINE j == Len(log) - n
    <2>3. j \in 0 .. H - 2 /\ j \in 0 .. s_msg_count - 1 /\ Len(log) - j = n
      BY <1>1, <2>1, <2>2 DEF History
    <2> HIDE DEF j
    <2>4. Back(j) \in Slot /\ Back(j) # i
      <3>1. j \in 0 .. H - 1
        BY <1>1, <2>3
      <3> QED
        BY <2>3, <3>1, BackFacts DEF Added
    <2>5. s_msg_history[Back(j)] = x
      BY <2>2, <2>3 DEF History
    <2> QED
      BY <1>2, <2>4, <2>5 DEF Known
  <1> QED
    BY <1>3, <1>4, <1>5 DEF Filter!Accept, Known, Added

\* Every step is one of the filter, or none to it.
LEMMA FilterNext == Inv /\ [Next]_vars => [Filter!StrictNext]_Filter!filterVars
  <1> SUFFICES ASSUME Inv, [Next]_vars
               PROVE  [Filter!StrictNext]_Filter!filterVars
    OBVIOUS
  <1>1. CASE UNCHANGED <<s_msg_history, log>>
    BY <1>1 DEF Filter!filterVars
  <1>2. CASE RxProcess
    <2>1. CASE rx.msg # None /\ Added(rx.msg)
      <3>1. rx.msg \in Message
        BY <2>1 DEF Inv, TypeOK, TaskType
      <3> QED
        BY <2>1, <3>1, FilterAccept DEF Inv, TypeOK, Filter!StrictNext
    <2> QED
      BY <1>1, <1>2, <2>1 DEF RxProcess, Store, Added, storeVars
  <1>3. CASE Chip
    BY <1>1, <1>3 DEF Chip, ChipReceive, ChipFails, ChipTxDone, storeVars
  <1>4. CASE RxStep /\ ~ RxProcess
    BY <1>1, <1>4
    DEF RxStep, RxPoll, RxExit, RxFlags, RxBranch, RxRead, RxGoto, storeVars
  <1>5. CASE \E t \in TxTask : TxStep(t)
    BY <1>1, <1>5
    DEF TxStep, TxTake, TxExit, TxBuild, TxSwitch, TxSend, TxSuccess, TxTimeout,
        TxReturn, TxGoto, storeVars
  <1>6. CASE Start \/ Stop \/ StopEnd \/ SendText
    BY <1>1, <1>6 DEF Start, Stop, StopEnd, SendText, storeVars
  <1>7. CASE UNCHANGED vars
    BY <1>1, <1>7 DEF vars, storeVars
  <1> QED
    BY <1>2, <1>3, <1>4, <1>5, <1>6, <1>7 DEF Next

\* The message history is a filter for duplicates that forgets nothing of its
\* last MESHY_MSG_HISTORY messages.
THEOREM ImplementsFilter == Spec => HistorySpec
  <1>1. Init => Filter!Init
    BY FilterInit
  <1>2. Inv /\ [Next]_vars => [Filter!StrictNext]_Filter!filterVars
    BY FilterNext
  <1> QED
    BY <1>1, <1>2, Invariance, PTL DEF Spec, HistorySpec, Filter!StrictSpec
=============================================================================
