--------------------------- MODULE PacketId_proof ---------------------------
(***************************************************************************)
(* next_packet_id() never draws a number twice and never returns an id     *)
(* twice in a session, over any number of resets, power failures and       *)
(* rotations at any point of any call, when it has one caller and          *)
(* next_packet_id_64() is not used.  (Both conditions are needed: TLC      *)
(* finds a duplicate without either.)                                      *)
(*                                                                         *)
(* The invariant has two halves.  RtcCovers: RTC memory is less than a     *)
(* period behind, so that a wake resumes above every id issued.  PcInv:    *)
(* at each point of a call, how the RAM state, the locals and RTC memory   *)
(* are ahead of each other, which makes RtcCovers survive the next write.  *)
(***************************************************************************)
EXTENDS PacketId, TLAPS

\* One caller, and it does not call next_packet_id_64().
SingleCaller ==
    Thread # {} /\ (\A s, t \in Thread : s = t) /\ "id64" \notin Ops

-----------------------------------------------------------------------------
(* The points at which the state is copied                                 *)

IsPoint(q) == q % Window = 0

\* Among Window successive numbers there is a point.
LEMMA PointWithin ==
    ASSUME NEW c \in Nat
    PROVE  \E p \in c + 1 .. c + Window : IsPoint(p)
  <1> DEFINE q == c \div Window
             p == Window * (q + 1)
             d == p \div Window
             r == p % Window
             k == q + 1 - d
  <1>0. Window \in Nat \ {0}
    BY SequenceAssumption
  <1>1. q \in Int /\ c = Window * q + (c % Window) /\ c % Window \in 0 .. Window - 1
    BY <1>0
  <1> HIDE DEF q
  <1>2. p \in Int /\ p = Window * q + Window
    BY <1>0, <1>1
  <1>3. p \in c + 1 .. c + Window
    BY <1>0, <1>1, <1>2
  <1> HIDE DEF p
  <1>4. p = Window * d + r /\ d \in Int /\ r \in 0 .. Window - 1
    BY <1>0, <1>2
  <1> HIDE DEF d, r
  <1>a. Window * k = Window * q + Window - Window * d
    BY <1>0, <1>1, <1>4
  <1>5. r = Window * k /\ k \in Int
    BY <1>0, <1>1, <1>2, <1>4, <1>a
  <1> HIDE DEF k
  <1>6. (k >= 1 => Window * k >= Window) /\ (k <= -1 => Window * k <= -Window)
    BY <1>0, <1>5
  <1>7. k = 0
    BY <1>0, <1>4, <1>5, <1>6
  <1>8. p % Window = 0
    BY <1>0, <1>5, <1>7 DEF r
  <1> QED
    BY <1>3, <1>8 DEF IsPoint

\* MAX_SEQUENCE and its successor are no points.
LEMMA PointFacts ==
    /\ ~ IsPoint(MaxSequence) /\ ~ IsPoint(MaxSequence + 1)
    /\ Window \in Nat \ {0} /\ MaxSequence \in Nat /\ MaxSequence > Window
    /\ SeqMod = MaxSequence + 2
  BY SequenceAssumption DEF IsPoint, SeqMod

-----------------------------------------------------------------------------
(* The invariant                                                           *)

Unused(s) == \A n \in issued : n[1] # s

\* There is no point strictly between a and b.
NoPoint(a, b) == \A p \in a + 1 .. b - 1 : ~ IsPoint(p)

\* Between two calls: RAM and RTC memory agree on the session, the next
\* sequence is above all issued, and no point was passed since the copy.
Live ==
    /\ rtc.session = session
    /\ Above(session, sequence)
    /\ NoPoint(rtc.sequence, sequence)

\* During init(): what it is about to store.
Restored(t) ==
    /\ Above(loc[t].session, loc[t].sequence)
    /\ loc[t].session = rtc.session \/ Unused(loc[t].session)

\* The id a call is going to return is above all issued in its session.
Pending(t) == Above(loc[t].session, loc[t].sequence)

\* The call has run out of numbers and must rotate.
Exhausted(t) == Pending(t) /\ loc[t].sequence >= MaxSequence

\* After the sequence has been fetched.
Fetched(t) ==
    /\ rtc.session = session
    /\ Above(session, loc[t].sequence)
    /\ NoPoint(rtc.sequence, loc[t].sequence)
    /\ loc[t].sequence < MaxSequence => sequence = loc[t].sequence + 1

\* During a rotation: the new session has not been used.
Rotating(t) ==
    /\ session = loc[t].new /\ session <= sessions /\ Unused(session)
    /\ op[t] = "id32" => Exhausted(t) /\ loc[t].session # session

PcInv(t) ==
    /\ (pc[t] = "idle" /\ initialized) => Live
    /\ pc[t] # "idle" => op[t] # "id64"
    /\ pc[t] \in {"initSession", "initSeq", "initRtcSession", "initRtcSeq"}
          => Restored(t)
    /\ pc[t] \in {"initSeq", "initRtcSession", "initRtcSeq"}
          => session = loc[t].session
    /\ pc[t] \in {"initRtcSession", "initRtcSeq"}
          => sequence = loc[t].sequence
    /\ pc[t] = "initRtcSeq" => rtc.session = loc[t].session
    /\ pc[t] = "fetch" => Live /\ op[t] = "id32"
    /\ pc[t] = "load" => Fetched(t) /\ op[t] = "id32"
    /\ (pc[t] = "rotate" /\ op[t] = "id32") => Exhausted(t)
    /\ pc[t] \in {"rotate", "rotSeq", "rotRtcSession", "rotRtcSeq"}
          => op[t] \in {"id32", "rotate"}
    /\ pc[t] \in {"rotSeq", "rotRtcSession", "rotRtcSeq"} => Rotating(t)
    /\ pc[t] \in {"rotRtcSession", "rotRtcSeq"} => sequence = 0
    /\ pc[t] = "rotRtcSeq" => rtc.session = session
    /\ pc[t] \in {"persistSession", "persistSeq"} =>
          /\ Fetched(t) /\ loc[t].session = session
          /\ loc[t].sequence < MaxSequence
    /\ pc[t] = "return" =>
          /\ Live /\ Pending(t)
          /\ loc[t].session = session => /\ loc[t].sequence < sequence
                                         /\ loc[t].sequence < MaxSequence

\* No session beyond the counter has been used.
Known ==
    /\ \A n \in issued : n[1] <= sessions
    /\ rtc.session <= sessions
    /\ \A t \in Thread : loc[t].session <= sessions

Inv ==
    /\ TypeOK
    /\ Known
    /\ RtcCovers
    /\ \A t \in Thread : PcInv(t)


-----------------------------------------------------------------------------
(* Type correctness holds for any number of callers and all entry points.  *)

\* There is an operation to call.
LEMMA OpsNonEmpty == (CHOOSE o \in Ops : TRUE) \in Ops
  BY OpsAssumption

\* The types hold initially.
LEMMA InitType == Init => TypeOK
  <1> SUFFICES ASSUME Init PROVE TypeOK
    OBVIOUS
  <1>1. PICK q \in 0 .. SeqMod - 1 : rtc = Garbage(0, q)
    BY DEF Init
  <1>2. rtc \in [magic : BOOLEAN, session : 0 .. MaxSession,
                 sequence : 0 .. SeqMod - 1]
    BY <1>1, SessionBound DEF Garbage
  <1>3. loc \in [Thread -> Locals] /\ op \in [Thread -> Ops]
    BY OpsNonEmpty, PointFacts, SessionBound DEF Init, Locals
  <1>4. pc \in [Thread -> {"idle"} \cup InInit \cup InCall]
    BY DEF Init
  <1>5. initialized \in BOOLEAN
    BY DEF Init
  <1>6. /\ session \in 0 .. MaxSession /\ sequence \in 0 .. SeqMod - 1
        /\ sessions \in 0 .. MaxSession /\ resets \in 0 .. MaxResets
        /\ issued \subseteq (0 .. MaxSession) \X (0 .. SeqMod - 1)
    BY PointFacts, SessionBound DEF Init
  <1> QED
    BY <1>2, <1>3, <1>4, <1>5, <1>6 DEF TypeOK

\* The skip on waking stays within the range of the sequence.
LEMMA WakeType ==
    ASSUME NEW q \in 0 .. SeqMod - 1
    PROVE  /\ WakeSequence(q) \in 0 .. SeqMod - 1
           /\ WakeSequence(q) = q + Window \/ WakeSequence(q) = MaxSequence
  BY PointFacts DEF WakeSequence

\* Every step of every thread keeps the types.
LEMMA TypeStep == TypeOK /\ [Next]_vars => TypeOK'
  <1> SUFFICES ASSUME TypeOK, [Next]_vars PROVE TypeOK'
    OBVIOUS
  <1> USE SessionBound
  <1>1. ASSUME NEW t \in Thread, NEW o \in Ops, Call(t, o) PROVE TypeOK'
    BY <1>1 DEF TypeOK, Call, Goto, At, AfterInit, InInit, InCall
  <1>2. ASSUME NEW t \in Thread, InitRead(t) PROVE TypeOK'
    <2> DEFINE w == WakeSequence(rtc.sequence)
    <2>1. w \in 0 .. SeqMod - 1 /\ 0 \in 0 .. SeqMod - 1
      BY WakeType, PointFacts DEF TypeOK
    <2> HIDE DEF w
    <2>2. loc' \in [Thread -> Locals]
      <3>1. CASE rtc.magic /\ rtc.sequence < MaxSequence
        BY <1>2, <2>1, <3>1 DEF InitRead, w, TypeOK, Locals
      <3>2. CASE ~ (rtc.magic /\ rtc.sequence < MaxSequence)
        BY <1>2, <2>1, <3>2 DEF InitRead, TypeOK, Locals
      <3> QED BY <3>1, <3>2
    <2>3. sessions' \in 0 .. MaxSession
      BY <1>2 DEF InitRead, TypeOK
    <2> QED
      BY <1>2, <2>2, <2>3 DEF TypeOK, InitRead, Goto, At, InInit, InCall
  <1>3. ASSUME NEW t \in Thread,
               \/ InitSession(t) \/ InitSeq(t) \/ InitRtcSession(t)
               \/ InitRtcSeq(t)
        PROVE  TypeOK'
    BY <1>3 DEF TypeOK, Locals, InitSession, InitSeq, InitRtcSession,
                InitRtcSeq, Goto, At, AfterInit, InInit, InCall
  <1>4. ASSUME NEW t \in Thread, Fetch(t) PROVE TypeOK'
    <2>1. (sequence + 1) % SeqMod \in 0 .. SeqMod - 1
      BY PointFacts DEF TypeOK
    <2> QED
      BY <1>4, <2>1 DEF TypeOK, Locals, Fetch, Goto, At, InInit, InCall
  <1>5. ASSUME NEW t \in Thread,
               Load(t) \/ PersistSession(t) \/ PersistSeq(t)
        PROVE  TypeOK'
    BY <1>5 DEF TypeOK, Locals, Load, PersistSession, PersistSeq, AfterRotate,
                Goto, At, InInit, InCall
  <1>6. ASSUME NEW t \in Thread, Return(t) PROVE TypeOK'
    BY <1>6 DEF TypeOK, Locals, Return, Number, Goto, At, InInit, InCall
  <1>7. ASSUME NEW t \in Thread,
               Rotate(t) \/ RotSeq(t) \/ RotRtcSession(t) \/ RotRtcSeq(t)
        PROVE  TypeOK'
    BY <1>7, PointFacts DEF TypeOK, Locals, Rotate, RotSeq, RotRtcSession,
                RotRtcSeq, AfterRotate, Goto, At, InInit, InCall
  <1>8. CASE InvalidateRtc
    BY <1>8 DEF TypeOK, InvalidateRtc
  <1>9. ASSUME RamLost,
               sessions' \in 0 .. MaxSession,
               rtc' \in [magic : BOOLEAN, session : 0 .. MaxSession,
                         sequence : 0 .. SeqMod - 1]
        PROVE  TypeOK'
    <2>1. pc' \in [Thread -> {"idle"} \cup InInit \cup InCall]
      BY <1>9 DEF RamLost
    <2>2. initialized' \in BOOLEAN
      BY <1>9 DEF RamLost
    <2>3. /\ session' \in 0 .. MaxSession /\ sequence' \in 0 .. SeqMod - 1
          /\ resets' \in 0 .. MaxResets
          /\ issued' \subseteq (0 .. MaxSession) \X (0 .. SeqMod - 1)
      BY <1>9, PointFacts DEF RamLost, TypeOK
    <2>4. op' \in [Thread -> Ops] /\ loc' \in [Thread -> Locals]
      BY <1>9 DEF RamLost, TypeOK
    <2> QED
      BY <1>9, <2>1, <2>2, <2>3, <2>4 DEF TypeOK
  <1>11. CASE Reset
    BY <1>9, <1>11 DEF Reset, TypeOK
  <1>12. CASE PowerFail
    <2>1. PICK q \in 0 .. SeqMod - 1 : rtc' = Garbage(sessions + 1, q)
      BY <1>12 DEF PowerFail
    <2>2. sessions + 1 \in 0 .. MaxSession /\ sessions' = sessions + 1
      BY <1>12 DEF PowerFail, TypeOK
    <2>3. rtc' \in [magic : BOOLEAN, session : 0 .. MaxSession,
                    sequence : 0 .. SeqMod - 1]
      BY <2>1, <2>2 DEF Garbage
    <2> QED
      BY <1>9, <1>12, <2>2, <2>3 DEF PowerFail
  <1>10. CASE UNCHANGED vars
    BY <1>10 DEF TypeOK, vars
  <1> QED
    BY <1>1, <1>2, <1>3, <1>4, <1>5, <1>6, <1>7, <1>8, <1>10, <1>11,
       <1>12 DEF Next, Step

\* The generator is type correct, with any number of callers: in particular
\* the sequence and its copy stay within 32 bits over waking and rotation.
THEOREM TypeCorrect == Spec => []TypeOK
  BY InitType, TypeStep, PTL DEF Spec


-----------------------------------------------------------------------------
(* The invariant is inductive.                                             *)

\* A number is a pair.
LEMMA IdType ==
    TypeOK => \A n \in issued : n[1] \in Nat /\ n[2] \in Nat
  BY SessionBound, PointFacts DEF TypeOK

\* When no point was passed since the copy, it is at most a period behind.
LEMMA PeriodBound ==
    ASSUME NEW a \in Nat, NEW b \in Nat, NoPoint(a, b)
    PROVE  b <= a + Window
  <1>1. PICK p \in a + 1 .. a + Window : IsPoint(p)
    BY PointWithin
  <1> QED
    BY <1>1, PointFacts DEF NoPoint

\* The parts of the state a step must re-establish, for the one caller.
Parts(t) == Known /\ RtcCovers /\ PcInv(t)

\* The invariant holds initially.
LEMMA InitInv == Init => Inv
  <1> SUFFICES ASSUME Init PROVE Inv
    OBVIOUS
  <1>1. TypeOK
    BY InitType
  <1>2. issued = {} /\ initialized = FALSE /\ pc = [t \in Thread |-> "idle"]
    BY DEF Init
  <1>3. RtcCovers
    BY <1>2 DEF RtcCovers, Above
  <1>4. Known
    <2>1. rtc.session = 0
      BY DEF Init, Garbage
    <2> QED
      BY <1>2, <2>1 DEF Known, Init
  <1>5. ASSUME NEW t \in Thread PROVE PcInv(t)
    <2>1. pc[t] = "idle"
      BY <1>2
    <2>2. ~ initialized
      BY <1>2
    <2> QED
      BY <2>1, <2>2 DEF PcInv
  <1> QED
    BY <1>1, <1>3, <1>4, <1>5 DEF Inv

\* A call begins.
LEMMA CallStep ==
    ASSUME SingleCaller, Inv, NEW t \in Thread, NEW o \in Ops, Call(t, o)
    PROVE  Parts(t)'
  <1>1. /\ UNCHANGED <<session, sequence, rtc, loc, sessions, issued>>
        /\ op'[t] = o /\ o # "id64" /\ o \in {"id32", "rotate", "info"}
        /\ pc[t] = "idle"
        /\ pc'[t] = IF initialized THEN AfterInit(o) ELSE "init"
    BY OpsAssumption DEF Call, Goto, At, Inv, TypeOK, SingleCaller
  <1>2. Known' /\ RtcCovers'
    BY <1>1 DEF Inv, Known, RtcCovers, Above
  <1>3. CASE ~ initialized
    <2>1. pc'[t] = "init"
      BY <1>1, <1>3
    <2> QED
      BY <1>1, <1>2, <2>1 DEF PcInv, Parts
  <1>4. CASE initialized
    <2>0. Live
      BY <1>1, <1>4 DEF Inv, PcInv
    <2>1. Live'
      BY <1>1, <2>0 DEF Live, Above, NoPoint
    <2>2. \/ pc'[t] = "rotate" /\ o = "rotate"
          \/ pc'[t] = "idle"
          \/ pc'[t] = "fetch" /\ o = "id32"
      BY <1>1, <1>4 DEF AfterInit
    <2> QED
      BY <1>1, <1>2, <2>1, <2>2 DEF PcInv, Parts
  <1> QED
    BY <1>2, <1>3, <1>4 DEF Parts

\* init() reads RTC memory and skips, or takes a new session.
LEMMA InitReadStep ==
    ASSUME Inv, NEW t \in Thread, InitRead(t)
    PROVE  Parts(t)'
  <1> USE SessionBound, PointFacts
  <1>1. /\ UNCHANGED <<session, sequence, issued, op>>
        /\ rtc'.session = rtc.session /\ rtc'.sequence = rtc.sequence
        /\ pc'[t] = "initSession" /\ pc[t] = "init"
    BY DEF InitRead, Goto, At, Inv, TypeOK
  <1>2. RtcCovers'
    BY <1>1 DEF Inv, RtcCovers, Above
  <1>3. CASE rtc.magic /\ rtc.sequence < MaxSequence
    <2> DEFINE w == WakeSequence(rtc.sequence)
    <2>1. w = rtc.sequence + Window \/ w = MaxSequence
      BY WakeType DEF Inv, TypeOK
    <2>2. /\ loc'[t].session = rtc.session /\ loc'[t].sequence = w
          /\ sessions' = sessions
          /\ \A u \in Thread : loc'[u].session \in {loc[u].session, rtc.session}
      BY <1>3 DEF InitRead, Inv, TypeOK, Locals
    <2> HIDE DEF w
    <2>3. Restored(t)'
      BY <1>1, <2>1, <2>2 DEF Inv, RtcCovers, Restored, Above
    <2>4. Known'
      BY <1>1, <2>2 DEF Inv, Known
    <2> QED
      BY <1>1, <1>2, <2>3, <2>4 DEF Parts, PcInv, Inv
  <1>4. CASE ~ (rtc.magic /\ rtc.sequence < MaxSequence)
    <2>2. /\ loc'[t].session = sessions + 1 /\ sessions' = sessions + 1
          /\ \A u \in Thread : loc'[u].session \in {loc[u].session, sessions + 1}
          /\ sessions \in Nat
          /\ \A u \in Thread : loc[u].session \in Nat
          /\ rtc.session \in Nat
      BY <1>4 DEF InitRead, Inv, TypeOK, Locals
    <2>3. Unused(sessions + 1)
      BY <2>2, IdType DEF Inv, Known, Unused
    <2>4. Restored(t)'
      BY <1>1, <2>2, <2>3 DEF Restored, Unused, Above
    <2>5. Known'
      BY <1>1, <2>2, IdType DEF Inv, Known
    <2> QED
      BY <1>1, <1>2, <2>4, <2>5 DEF Parts, PcInv, Inv
  <1> QED
    BY <1>3, <1>4

\* init() stores session and sequence in RAM,
LEMMA InitStoreStep ==
    ASSUME Inv, NEW t \in Thread, InitSession(t) \/ InitSeq(t)
    PROVE  Parts(t)'
  <1>1. Known' /\ RtcCovers'
    BY DEF InitSession, InitSeq, Inv, Known, RtcCovers, Above
  <1>2. PcInv(t)'
    BY DEF InitSession, InitSeq, Goto, At, Inv, TypeOK, PcInv, Restored,
           Above, Unused
  <1> QED
    BY <1>1, <1>2 DEF Parts

\* and writes them to RTC memory, one after the other.
LEMMA InitPersistStep ==
    ASSUME SingleCaller, Inv, NEW t \in Thread,
           InitRtcSession(t) \/ InitRtcSeq(t)
    PROVE  Parts(t)'
  <1> USE SessionBound, PointFacts
  <1>0. /\ Restored(t) /\ session = loc[t].session /\ sequence = loc[t].sequence
        /\ UNCHANGED <<session, sequence, loc, op, sessions, issued>>
        /\ op[t] \in {"id32", "rotate", "info"}
        /\ loc[t].sequence \in Nat
    BY OpsAssumption DEF SingleCaller, InitRtcSession, InitRtcSeq, At, Inv,
                         TypeOK, Locals, PcInv
  <1>1. CASE InitRtcSession(t)
    <2>1. /\ rtc'.session = loc[t].session /\ rtc'.sequence = rtc.sequence
          /\ pc'[t] = "initRtcSeq"
      BY <1>1 DEF InitRtcSession, Goto, Inv, TypeOK
    <2>2. Known'
      BY <1>0, <2>1 DEF Inv, Known
    <2>3. RtcCovers'
      BY <1>0, <2>1 DEF Inv, RtcCovers, Restored, Unused, Above
    <2>4. Restored(t)'
      BY <1>0, <2>1 DEF Restored, Unused, Above
    <2> QED
      BY <1>0, <2>1, <2>2, <2>3, <2>4 DEF PcInv, Parts
  <1>2. CASE InitRtcSeq(t)
    <2>1. /\ rtc'.session = loc[t].session /\ rtc.session = loc[t].session
          /\ rtc'.sequence = loc[t].sequence
          /\ pc'[t] = AfterInit(op[t])
      BY <1>2 DEF InitRtcSeq, Goto, At, Inv, TypeOK, PcInv
    <2>2. Known'
      BY <1>0, <2>1 DEF Inv, Known
    <2>3. RtcCovers'
      BY <1>0, <2>1, IdType DEF Inv, RtcCovers, Restored, Above
    <2>4. Live'
      BY <1>0, <2>1 DEF Live, Restored, NoPoint, Above
    <2>5. \/ pc'[t] = "rotate" /\ op[t] = "rotate"
          \/ pc'[t] = "idle"
          \/ pc'[t] = "fetch" /\ op[t] = "id32"
      BY <1>0, <2>1 DEF AfterInit
    <2> QED
      BY <1>0, <2>2, <2>3, <2>4, <2>5 DEF PcInv, Parts
  <1> QED
    BY <1>1, <1>2

\* The sequence is fetched and incremented,
LEMMA FetchStep ==
    ASSUME Inv, NEW t \in Thread, Fetch(t)
    PROVE  Parts(t)'
  <1> USE PointFacts
  <1>1. /\ UNCHANGED <<session, rtc, op, sessions, issued>>
        /\ loc'[t].sequence = sequence
        /\ \A u \in Thread : loc'[u].session = loc[u].session
        /\ sequence' = (sequence + 1) % SeqMod
        /\ pc'[t] = "load" /\ Live /\ op[t] = "id32"
        /\ sequence \in 0 .. SeqMod - 1
    BY DEF Fetch, Goto, At, Inv, TypeOK, Locals, PcInv
  <1>2. sequence < MaxSequence => sequence' = sequence + 1
    BY <1>1
  <1>3. Known' /\ RtcCovers'
    BY <1>1 DEF Inv, Known, RtcCovers, Above
  <1>4. Fetched(t)'
    BY <1>1, <1>2 DEF Live, Fetched, NoPoint, Above
  <1> QED
    BY <1>1, <1>3, <1>4 DEF PcInv, Parts

\* the session is loaded,
LEMMA LoadStep ==
    ASSUME Inv, NEW t \in Thread, Load(t)
    PROVE  Parts(t)'
  <1> USE PointFacts
  <1> DEFINE q == loc[t].sequence
  <1>1. /\ UNCHANGED <<session, sequence, rtc, op, sessions, issued>>
        /\ loc'[t].sequence = q /\ loc'[t].session = session
        /\ \A u \in Thread : loc'[u].session \in {loc[u].session, session}
        /\ Fetched(t) /\ op[t] = "id32"
        /\ q \in 0 .. SeqMod - 1 /\ rtc.sequence \in 0 .. SeqMod - 1
        /\ pc'[t] = IF q >= MaxSequence THEN "rotate" ELSE AfterRotate("id32", q)
    BY DEF Load, Goto, At, Inv, TypeOK, Locals, PcInv
  <1> HIDE DEF q
  <1>2. Known' /\ RtcCovers'
    BY <1>1 DEF Inv, Known, RtcCovers, Above, Fetched
  <1>3. Pending(t)'
    BY <1>1 DEF Fetched, Pending, Above, q
  <1>4. CASE q >= MaxSequence
    BY <1>1, <1>2, <1>3, <1>4 DEF PcInv, Parts, Exhausted
  <1>5. CASE q < MaxSequence /\ IsPoint(q)
    <2>1. pc'[t] = "persistSession"
      BY <1>1, <1>5 DEF AfterRotate, MustPersist, IsPoint
    <2>2. Fetched(t)'
      BY <1>1 DEF Fetched, NoPoint, Above, q
    <2> QED
      BY <1>1, <1>2, <1>5, <2>1, <2>2 DEF PcInv, Parts
  <1>6. CASE q < MaxSequence /\ ~ IsPoint(q)
    <2>1. pc'[t] = "return" /\ sequence = q + 1
      BY <1>1, <1>6 DEF AfterRotate, MustPersist, IsPoint, Fetched, q
    <2>2. NoPoint(rtc.sequence, q)
      BY <1>1 DEF Fetched, q
    <2>3. NoPoint(rtc.sequence, sequence)
      BY <1>1, <1>6, <2>1, <2>2 DEF NoPoint
    <2>4. Above(session, sequence)
      BY <1>1, <2>1, IdType DEF Fetched, Above, Inv, q
    <2>5. Live'
      BY <1>1, <2>3, <2>4 DEF Live, NoPoint, Above, Fetched
    <2> QED
      BY <1>1, <1>2, <1>3, <1>6, <2>1, <2>5 DEF PcInv, Parts
  <1> QED
    BY <1>1, <1>4, <1>5, <1>6

\* both are copied to RTC memory if a point was passed,
LEMMA PersistStep ==
    ASSUME Inv, NEW t \in Thread, PersistSession(t) \/ PersistSeq(t)
    PROVE  Parts(t)'
  <1> USE PointFacts
  <1> DEFINE q == loc[t].sequence
  <1>1. /\ UNCHANGED <<session, sequence, loc, op, sessions, issued>>
        /\ Fetched(t) /\ loc[t].session = session /\ op[t] # "id64"
        /\ q \in 0 .. MaxSequence - 1 /\ sequence = q + 1
        /\ rtc'.session = rtc.session
    BY DEF PersistSession, PersistSeq, Goto, At, Inv, TypeOK, Locals, PcInv,
           Fetched
  <1> HIDE DEF q
  <1>2. Known'
    BY <1>1 DEF Inv, Known
  <1>3. CASE PersistSession(t)
    <2>1. pc'[t] = "persistSeq" /\ rtc'.sequence = rtc.sequence
      BY <1>3 DEF PersistSession, Goto, Inv, TypeOK
    <2>2. RtcCovers'
      BY <1>1, <2>1 DEF Inv, RtcCovers, Above
    <2>3. Fetched(t)'
      BY <1>1, <2>1 DEF Fetched, NoPoint, Above
    <2> QED
      BY <1>1, <1>2, <2>1, <2>2, <2>3 DEF PcInv, Parts, q
  <1>4. CASE PersistSeq(t)
    <2>1. pc'[t] = "return" /\ rtc'.sequence = q
      BY <1>4 DEF PersistSeq, Goto, Inv, TypeOK, q
    <2>2. Above(session, q) /\ rtc.session = session
      BY <1>1 DEF Fetched, q
    <2>3. RtcCovers'
      BY <1>1, <2>1, <2>2, IdType DEF Inv, RtcCovers, Above
    <2>4. Live'
      BY <1>1, <2>1, <2>2, IdType DEF Inv, Live, NoPoint, Above
    <2>5. Pending(t)'
      BY <1>1, <2>2 DEF Pending, Above, q
    <2> QED
      BY <1>1, <1>2, <2>1, <2>3, <2>4, <2>5 DEF PcInv, Parts, q
  <1> QED
    BY <1>3, <1>4

\* and the id is returned: it was not issued before.
LEMMA ReturnStep ==
    ASSUME Inv, NEW t \in Thread, Return(t)
    PROVE  Parts(t)'
  <1> USE PointFacts, SessionBound
  <1> DEFINE s == loc[t].session
             q == loc[t].sequence
  <1>1. /\ UNCHANGED <<session, sequence, rtc, loc, op, sessions>>
        /\ issued' = issued \cup {<<s, q>>}
        /\ Live /\ (s = session => q < sequence /\ q < MaxSequence)
        /\ s \in Nat /\ q \in Nat /\ s <= sessions
        /\ sequence \in Nat /\ rtc.sequence \in Nat
        /\ pc'[t] = "idle"
    BY DEF Return, Number, Goto, At, Inv, TypeOK, Locals, PcInv, Known
  <1> HIDE DEF s, q
  <1>2. Known'
    BY <1>1 DEF Inv, Known
  <1>3. sequence <= rtc.sequence + Window
    BY <1>1, PeriodBound DEF Live
  <1>4. RtcCovers'
    BY <1>1, <1>3 DEF Inv, RtcCovers, Live, Above
  <1>5. Live'
    BY <1>1 DEF Live, NoPoint, Above
  <1> QED
    BY <1>1, <1>2, <1>4, <1>5 DEF PcInv, Parts

\* rotate_session() takes a new session,
LEMMA RotateStep ==
    ASSUME Inv, NEW t \in Thread, Rotate(t) \/ RotSeq(t)
    PROVE  Parts(t)'
  <1> USE PointFacts, SessionBound
  <1>1. /\ UNCHANGED <<rtc, op, issued>>
        /\ op[t] \in {"id32", "rotate"}
        /\ loc'[t].session = loc[t].session /\ loc'[t].sequence = loc[t].sequence
        /\ \A u \in Thread : loc'[u].session = loc[u].session
        /\ sessions \in Nat /\ loc[t].session <= sessions
        /\ loc[t].session \in Nat
    BY DEF Rotate, RotSeq, Goto, At, Inv, TypeOK, Locals, PcInv, Known
  <1>2. RtcCovers'
    BY <1>1 DEF Inv, RtcCovers, Above
  <1>3. CASE Rotate(t)
    <2>1. /\ session' = sessions + 1 /\ sessions' = sessions + 1
          /\ loc'[t].new = sessions + 1 /\ pc'[t] = "rotSeq"
          /\ op[t] = "id32" => Exhausted(t)
      BY <1>3 DEF Rotate, Goto, At, Inv, TypeOK, Locals, PcInv
    <2>a. rtc.session \in Nat /\ \A u \in Thread : loc[u].session \in Nat
      BY DEF Inv, TypeOK, Locals
    <2>2. Known'
      BY <1>1, <2>1, <2>a, IdType DEF Inv, Known
    <2>3. Unused(sessions + 1)
      BY <1>1, IdType DEF Inv, Known, Unused
    <2>4. Rotating(t)'
      BY <1>1, <2>1, <2>3 DEF Rotating, Unused, Exhausted, Pending, Above
    <2> QED
      BY <1>1, <1>2, <2>1, <2>2, <2>4 DEF PcInv, Parts
  <1>4. CASE RotSeq(t)
    <2>1. /\ sequence' = 0 /\ UNCHANGED <<session, loc, sessions>>
          /\ pc'[t] = "rotRtcSession" /\ Rotating(t)
      BY <1>4 DEF RotSeq, Goto, At, Inv, TypeOK, PcInv
    <2>2. Known'
      BY <1>1, <2>1 DEF Inv, Known
    <2>3. Rotating(t)'
      BY <1>1, <2>1 DEF Rotating, Unused, Exhausted, Pending, Above
    <2> QED
      BY <1>1, <1>2, <2>1, <2>2, <2>3 DEF PcInv, Parts
  <1> QED
    BY <1>3, <1>4

\* and copies it.
LEMMA RotatePersistStep ==
    ASSUME Inv, NEW t \in Thread, RotRtcSession(t) \/ RotRtcSeq(t)
    PROVE  Parts(t)'
  <1> USE PointFacts, SessionBound
  <1>1. /\ UNCHANGED <<session, sequence, loc, op, sessions, issued>>
        /\ op[t] \in {"id32", "rotate"}
        /\ Rotating(t) /\ sequence = 0
        /\ rtc'.session = session
        /\ session <= sessions
    BY DEF RotRtcSession, RotRtcSeq, Goto, At, Inv, TypeOK, Locals, PcInv,
           Known, Rotating
  <1>2. Known'
    BY <1>1 DEF Inv, Known
  <1>3. RtcCovers'
    BY <1>1 DEF Inv, RtcCovers, Above, Rotating, Unused
  <1>4. CASE RotRtcSession(t)
    <2>1. pc'[t] = "rotRtcSeq"
      BY <1>4 DEF RotRtcSession, Goto, Inv, TypeOK
    <2>2. Rotating(t)'
      BY <1>1 DEF Rotating, Unused, Exhausted, Pending, Above
    <2> QED
      BY <1>1, <1>2, <1>3, <2>1, <2>2 DEF PcInv, Parts
  <1>5. CASE RotRtcSeq(t)
    <2>1. rtc'.sequence = 0
      BY <1>5 DEF RotRtcSeq, Inv, TypeOK
    <2>2. Live'
      BY <1>1, <2>1 DEF Live, NoPoint, Rotating, Unused, Above
    <2>3. CASE op[t] = "rotate"
      <3>1. pc'[t] = "idle"
        BY <1>5, <2>3 DEF RotRtcSeq, Goto, Inv, TypeOK
      <3> QED
        BY <1>1, <1>2, <1>3, <2>2, <3>1 DEF PcInv, Parts
    <2>4. CASE op[t] = "id32"
      <3> DEFINE q == loc[t].sequence
      <3>1. Exhausted(t) /\ loc[t].session # session
        BY <1>1, <2>4 DEF Rotating
      <3>2. q = MaxSequence \/ q = MaxSequence + 1
        BY <3>1 DEF Exhausted, Inv, TypeOK, Locals
      <3>3. ~ IsPoint(q)
        BY <3>2
      <3>4. pc'[t] = "return"
        BY <1>5, <2>4, <3>3
           DEF RotRtcSeq, Goto, Inv, TypeOK, AfterRotate, MustPersist, IsPoint
      <3>5. Pending(t)'
        BY <1>1, <3>1 DEF Exhausted, Pending, Above
      <3> QED
        BY <1>1, <1>2, <1>3, <2>2, <2>4, <3>1, <3>4, <3>5 DEF PcInv, Parts
    <2> QED
      BY <1>1, <2>3, <2>4
  <1> QED
    BY <1>4, <1>5

\* A reset at any point, with or without RTC memory.
LEMMA LossStep ==
    ASSUME Inv, NEW t \in Thread, Reset \/ PowerFail
    PROVE  Parts(t)'
  <1> USE SessionBound, PointFacts
  <1>1. /\ UNCHANGED <<op, loc, issued>>
        /\ pc'[t] = "idle" /\ initialized' = FALSE
    BY DEF Reset, PowerFail, RamLost
  <1>2. ~ initialized'
    BY <1>1
  <1>3. PcInv(t)'
    BY <1>1, <1>2 DEF PcInv
  <1>4. CASE Reset
    <2>1. UNCHANGED <<rtc, sessions>>
      BY <1>4 DEF Reset
    <2> QED
      BY <1>1, <1>3, <2>1 DEF Inv, Known, RtcCovers, Above, Parts
  <1>5. CASE PowerFail
    <2>1. /\ rtc'.session = sessions + 1 /\ sessions' = sessions + 1
          /\ sessions \in Nat
          /\ \A u \in Thread : loc[u].session \in Nat
      BY <1>5 DEF PowerFail, Garbage, Inv, TypeOK, Locals
    <2>2. Known'
      BY <1>1, <2>1, IdType DEF Inv, Known
    <2>3. RtcCovers'
      BY <1>1, <2>1, IdType DEF Inv, Known, RtcCovers, Above
    <2> QED
      BY <1>3, <2>2, <2>3 DEF Parts
  <1> QED
    BY <1>4, <1>5

\* Without the magic number nothing is restored.
LEMMA OtherStep ==
    ASSUME Inv, NEW t \in Thread, InvalidateRtc \/ UNCHANGED vars
    PROVE  Parts(t)'
  <1>1. /\ UNCHANGED <<session, sequence, initialized, pc, op, loc, sessions,
                       issued>>
        /\ rtc'.session = rtc.session /\ rtc'.sequence = rtc.sequence
    BY DEF InvalidateRtc, vars, Inv, TypeOK
  <1>2. Known' /\ RtcCovers'
    BY <1>1 DEF Inv, Known, RtcCovers, Above
  <1>3. /\ Live' = Live /\ Restored(t)' = Restored(t)
        /\ Pending(t)' = Pending(t) /\ Fetched(t)' = Fetched(t)
        /\ Exhausted(t)' = Exhausted(t)
    BY <1>1 DEF Live, Restored, Pending, Fetched, Exhausted, Above, NoPoint,
                Unused
  <1>4. Rotating(t)' = Rotating(t)
    BY <1>1, <1>3 DEF Rotating, Unused
  <1>5. PcInv(t)
    BY DEF Inv
  <1>6. PcInv(t)'
    BY <1>1, <1>3, <1>4, <1>5 DEF PcInv
  <1> QED
    BY <1>2, <1>6 DEF Parts

\* Every step keeps the invariant.
LEMMA InvStep ==
    ASSUME SingleCaller, Inv, [Next]_vars
    PROVE  Inv'
  <1>1. TypeOK'
    BY TypeStep DEF Inv
  <1>2. ASSUME NEW t \in Thread PROVE Parts(t)'
    <2>1. CASE \E u \in Thread : Step(u) \/ \E o \in Ops : Call(u, o)
      <3>1. Step(t) \/ \E o \in Ops : Call(t, o)
        BY <2>1 DEF SingleCaller
      <3> QED
        BY <3>1, CallStep, InitReadStep, InitStoreStep, InitPersistStep,
           FetchStep, LoadStep, PersistStep, ReturnStep, RotateStep,
           RotatePersistStep DEF Step
    <2> QED
      BY <2>1, LossStep, OtherStep DEF Next
  <1> QED
    BY <1>1, <1>2 DEF SingleCaller, Inv, Parts

\* With one caller of next_packet_id() no number is drawn twice, and no two of
\* the 32-bit ids of a session are the same, whatever the resets, power
\* failures and rotations, at whatever point of a call: for every period of the
\* copies, every MAX_SEQUENCE and every hash that is one to one in the sequence.
THEOREM NoDuplicateId == SingleCaller => (Spec => []UniqueIds)
  <1> SUFFICES ASSUME SingleCaller PROVE Spec => []UniqueIds
    OBVIOUS
  <1>1. Inv /\ [Next]_vars => Inv'
    BY InvStep
  <1>2. Inv => UniqueIds
    <2> SUFFICES ASSUME Inv, NEW t \in Thread, At(t, "return")
                 PROVE  /\ Number(t) \notin issued
                        /\ \A n \in issued : n[1] = loc[t].session
                              => Id32(n) # Id32(Number(t))
      BY DEF UniqueIds
    <2> DEFINE s == loc[t].session
               q == loc[t].sequence
    <2>1. \A n \in issued : n[1] = s => n[2] < q
      BY DEF Inv, PcInv, Pending, At, Above
    <2>2. /\ s \in 0 .. MaxSession /\ q \in 0 .. SeqMod - 1
          /\ \A n \in issued : n[2] \in 0 .. SeqMod - 1
      BY DEF Inv, TypeOK, Locals
    <2>3. SeqMod \in Nat
      BY PointFacts
    <2> HIDE DEF s, q
    <2>4. <<s, q>> \notin issued
      BY <2>1, <2>2, <2>3
    <2>5. ASSUME NEW n \in issued, n[1] = s PROVE Mix(n[1], n[2]) # Mix(s, q)
      <3>1. n[2] # q
        BY <2>1, <2>2, <2>3, <2>5
      <3> QED
        BY <2>2, <2>5, <3>1, MixAssumption
    <2>6. Number(t) = <<s, q>> /\ Number(t)[1] = s /\ Number(t)[2] = q
      BY DEF Number, s, q
    <2> QED
      BY <2>4, <2>5, <2>6 DEF Id32, s
  <1> QED
    BY InitInv, <1>1, <1>2, PTL DEF Spec

\* With one caller RTC memory is always enough to resume after every number
\* issued: a reset at any moment loses nothing.
THEOREM CopyCovers == SingleCaller => (Spec => []RtcCovers)
  <1> SUFFICES ASSUME SingleCaller PROVE Spec => []RtcCovers
    OBVIOUS
  <1>1. Inv /\ [Next]_vars => Inv'
    BY InvStep
  <1>2. Inv => RtcCovers
    BY DEF Inv
  <1> QED
    BY InitInv, <1>1, <1>2, PTL DEF Spec
=============================================================================
