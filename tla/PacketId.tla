------------------------------ MODULE PacketId ------------------------------
(***************************************************************************)
(* The packet id generator of lunarcore/lunar/packet_id.c: a session and a *)
(* sequence number in RAM (atomics), copied now and then to RTC memory,    *)
(* which survives deep sleep and resets.  On waking the sequence skips     *)
(* WAKE_SEQUENCE_SKIP numbers ahead of the copy.                           *)
(*                                                                         *)
(* Every atomic operation and every RTC write is a step of its own, so     *)
(* other threads and a reset may come between any two.                     *)
(*                                                                         *)
(* A call draws a number, the pair of session and sequence.                *)
(* next_packet_id_64() returns it as it is; next_packet_id() hashes the 64 *)
(* bits to 32, one to one for the sequences of a session, so that numbers  *)
(* of different sessions may get the same id.  generate_session_id() mixes *)
(* hardware random numbers: a new session is taken to be one never used    *)
(* before, and so is the content of RTC memory after a power failure.      *)
(***************************************************************************)
EXTENDS Integers

CONSTANTS
    Thread,       \* the callers
    Ops,          \* the entry points they call
    Window,       \* WAKE_SEQUENCE_SKIP, and the period 0xFF + 1 of the copies
    MaxSequence,  \* MAX_SEQUENCE, two less than the range of a uint32_t
    Mix(_, _),    \* mix32(session ^ (sequence * 0x85EBCA6B))
    MaxSession,   \* bound: sessions
    MaxResets     \* bound: resets and power failures

ASSUME OpsAssumption ==
    Ops # {} /\ Ops \subseteq {"id32", "id64", "rotate", "info"}
ASSUME SequenceAssumption ==
    /\ Window \in Nat \ {0} /\ MaxSequence \in Nat
    /\ MaxSequence > Window
    /\ MaxSequence % Window # 0 /\ (MaxSequence + 1) % Window # 0
ASSUME SessionBound == MaxSession \in Nat /\ MaxResets \in Nat

SeqMod == MaxSequence + 2

\* For one session different sequences get different ids: 0x85EBCA6B is odd,
\* and so are the factors of mix32(), whose other steps, x ^= x >> k, lose
\* nothing either.
ASSUME MixAssumption ==
    \A s \in 0 .. MaxSession : \A q, r \in 0 .. SeqMod - 1 :
        Mix(s, q) = Mix(s, r) => q = r

VARIABLES
    session,   \* PACKET_ID_SESSION
    sequence,  \* PACKET_ID_SEQUENCE
    initialized,
    rtc,       \* the RTC slots MAGIC, SESSION_HI and SEQUENCE
    pc, op,    \* per thread: where it is, and in which call
    loc,       \* per thread: its locals session_id, sequence and new_session
    sessions,  \* number of sessions generated
    resets,
    issued     \* history: the numbers whose ids were returned

vars == <<session, sequence, initialized, rtc, pc, op, loc, sessions, resets,
          issued>>

InInit == {"init", "initSession", "initSeq", "initRtcSession", "initRtcSeq"}
InCall == {"fetch", "load", "rotate", "rotSeq", "rotRtcSession", "rotRtcSeq",
           "persistSession", "persistSeq", "return"}

\* RTC memory after a power failure: anything but the magic number.
Garbage(s, q) == [magic |-> FALSE, session |-> s, sequence |-> q]

Init ==
    /\ session = 0 /\ sequence = 0 /\ initialized = FALSE
    /\ \E q \in 0 .. SeqMod - 1 : rtc = Garbage(0, q)
    /\ pc = [t \in Thread |-> "idle"]
    /\ op = [t \in Thread |-> CHOOSE o \in Ops : TRUE]
    /\ loc = [t \in Thread |-> [session |-> 0, sequence |-> 0, new |-> 0]]
    /\ sessions = 0 /\ resets = 0
    /\ issued = {}

Goto(t, l) == pc' = [pc EXCEPT ![t] = l]
At(t, l)   == pc[t] = l

-----------------------------------------------------------------------------
(* init()                                                                  *)

\* Where a call goes on after init().
AfterInit(o) == CASE o = "rotate" -> "rotate"
                  [] o = "info"   -> "idle"
                  [] OTHER        -> "fetch"

\* The test of INITIALIZED and the compare-and-exchange: the first caller sets
\* the flag and initializes, any other goes on.
Call(t, o) ==
    /\ At(t, "idle")
    /\ op' = [op EXCEPT ![t] = o]
    /\ initialized' = TRUE
    /\ Goto(t, IF initialized THEN AfterInit(o) ELSE "init")
    /\ UNCHANGED <<session, sequence, rtc, loc, sessions, resets, issued>>

\* Mutant: the sequence goes on where the copy was taken.
WakeSequenceNoSkip(stored) == stored

\* Mutant: the sum does not saturate.
WakeSequenceUnbounded(stored) == stored + Window

\* Continue the session WAKE_SEQUENCE_SKIP later; the uint32_t sum saturates.
WakeSequence(stored) ==
    IF stored + Window >= SeqMod THEN MaxSequence ELSE stored + Window

\* The RTC slots are read; MAGIC is written first if it was not there.
InitRead(t) ==
    /\ At(t, "init")
    /\ IF rtc.magic /\ rtc.sequence < MaxSequence
         THEN /\ loc' = [loc EXCEPT ![t].session = rtc.session,
                               ![t].sequence = WakeSequence(rtc.sequence)]
              /\ UNCHANGED sessions
         ELSE /\ sessions < MaxSession
              /\ sessions' = sessions + 1
              /\ loc' = [loc EXCEPT ![t].session = sessions + 1,
                                    ![t].sequence = 0]
    /\ rtc' = [rtc EXCEPT !.magic = TRUE]
    /\ Goto(t, "initSession")
    /\ UNCHANGED <<session, sequence, initialized, op, resets, issued>>

InitSession(t) ==
    /\ At(t, "initSession")
    /\ session' = loc[t].session
    /\ Goto(t, "initSeq")
    /\ UNCHANGED <<sequence, initialized, rtc, op, loc, sessions, resets,
                   issued>>

InitSeq(t) ==
    /\ At(t, "initSeq")
    /\ sequence' = loc[t].sequence
    /\ Goto(t, "initRtcSession")
    /\ UNCHANGED <<session, initialized, rtc, op, loc, sessions, resets,
                   issued>>

InitRtcSession(t) ==
    /\ At(t, "initRtcSession")
    /\ rtc' = [rtc EXCEPT !.session = loc[t].session]
    /\ Goto(t, "initRtcSeq")
    /\ UNCHANGED <<session, sequence, initialized, op, loc, sessions, resets,
                   issued>>

InitRtcSeq(t) ==
    /\ At(t, "initRtcSeq")
    /\ rtc' = [rtc EXCEPT !.sequence = loc[t].sequence]
    /\ Goto(t, AfterInit(op[t]))
    /\ UNCHANGED <<session, sequence, initialized, op, loc, sessions, resets,
                   issued>>

-----------------------------------------------------------------------------
(* next_packet_id() and next_packet_id_64()                                *)

Fetch(t) ==
    /\ At(t, "fetch")
    /\ loc' = [loc EXCEPT ![t].sequence = sequence]
    /\ sequence' = (sequence + 1) % SeqMod
    /\ Goto(t, "load")
    /\ UNCHANGED <<session, initialized, rtc, op, sessions, resets, issued>>

\* Mutant: the period of the copies is twice what waking skips.
MustPersistRarely(o, q) == o = "id32" /\ q % (2 * Window) = 0

\* Only next_packet_id() copies the state to RTC memory.
MustPersist(o, q) == o = "id32" /\ q % Window = 0

\* After the test for rotation.
AfterRotate(o, q) == IF MustPersist(o, q) THEN "persistSession" ELSE "return"

Load(t) ==
    /\ At(t, "load")
    /\ loc' = [loc EXCEPT ![t].session = session]
    /\ Goto(t, IF loc[t].sequence >= MaxSequence THEN "rotate"
               ELSE AfterRotate(op[t], loc[t].sequence))
    /\ UNCHANGED <<session, sequence, initialized, rtc, op, sessions, resets,
                   issued>>

PersistSession(t) ==
    /\ At(t, "persistSession")
    /\ rtc' = [rtc EXCEPT !.session = loc[t].session]
    /\ Goto(t, "persistSeq")
    /\ UNCHANGED <<session, sequence, initialized, op, loc, sessions, resets,
                   issued>>

PersistSeq(t) ==
    /\ At(t, "persistSeq")
    /\ rtc' = [rtc EXCEPT !.sequence = loc[t].sequence]
    /\ Goto(t, "return")
    /\ UNCHANGED <<session, sequence, initialized, op, loc, sessions, resets,
                   issued>>

\* The number a call has drawn ...
Number(t) == <<loc[t].session, loc[t].sequence>>

\* ... and the id next_packet_id() makes of it.
Id32(n) == Mix(n[1], n[2])

Return(t) ==
    /\ At(t, "return")
    /\ issued' = issued \cup {Number(t)}
    /\ Goto(t, "idle")
    /\ UNCHANGED <<session, sequence, initialized, rtc, op, loc, sessions,
                   resets>>

-----------------------------------------------------------------------------
(* rotate_session_internal(): from a call that reached MAX_SEQUENCE, or    *)
(* from rotate_session().                                                  *)

Rotate(t) ==
    /\ At(t, "rotate")
    /\ sessions < MaxSession
    /\ sessions' = sessions + 1
    /\ session' = sessions + 1
    /\ loc' = [loc EXCEPT ![t].new = sessions + 1]
    /\ Goto(t, "rotSeq")
    /\ UNCHANGED <<sequence, initialized, rtc, op, resets, issued>>

RotSeq(t) ==
    /\ At(t, "rotSeq")
    /\ sequence' = 0
    /\ Goto(t, "rotRtcSession")
    /\ UNCHANGED <<session, initialized, rtc, op, loc, sessions, resets,
                   issued>>

RotRtcSession(t) ==
    /\ At(t, "rotRtcSession")
    /\ rtc' = [rtc EXCEPT !.session = loc[t].new]
    /\ Goto(t, "rotRtcSeq")
    /\ UNCHANGED <<session, sequence, initialized, op, loc, sessions, resets,
                   issued>>

RotRtcSeq(t) ==
    /\ At(t, "rotRtcSeq")
    /\ rtc' = [rtc EXCEPT !.sequence = 0]
    /\ Goto(t, IF op[t] = "rotate" THEN "idle"
               ELSE AfterRotate(op[t], loc[t].sequence))
    /\ UNCHANGED <<session, sequence, initialized, op, loc, sessions, resets,
                   issued>>

Step(t) ==
    \/ InitRead(t) \/ InitSession(t) \/ InitSeq(t)
    \/ InitRtcSession(t) \/ InitRtcSeq(t)
    \/ Fetch(t) \/ Load(t) \/ PersistSession(t) \/ PersistSeq(t) \/ Return(t)
    \/ Rotate(t) \/ RotSeq(t) \/ RotRtcSession(t) \/ RotRtcSeq(t)

-----------------------------------------------------------------------------
\* invalidate_rtc()
InvalidateRtc ==
    /\ rtc.magic
    /\ rtc' = [rtc EXCEPT !.magic = FALSE]
    /\ UNCHANGED <<session, sequence, initialized, pc, op, loc, sessions,
                   resets, issued>>

RamLost ==
    /\ resets < MaxResets
    /\ resets' = resets + 1
    /\ session' = 0 /\ sequence' = 0 /\ initialized' = FALSE
    /\ pc' = [t \in Thread |-> "idle"]
    /\ UNCHANGED <<op, loc, issued>>

\* Deep sleep or a reset: RTC memory is kept.
Reset == RamLost /\ UNCHANGED <<rtc, sessions>>

\* Power failure: RTC memory is lost, too.
PowerFail ==
    /\ RamLost
    /\ sessions < MaxSession
    /\ sessions' = sessions + 1
    /\ \E q \in 0 .. SeqMod - 1 : rtc' = Garbage(sessions + 1, q)

Next ==
    \/ \E t \in Thread : Step(t) \/ \E o \in Ops : Call(t, o)
    \/ InvalidateRtc \/ Reset \/ PowerFail

Spec == Init /\ [][Next]_vars

-----------------------------------------------------------------------------
(* Properties                                                              *)

Locals == [session : 0 .. MaxSession, sequence : 0 .. SeqMod - 1,
           new : 0 .. MaxSession]

\* Type correctness: the sequence keeps within 32 bits.
TypeOK ==
    /\ session \in 0 .. MaxSession /\ sequence \in 0 .. SeqMod - 1
    /\ initialized \in BOOLEAN
    /\ rtc \in [magic : BOOLEAN, session : 0 .. MaxSession,
                sequence : 0 .. SeqMod - 1]
    /\ pc \in [Thread -> {"idle"} \cup InInit \cup InCall]
    /\ op \in [Thread -> Ops]
    /\ loc \in [Thread -> Locals]
    /\ sessions \in 0 .. MaxSession /\ resets \in 0 .. MaxResets
    /\ issued \subseteq (0 .. MaxSession) \X (0 .. SeqMod - 1)

\* No number is ever drawn twice, over resets, power failures and rotations,
\* wherever between two RTC writes they come; so the 32-bit ids of a session,
\* which goes on over resets, all differ.
UniqueIds ==
    \A t \in Thread : At(t, "return") =>
        /\ Number(t) \notin issued
        /\ \A n \in issued : n[1] = loc[t].session => Id32(n) # Id32(Number(t))

\* The same of all the 32-bit ids, whatever their sessions.
Unique32 ==
    \A t \in Thread : At(t, "return") =>
        \A n \in issued : Id32(n) # Id32(Number(t))

\* The numbers issued in session s all have a sequence below q.
Above(s, q) == \A n \in issued : n[1] = s => n[2] < q

\* What RTC memory holds is always enough to resume after every number issued in
\* its session: less than one period behind, and short of MAX_SEQUENCE.
RtcCovers ==
    /\ Above(rtc.session, rtc.sequence + Window)
    /\ Above(rtc.session, MaxSequence)

\* Callers wait until the state has been restored: "Another thread is
\* initializing, wait for completion".
InitCompletes ==
    \A s, t \in Thread : ~ (pc[s] \in InCall /\ pc[t] \in InInit)
=============================================================================
