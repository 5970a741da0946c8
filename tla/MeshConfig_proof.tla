-------------------------- MODULE MeshConfig_proof --------------------------
(***************************************************************************)
(* Proofs about the configuration of a MeshLoRaLite node, for any arguments *)
(* typed after the commands and any number of saves, failures and resets.  *)
(*                                                                         *)
(* The argument is about the page.  While a save is under way it holds the *)
(* first words of cfg, fewer than five of them, and cfg cannot change; so  *)
(* the fifth word completes the image of the configuration that becomes    *)
(* saved, and a page with five words is always the image of saved.         *)
(***************************************************************************)
EXTENDS MeshConfig, TLAPS

\* The bandwidths that cfg.bw may hold: the list, cut to a byte.
StoredBw == (BwAccepted \ {500}) \cup {uint8(500)}

PageOK ==
    /\ flash \in Seq(Freq \cup Byte \cup Config) /\ Len(flash) <= 5
    /\ Len(flash) = 5 => flash = Words(saved)
    /\ pc = "saving" => /\ Len(flash) < 5
                        /\ \A i \in 1 .. Len(flash) : flash[i] = Words(cfg)[i]

BwOK ==
    /\ cfg.bw \in StoredBw /\ saved.bw \in StoredBw
    /\ HangsOnlyForRadio

Inv == TypeOK /\ PageOK /\ BwOK

-----------------------------------------------------------------------------
\* A store into a uint8_t field leaves a byte there.
LEMMA uint8Type == \A v \in Int : uint8(v) \in Byte
  BY DEF uint8, Byte

\* What set bw stores of a number of its list.
LEMMA uint8Bw == \A v \in BwAccepted : uint8(v) \in StoredBw
  BY DEF uint8, StoredBw, BwAccepted

\* The image holds the four fields, and the CRC of an image matches.
LEMMA WordsContent ==
  ASSUME NEW c \in Config
  PROVE  /\ Words(c) \in Seq(Freq \cup Byte \cup Config) /\ Len(Words(c)) = 5
         /\ Content(Words(c)) = c
         /\ CrcOk(Words(c))
  <1>1. /\ Len(Words(c)) = 5 /\ Words(c)[1] = c.freq /\ Words(c)[2] = c.ttl
        /\ Words(c)[3] = c.bw /\ Words(c)[4] = c.chan /\ Words(c)[5] = c
    BY DEF Words
  <1>2. Words(c) \in Seq(Freq \cup Byte \cup Config)
    BY DEF Words, Config
  <1>3. Content(Words(c)) = c
    BY <1>1 DEF Content, Config
  <1> QED
    BY <1>1, <1>2, <1>3 DEF CrcOk

\* What setup() starts with: the saved configuration if the page is complete,
\* and the defaults if it is not.
LEMMA SetupCfgIs ==
  ASSUME TypeOK, PageOK
  PROVE  SetupCfg = IF Len(flash) = 5 THEN saved ELSE Defaults
  <1>1. CASE Len(flash) = 5
    <2>1. flash = Words(saved) /\ saved \in Config
      BY <1>1 DEF TypeOK, PageOK
    <2> QED
      BY <1>1, <2>1, WordsContent DEF SetupCfg
  <1>2. CASE Len(flash) # 5
    BY <1>2 DEF SetupCfg, CrcOk
  <1> QED
    BY <1>1, <1>2

\* The defaults are a configuration that starts.
LEMMA DefaultsType == Defaults \in Config /\ Defaults.bw \in BwAccepted
                        /\ Defaults.bw \in StoredBw
                        /\ Defaults.freq = "in band"
  BY DEF Defaults, Config, Byte, Freq, BwAccepted, StoredBw

-----------------------------------------------------------------------------
\* The initial state satisfies the invariant.
LEMMA InitInv == Init => Inv
  <1> SUFFICES ASSUME Init PROVE Inv
    OBVIOUS
  <1>1. cfg = Defaults /\ saved = Defaults /\ meshChan = 0 /\ pc = "loop"
        /\ flash = << >>
    BY DEF Init, Erased, Defaults
  <1>a. Len(flash) = 0 /\ 0 <= 5 /\ 0 \in Byte
    BY <1>1 DEF Byte
  <1>2. TypeOK
    BY <1>1, <1>a, DefaultsType DEF TypeOK
  <1>3. PageOK
    BY <1>1 DEF PageOK
  <1>4. BwOK
    BY <1>1, DefaultsType DEF BwOK, HangsOnlyForRadio
  <1> QED
    BY <1>2, <1>3, <1>4 DEF Inv

\* The commands that change cfg and leave the page alone.
LEMMA SetInv ==
  ASSUME Inv, NEW c \in Config, cfg' = c, c.bw \in StoredBw, meshChan' \in Byte,
         pc = "loop", UNCHANGED <<flash, pc, saved>>
  PROVE  Inv'
  <1>1. TypeOK'
    BY DEF Inv, TypeOK
  <1>2. PageOK'
    BY DEF Inv, PageOK
  <1>3. BwOK'
    BY DEF Inv, BwOK, HangsOnlyForRadio
  <1> QED
    BY <1>1, <1>2, <1>3 DEF Inv

\* A word that is programmed, or fails to be, keeps the page as PageOK says.
LEMMA SaveProgramInv ==
  ASSUME Inv, SaveProgram
  PROVE  Inv'
  <1> USE DEF Inv
  <1>a. /\ pc = "saving" /\ Len(flash) < 5 /\ flash \in Seq(Freq \cup Byte \cup Config)
        /\ \A i \in 1 .. Len(flash) : flash[i] = Words(cfg)[i]
    BY DEF SaveProgram, PageOK
  <1>b. cfg \in Config
    BY DEF TypeOK
  <1>c. Len(flash) \in Nat
    BY <1>a
  <1>d. Len(flash) \in 0 .. 4
    <2> DEFINE n == Len(flash)
    <2>1. n \in Nat /\ n < 5
      BY <1>a, <1>c
    <2> HIDE DEF n
    <2>2. n \in 0 .. 4
      BY <2>1
    <2> QED
      BY <2>2 DEF n
  <1>1. /\ pc = "saving" /\ Len(flash) < 5 /\ flash \in Seq(Freq \cup Byte \cup Config)
        /\ cfg \in Config /\ Len(flash) \in 0 .. 4
        /\ \A i \in 1 .. Len(flash) : flash[i] = Words(cfg)[i]
    BY <1>a, <1>b, <1>d
  <1>2. /\ Words(cfg) \in Seq(Freq \cup Byte \cup Config) /\ Len(Words(cfg)) = 5
    BY <1>1, WordsContent
  <1> DEFINE w == Words(cfg)
  <1>3. /\ flash' = Append(flash, w[Len(flash) + 1])
        /\ pc' = IF Len(flash') = 5 THEN "loop" ELSE "saving"
        /\ saved' = IF Len(flash') = 5 THEN cfg ELSE saved
        /\ cfg' = cfg /\ meshChan' = meshChan
    BY DEF SaveProgram
  <1>4. w \in Seq(Freq \cup Byte \cup Config) /\ Len(w) = 5
    BY <1>2
  <1>w. Words(cfg) = w /\ Words(cfg') = w
    BY <1>3
  <1> HIDE DEF w
  <1>5. /\ flash' \in Seq(Freq \cup Byte \cup Config) /\ Len(flash') = Len(flash) + 1
        /\ \A i \in 1 .. Len(flash') : flash'[i] = w[i]
    BY <1>1, <1>3, <1>4, <1>w
  <1>6. Len(flash') = 5 => flash' = w
    BY <1>4, <1>5
  <1>7. Len(flash') <= 5 /\ Len(flash') \in Nat
    BY <1>1, <1>5
  <1>8. TypeOK'
    BY <1>3, <1>7 DEF TypeOK
  <1>9. PageOK'
    <2>1. Len(flash') = 5 => flash' = Words(saved)'
      BY <1>3, <1>6, <1>w
    <2>2. (pc = "saving")' => /\ Len(flash') < 5
                              /\ \A i \in 1 .. Len(flash') : flash'[i] = Words(cfg)'[i]
      BY <1>3, <1>5, <1>7, <1>w
    <2> QED
      BY <1>5, <1>7, <2>1, <2>2 DEF PageOK
  <1>10. BwOK'
    BY <1>3 DEF BwOK, HangsOnlyForRadio
  <1> QED
    BY <1>8, <1>9, <1>10

\* setup() after a reset at any point: it starts from saved or the defaults, or
\* hangs for the bandwidth or the frequency.
LEMMA ResetInv ==
  ASSUME Inv, Reset
  PROVE  Inv'
  <1>1. SetupCfg = IF Len(flash) = 5 THEN saved ELSE Defaults
    BY SetupCfgIs DEF Inv
  <1>2. /\ cfg' = SetupCfg /\ meshChan' = SetupCfg.chan
        /\ pc' = IF RadioBegin(SetupCfg) THEN "loop" ELSE "begin failed"
        /\ flash' = flash /\ saved' = saved
    BY DEF Reset, Setup
  <1>3. SetupCfg \in Config /\ SetupCfg.bw \in StoredBw
    BY <1>1, DefaultsType DEF Inv, TypeOK, BwOK
  <1>4. ~ RadioBegin(SetupCfg) =>
          saved.bw = uint8(500) \/ saved.freq = "outside"
    <2>1. SetupCfg.freq \in Freq
      BY <1>3 DEF Config
    <2> QED
      BY <1>1, <1>3, <2>1, DefaultsType
      DEF RadioBegin, Inv, BwOK, StoredBw, Freq
  <1>5. TypeOK'
    BY <1>2, <1>3 DEF Inv, TypeOK, Config
  <1>6. PageOK'
    BY <1>2 DEF Inv, PageOK
  <1>7. BwOK'
    BY <1>2, <1>3, <1>4 DEF Inv, BwOK, HangsOnlyForRadio
  <1> QED
    BY <1>5, <1>6, <1>7 DEF Inv

\* Every step keeps the invariant.
LEMMA NextInv == Inv /\ [Next]_vars => Inv'
  <1> SUFFICES ASSUME Inv, [Next]_vars PROVE Inv'
    OBVIOUS
  <1>t. /\ cfg \in Config /\ meshChan \in Byte /\ cfg.bw \in StoredBw
    BY DEF Inv, TypeOK, BwOK
  <1>0. ASSUME NEW f \in Freq, SetFreq(f) PROVE Inv'
    <2>1. /\ [cfg EXCEPT !.freq = f] \in Config
          /\ [cfg EXCEPT !.freq = f].bw \in StoredBw
      BY <1>t DEF Config
    <2> QED
      BY <1>0, <1>t, <2>1, SetInv DEF SetFreq
  <1>1. ASSUME NEW v \in TtlArgs, SetTtl(v) PROVE Inv'
    <2>1. v \in Int
      BY ArgAssumption
    <2>2. uint8(v) \in Byte
      BY <2>1, uint8Type
    <2>3. /\ [cfg EXCEPT !.ttl = uint8(v)] \in Config
          /\ [cfg EXCEPT !.ttl = uint8(v)].bw \in StoredBw
      BY <1>t, <2>2 DEF Config
    <2> QED
      BY <1>1, <1>t, <2>3, SetInv DEF SetTtl
  <1>2. ASSUME NEW v \in BwArgs, SetBw(v) PROVE Inv'
    <2>1. v \in BwAccepted /\ v \in Int
      BY <1>2, ArgAssumption DEF SetBw
    <2>2. uint8(v) \in Byte /\ uint8(v) \in StoredBw
      BY <2>1, uint8Type, uint8Bw
    <2>3. /\ [cfg EXCEPT !.bw = uint8(v)] \in Config
          /\ [cfg EXCEPT !.bw = uint8(v)].bw \in StoredBw
      BY <1>t, <2>2 DEF Config
    <2> QED
      BY <1>2, <1>t, <2>3, SetInv DEF SetBw
  <1>3. ASSUME NEW v \in ChanArgs, SetChan(v) PROVE Inv'
    <2>1. v \in Byte
      BY <1>3, ArgAssumption DEF SetChan, Byte
    <2>2. /\ [cfg EXCEPT !.chan = v] \in Config
          /\ [cfg EXCEPT !.chan = v].bw \in StoredBw
      BY <1>t, <2>1 DEF Config
    <2> QED
      BY <1>3, <2>1, <2>2, SetInv DEF SetChan
  <1>4. CASE Load
    <2>1. CrcOk(flash) /\ cfg' = Content(flash)
      BY <1>4 DEF Load
    <2>2. Content(flash) = saved
      BY <2>1, WordsContent DEF CrcOk, Inv, PageOK, TypeOK
    <2>3. saved \in Config /\ saved.bw \in StoredBw
      BY DEF Inv, TypeOK, BwOK
    <2> QED
      BY <1>4, <1>t, <2>1, <2>2, <2>3, SetInv DEF Load
  <1>5. CASE SaveErase
    <2>1. /\ flash' = << >> /\ pc' = "saving"
          /\ UNCHANGED <<cfg, meshChan, saved>>
      BY <1>5 DEF SaveErase, Erased
    <2>a. Len(flash') = 0 /\ 0 <= 5
      BY <2>1
    <2>2. TypeOK'
      BY <2>1, <2>a DEF Inv, TypeOK
    <2>3. PageOK'
      BY <2>1 DEF PageOK
    <2>4. BwOK'
      BY <2>1 DEF Inv, BwOK, HangsOnlyForRadio
    <2> QED
      BY <2>2, <2>3, <2>4 DEF Inv
  <1>6. CASE SaveProgram
    BY <1>6, SaveProgramInv
  <1>7. CASE SaveFails
    <2>1. pc' = "loop" /\ UNCHANGED <<cfg, meshChan, flash, saved>>
      BY <1>7 DEF SaveFails
    <2>2. TypeOK'
      BY <2>1 DEF Inv, TypeOK
    <2>3. PageOK'
      BY <2>1 DEF Inv, PageOK
    <2>4. BwOK'
      BY <2>1 DEF Inv, BwOK, HangsOnlyForRadio
    <2> QED
      BY <2>2, <2>3, <2>4 DEF Inv
  <1>8. CASE Reset
    BY <1>8, ResetInv
  <1>9. CASE UNCHANGED vars
    BY <1>9 DEF vars, Inv, TypeOK, PageOK, BwOK, HangsOnlyForRadio
  <1> QED
    BY <1>0, <1>1, <1>2, <1>3, <1>4, <1>5, <1>6, <1>7, <1>8, <1>9 DEF Next

\* The invariant holds in every reachable state.
THEOREM Invariance == Spec => []Inv
  BY InitInv, NextInv, PTL DEF Spec

\* Every field fits its uint8_t, with any integer typed after "set ttl".
THEOREM TypeCorrect == Spec => []TypeOK
  <1>1. Inv => TypeOK
    BY DEF Inv
  <1> QED
    BY <1>1, Invariance, PTL

\* A node whose radio works and that hangs in setup() has saved the bandwidth
\* 500, which does not fit the byte it is stored in, or a frequency outside
\* the band; all else that the CLI accepts starts again.
THEOREM HangIsRadio == Spec => []HangsOnlyForRadio
  <1>1. Inv => HangsOnlyForRadio
    BY DEF Inv, BwOK
  <1> QED
    BY <1>1, Invariance, PTL

\* Wherever a reset or a failed write comes, setup() starts with the whole of
\* the last saved configuration or with the defaults.
THEOREM BootIsWhole == Spec => BootsWhole
  <1>1. ASSUME Inv, [Next]_vars
        PROVE  [Reset => \/ cfg' = saved
                         \/ Len(flash) < 5 /\ cfg' = Defaults]_vars
    <2>1. SetupCfg = IF Len(flash) = 5 THEN saved ELSE Defaults
      BY <1>1, SetupCfgIs DEF Inv
    <2>2. Len(flash) \in Nat /\ Len(flash) <= 5
      BY <1>1 DEF Inv, PageOK
    <2>3. Len(flash) # 5 => Len(flash) < 5
      <3> DEFINE n == Len(flash)
      <3>1. n \in Nat /\ n <= 5
        BY <2>2
      <3> HIDE DEF n
      <3>2. n # 5 => n < 5
        BY <3>1
      <3> QED
        BY <3>2 DEF n
    <2>4. Reset => cfg' = saved \/ (Len(flash) < 5 /\ cfg' = Defaults)
      BY <2>1, <2>3 DEF Reset, Setup
    <2> QED
      BY <2>4
  <1> QED
    BY <1>1, Invariance, PTL DEF Spec, BootsWhole

\* The channel in use and the one in cfg are separated by a load only.
THEOREM ChannelSplit == Spec => OnlyLoadSplitsChannel
  <1>1. ASSUME Inv, [Next]_vars
        PROVE  [meshChan = cfg.chan /\ meshChan' # cfg'.chan => Load]_vars
    <2> SUFFICES ASSUME Next, meshChan = cfg.chan, meshChan' # cfg'.chan
                 PROVE  Load
      BY <1>1
    <2>t. cfg \in Config
      BY <1>1 DEF Inv, TypeOK
    <2>0. ASSUME NEW f \in Freq, SetFreq(f) PROVE Load
      BY <2>0, <2>t DEF SetFreq, Config
    <2>1. ASSUME NEW v \in TtlArgs, SetTtl(v) PROVE Load
      BY <2>1, <2>t DEF SetTtl, Config
    <2>2. ASSUME NEW v \in BwArgs, SetBw(v) PROVE Load
      BY <2>2, <2>t DEF SetBw, Config
    <2>3. ASSUME NEW v \in ChanArgs, SetChan(v) PROVE Load
      BY <2>3, <2>t DEF SetChan, Config
    <2>4. CASE SaveErase \/ SaveProgram \/ SaveFails
      BY <2>4 DEF SaveErase, SaveProgram, SaveFails
    <2>5. CASE Reset
      BY <2>5 DEF Reset, Setup
    <2> QED
      BY <2>0, <2>1, <2>2, <2>3, <2>4, <2>5 DEF Next
  <1> QED
    BY <1>1, Invariance, PTL DEF Spec, OnlyLoadSplitsChannel
=============================================================================
