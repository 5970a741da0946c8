----------------------------- MODULE MeshConfig -----------------------------
(***************************************************************************)
(* The configuration of a MeshLoRaLite node (meshloralite.c): cfg in RAM,  *)
(* its image in a flash page, the CLI commands set, save, load and reboot, *)
(* and setup().  A power failure may come at any step, also between the    *)
(* erase of the page and any of the half-words programmed after it.        *)
(*                                                                         *)
(* Of mesh_cfg_t the fields with a decision of their own are kept: freq,   *)
(* ttl, bw and chan, one word each.  The CRC is the last word; it is taken *)
(* to tell any two images apart, which CRC-16 does up to collisions.  Of a *)
(* frequency it matters only whether the radio can be tuned to it.         *)
(***************************************************************************)
EXTENDS Integers, Sequences

CONSTANTS
    TtlArgs,    \* integers typed after "set ttl"
    BwArgs,     \* integers typed after "set bw"
    ChanArgs    \* integers typed after "set chan"

ASSUME ArgAssumption == TtlArgs \cup BwArgs \cup ChanArgs \subseteq Int

\* What a store into a uint8_t field keeps.
uint8(v) == v % 256

BwAccepted == {7, 10, 15, 20, 31, 41, 62, 125, 250, 500}

Byte   == 0 .. 255
Freq   == {"in band", "outside"}
Config == [freq : Freq, ttl : Byte, bw : Byte, chan : Byte]

Defaults == [freq |-> "in band", ttl |-> 4, bw |-> 250, chan |-> 0]

VARIABLES
    cfg,       \* cfg in RAM
    meshChan,  \* the channel the protocol uses
    flash,     \* the words of the page: <<freq, ttl, bw, chan, crc>>
    pc,        \* "loop", "saving" or "begin failed"
    saved      \* history: the last one saveConfig() reported as saved

vars == <<cfg, meshChan, flash, pc, saved>>

\* The image saveConfig() programs, word by word, and an erased page.
Words(c) == <<c.freq, c.ttl, c.bw, c.chan, c>>
Erased   == << >>

Content(f) == [freq |-> f[1], ttl |-> f[2], bw |-> f[3], chan |-> f[4]]

\* Mutant: a page that has been programmed at all is taken as valid.
CrcOkAny(f) == Len(f) > 3

\* loadConfig(): the CRC over the words matches the one stored after them.
CrcOk(f) == Len(f) = 5 /\ f[5] = Content(f)

\* radio.begin() (external): a bandwidth the radio does not have and a
\* frequency it cannot be tuned to are refused.
RadioBegin(c) == c.bw \in BwAccepted /\ c.freq = "in band"

\* setup(): the configuration it starts with, and where it ends up.
SetupCfg == IF CrcOk(flash) THEN Content(flash) ELSE Defaults

Setup ==
    /\ cfg' = SetupCfg
    /\ meshChan' = SetupCfg.chan
    /\ pc' = IF RadioBegin(SetupCfg) THEN "loop" ELSE "begin failed"

Init ==
    /\ flash = Erased
    /\ saved = Defaults
    /\ cfg = Defaults
    /\ meshChan = Defaults.chan
    /\ pc = "loop"

-----------------------------------------------------------------------------
\* set freq <v>: whatever atol() makes of the text
SetFreq(f) ==
    /\ pc = "loop"
    /\ cfg' = [cfg EXCEPT !.freq = f]
    /\ UNCHANGED <<meshChan, flash, pc, saved>>

\* set ttl <v>
SetTtl(v) ==
    /\ pc = "loop" /\ v <= 10
    /\ cfg' = [cfg EXCEPT !.ttl = uint8(v)]
    /\ UNCHANGED <<meshChan, flash, pc, saved>>

\* Mutant: the argument is not compared with the list.
SetBwUnchecked(v) ==
    /\ pc = "loop"
    /\ cfg' = [cfg EXCEPT !.bw = uint8(v)]
    /\ UNCHANGED <<meshChan, flash, pc, saved>>

\* set bw <v>
SetBw(v) ==
    /\ pc = "loop" /\ v \in BwAccepted
    /\ cfg' = [cfg EXCEPT !.bw = uint8(v)]
    /\ UNCHANGED <<meshChan, flash, pc, saved>>

\* Mutant: only the configuration is changed.
SetChanLater(v) ==
    /\ pc = "loop" /\ v >= 0 /\ v <= 255
    /\ cfg' = [cfg EXCEPT !.chan = v]
    /\ UNCHANGED <<meshChan, flash, pc, saved>>

\* set chan <v>: effective at once
SetChan(v) ==
    /\ pc = "loop" /\ v >= 0 /\ v <= 255
    /\ cfg' = [cfg EXCEPT !.chan = v]
    /\ meshChan' = v
    /\ UNCHANGED <<flash, pc, saved>>

\* load: cfg is replaced, meshChan is not
Load ==
    /\ pc = "loop" /\ CrcOk(flash)
    /\ cfg' = Content(flash)
    /\ UNCHANGED <<meshChan, flash, pc, saved>>

\* save: the erase; if it fails the page is left alone.
SaveErase ==
    /\ pc = "loop"
    /\ flash' = Erased
    /\ pc' = "saving"
    /\ UNCHANGED <<cfg, meshChan, saved>>

\* save: one more half-word; after the last one the configuration is saved.
SaveProgram ==
    /\ pc = "saving"
    /\ flash' = Append(flash, Words(cfg)[Len(flash) + 1])
    /\ pc' = IF Len(flash') = 5 THEN "loop" ELSE "saving"
    /\ saved' = IF Len(flash') = 5 THEN cfg ELSE saved
    /\ UNCHANGED <<cfg, meshChan>>

\* save: HAL_FLASH_Program() fails, the rest is not written.
SaveFails ==
    /\ pc = "saving"
    /\ pc' = "loop"
    /\ UNCHANGED <<cfg, meshChan, flash, saved>>

\* reboot, or the power fails at any point.
Reset == Setup /\ UNCHANGED <<flash, saved>>

Next ==
    \/ \E f \in Freq : SetFreq(f)
    \/ \E v \in TtlArgs : SetTtl(v)
    \/ \E v \in BwArgs : SetBw(v)
    \/ \E v \in ChanArgs : SetChan(v)
    \/ Load \/ SaveErase \/ SaveProgram \/ SaveFails \/ Reset

Spec == Init /\ [][Next]_vars

-----------------------------------------------------------------------------
(* Properties                                                              *)

\* Type correctness: every field fits its type.
TypeOK ==
    /\ cfg \in Config /\ saved \in Config
    /\ meshChan \in Byte
    /\ pc \in {"loop", "saving", "begin failed"}
    /\ Len(flash) <= 5

\* A node never comes up with a half-written configuration: setup() starts
\* with the last configuration that was saved completely or, where a later
\* save was cut short by a failure of the power or of the programming, with
\* the defaults.
BootsWhole ==
    [][Reset => \/ cfg' = saved
                \/ Len(flash) < 5 /\ cfg' = Defaults]_vars

\* The channel filter uses the configured channel: "The node only processes
\* messages whose `chan` matches the currently configured channel."
ChannelIsConfigured == meshChan = cfg.chan

\* The two copies of the channel, cfg.chan and meshChan, agree until a load
\* separates them: neither commands nor any reset or failed save do.  (What
\* a text too long for pend[] does to meshChan is in MeshLoRaLite.)
OnlyLoadSplitsChannel ==
    [][meshChan = cfg.chan /\ meshChan' # cfg'.chan => Load]_vars

\* A node whose radio works and that hangs in setup() has saved the one
\* bandwidth of the list that does not fit a byte, or a frequency outside the
\* band, which set freq does not check; everything else the CLI accepts
\* starts again, and a save that was cut short never keeps it from starting.
HangsOnlyForRadio ==
    pc = "begin failed" => saved.bw = uint8(500) \/ saved.freq = "outside"

\* "TTL max 10": the ttl in use is one that set ttl is meant to accept.
TtlWithinMax == cfg.ttl <= 10

\* A node configured through the CLI starts again after a reboot: the
\* bandwidths "7.8,10.4,15.6,20.8,31.25,41.7,62.5,125,250,500" that set bw
\* accepts are ones radio.begin() accepts, and so are the frequencies.
StartsAgain == pc # "begin failed"
=============================================================================
