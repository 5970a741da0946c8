# Formal models of LORA_FW

TLA+ models of the protocol logic in this repository, the TLC runs that check
them on small instances, and TLAPS proofs that their safety properties hold for
every size of the tables, any number of nodes and any number of steps.

LORA_FW is a collection of firmware for LoRa radios. Nearly all of its 1.7 million
lines are vendor libraries, device headers, board support and USB, FAT or RTOS
stacks, often in several copies, so the share of the repository that is modelled
is small by any count of lines. The logic of its own is in a few places:

| Part | Source | State | Operations |
|---|---|---|---|
| MeshLoRaLite node | `meshtastic_alternative/MeshLoRaLite/meshloralite.c` | `msgID`, ring `seen[]`, `pend[]`, `nodes[]`, `cfg` and its flash page, `meshChan`, RX and TX flags | CLI, beacon timer, `handlePkt`, `updateNode`, `pruneNodes`, `saveConfig`, `loadConfig`, `setup` |
| CubeCell repeater | `meshtastic_alternative/CubeCellRepeater/src/main.cpp` (ported in `cubecell_repeater/main.c`) | id list, transmit queue, packet to send, `dio1`, node names | `loop`, ISR, `PacketQueueClass`, `idStoreClass`, `perhapsSend`, `startReceive`, deep sleep |
| lunarcore packet ids | `lunarcore/lunar/packet_id.c` | atomics for session and sequence, copy in RTC memory | `init`, `next_packet_id`, `next_packet_id_64`, `rotate_session`, `invalidate_rtc` |
| lunarcore update | `lunarcore/lunar/ota.c` | `OtaManager` (state, header, hasher, handle, keys, minimum version), ESP-IDF's slots and boot record | `begin`, `write`, `verify_and_finish`, `abort`, confirm, rollback, reboot |
| lunarcore packet routing | `lunarcore/lunar/meshtastic/packet.c` | `PacketCache`, `AckTracker`, 32-bit clock | `route_packet`, `packet_cache_clear_old`, `ack_tracker_*` |
| lunarcore, rest | `lunarcore/lunar/*.c`, `meshtastic/` | sessions, contacts, router, RNode framing, phone protocol | not modelled, see below |
| meshtastic_lite | `meshtastic_lite/meshtastic_task.c` | SX1262 flags, mode and DIO1 mask, RF switch, `s_running`, queues, message history, node table | `meshy_rx_task`, `meshy_tx_task`, `meshy_start`, `meshy_stop`, `meshy_send_text` |
| mesh_sniffer | `mesh_sniffer/FW_*` | radio state machine, console | not modelled: drivers and I/O |
| MeshCore translation, M665_old, testing_projects, qlrs, zip files | | | third-party, hardware tests or archives: not modelled |

How they interact: the nodes of MeshLoRaLite share only the air. Inside a node
the CLI, the timers and the packet handler are branches of one `loop()`, and the
interrupt routines raise flags that it polls. The repeater has the same shape,
with a deep sleep that ends with an interrupt. `packet_id.c` is written for
several threads, with atomics, and for resets at any point. `ota.c` is called by
one host and drives the flash through ESP-IDF. The two tasks of meshtastic_lite
share the radio chip and its interrupt line without a mutex.

What is hard here, and what the properties are about: duplicates and losses on
the air, a small cache at its limit, restarts that forget counters, power
failures between two writes, an interrupt between a test and a sleep, a failed
transmission, clocks and counters that wrap, second copies of a value that must be
kept in step, texts longer than their place, two tasks on one radio, a stop that gives
up waiting. `PROJECT.json` lists each of these with its line and its properties.

## Modules

| Module | Models | Uses |
|---|---|---|
| `MeshLoRaLite` | a network of nodes: ids, duplicate cache, retry table, forwarding, ACKs, channels, restarts | |
| `MeshLoRaLite_proof` | proofs about it | `MeshLoRaLite` |
| `MeshNodeTable` | the neighbour table and its pruning | |
| `MeshNodeTable_proof` | proofs about it | `MeshNodeTable` |
| `MeshConfig` | the configuration, its flash page, the CLI, `setup()` | |
| `MeshConfig_proof` | proofs about it | `MeshConfig` |
| `RepeaterIds` | the repeater's list of ids | |
| `Repeater` | the repeater's loop, queue, interrupt and sleep | extends `RepeaterIds` |
| `Repeater_proof` | proofs about it | `Repeater` |
| `PacketId` | the packet id generator | |
| `PacketId_proof` | proofs about it | `PacketId` |
| `FirmwareUpdate` | abstract: an update with two slots | |
| `Ota` | the update manager, slots and boot loader | implements `FirmwareUpdate` (`UpdateSpec`) |
| `Ota_proof` | proofs about it | `Ota` |
| `DuplicateFilter` | abstract: a filter that remembers a window | |
| `PacketRouting` | packet cache and ACK tracker | implements `DuplicateFilter!Spec` (`FilterSpec`) |
| `PacketRouting_proof` | proofs about it | `PacketRouting` |
| `MeshyTask` | the RX and TX task, start and stop | its history implements `DuplicateFilter!StrictSpec` (`HistorySpec`) |
| `MeshyTask_proof` | proofs about it | `MeshyTask` |
| `MC...` | instances for TLC, with symmetry sets | |

Operators called "Mutant" in the comments are deliberate faults. None is used by
a specification: each shows that a property notices a plausible bug.

### MeshLoRaLite

One action is one branch of one node's `loop()`. Branches of different nodes
interleave. `startTransmit` delivers a frame to any subset of the other nodes, so
range, collisions, bad CRCs and deaf radios need no actions of their own; a radio
holds one frame and a later one overwrites it. `rxBuf[n]` is that frame, with
`rxFlag` set. `shouldForward`'s random number and RSSI are choices. Three
variables are histories: `seen[n].log` (everything marked), `shown` (displayed
messages) and `acked` (entries freed by an ACK); `origin` in a frame, the number of
the message among those of its sender, stands for its text and tells apart two
messages with the same `(src, id)`.

`genNodeID()` returns a CRC16, which may be anything: 0, with which a message with id 0
looks like an unused slot of `seen[]`, and 0xFFFF, the address of everyone, whose node
both acknowledges and forwards a broadcast. The runs have such nodes. `sendPktEx()`
copies a text into `payload[64]` without looking at its length: one that is too long
(`TextLen`) gives the next entry of `pend[]` an `id` and `dst` made of its characters,
and from the last entry reaches `lastPrune` and `meshChan`, which are declared next.
`meshChan` is then any channel; the effect on `lastPrune` is not carried over to
`MeshNodeTable`.

`processPending()` and `resend()` are not actions since no code calls them.

### MeshNodeTable

Time is the true time since boot and the code sees it modulo `ClockMod`. A tick
waits for a prune that is due, as `loop()` comes round far more often than every
`PRUNE` period.

### MeshConfig

The fields with a decision of their own: `freq`, `ttl`, `bw`, `chan`. Of a frequency
only its class counts, one the radio can be tuned to or one it refuses: `set freq`
stores whatever `atol()` returns. Saving is an erase followed by one step per word, and
`Reset` is possible in every state. The CRC is taken to tell any two images apart.

### RepeaterIds and Repeater

`RepeaterIds` is `idStoreClass`: the word that is 0 marks where the next id goes.
`Repeater` extends it and uses its `AddNew` and `AddKnown` as parts of its own
actions. `loop()` is cut where an interrupt makes a difference (`pc`: `top`,
`tx`, `wait`, `sending`, `rx`, `restart`, `end`, `asleep`). When a reception cannot be
started, `startReceive()` restarts the modem until it can (`ResumeRxFails`,
`RestartRx`), unless `applyModemConfig()` ends in its "Full Stop" (`FullStop`, `pc` =
`stopped`, for ever). Receptions of damaged frames are not bounded, so traffic may go on
for ever. `irqStatus` is a static variable
initialised once, so every interrupt counts as the first one did, RX_DONE; the
branch for TX_DONE is dead. A full queue is looked up from
`Queue[MAX_TX_QUEUE]`, outside of the array. What is read there is unknown, so
both outcomes are modelled: the newest packet is overwritten (`AddOverNewest`),
or the packet is written over `Count` and what follows it (`ReadOutside`).

`Count` is a `uint8_t` that `add()` increments for an overwritten packet too, so it
runs ahead of the queue until `pop()` finds the queue empty and sets it to 0. `lost`
is a history variable, the number of packets overwritten since then, and `Wrapped`
says that they were enough for `Count` to have passed its largest value: then it may
be 0 with a full queue, and the MCU goes to sleep. `CountCovers` and `QueueDrains`
except that case, and `CountAlwaysCovers` does not (below). The condition is exact
enough for a proof: `Count = |Occupied| + lost` as long as it does not hold.

### PacketId

Every atomic operation and RTC write is a step of one of the threads; `Reset`
keeps RTC memory, `PowerFail` replaces it by anything without the magic number.
A call draws a number, the pair of session and sequence. `next_packet_id_64` returns
that pair; `next_packet_id` hashes it to 32 bits (`Mix`, `Id32`), one to one within a
session (`MixAssumption`: multiplications by odd numbers and `x ^= x >> k` lose
nothing), but not over sessions: `Unique32` is refuted below. A session from the random
generator is taken to be new. `Window` is both `WAKE_SEQUENCE_SKIP` and
the period of the copies (256 in the code), and `MaxSequence` and its successor
are no multiples of it, as 0xFFFFFFFE and 0xFFFFFFFF are none of 256.

### Ota and FirmwareUpdate

Data comes in units: `HeaderSize` units of header, then blocks. One action is one
call of the host, which may call anything in any order and send anything,
too much and too little included. The hash of a firmware is its sequence of
blocks, and a signature is membership in `Signed`. Every ESP-IDF call may fail,
and `Reset` is possible between any two calls. ESP-IDF is external: `esp_ota_begin()`
erases the slot that does not run, leaves the boot record alone and is refused
while the running image is unconfirmed; `esp_ota_end()` and
`esp_ota_set_boot_partition()` refuse what cannot be started; the boot loader
starts a new image once, and falls back to the other slot.

`FirmwareUpdate` knows one active image and a spare slot that is empty, staged or
the way back, each with a mark whether its image was verified there. One freedom in it
comes from the code: after COMPLETE, abort and begin erase a slot that the boot record
still names, so until the next update is verified that slot holds whatever is written to
it, in its old role and not verified (`stale`, `Rewrite`), and a reset starts it. So the
refinement does not say that only signed firmware runs, and the code does not keep that
(`SignedAlwaysRuns` below). `OnlySignedRuns` says how far it does: with the history
`unverified`, the slots erased and not verified since, it is the only way for unsigned
firmware to run or to be started next.

### PacketRouting and DuplicateFilter

The clock runs modulo `ClockMod`; `age` is the true age of an entry, which the
code does not have. Every function may be called at any time. Node number 0 marks
a free entry, so packets from node 0 are never duplicates (`Untracked`).
`packet_cache_clear_old()` leaves holes in the ring. `log` remembers what was
accepted and what of it was cleared.

`DuplicateFilter` says what each of the repository's caches is for: what is refused
was accepted before, and an acceptance forgets nothing among the last `Window`
ones. With `Expire` entries may go early (the cleared ones), without it they may
not.

### MeshyTask

Every access to the chip or the port expander is a step of its task, so the two
tasks interleave there. The chip is modelled from its use: DIO1 is high while a
flag of the pin mask is set, flags stay until they are cleared, CRC_ERROR comes
with RX_DONE, TIMEOUT and HEADER_ERROR do not show on DIO1, and `send_data()` uses
the buffer that `receive_data()` reads. `configure_radio()` is empty, so the chip
is taken to be receiving before `meshy_start()`. `meshy_stop()` waits two seconds:
the RX task, which never waits longer than a poll, ends within them; the TX task,
which may wait five seconds for TX_DONE, may not (`gaveUp`, of the last call), and a later
`meshy_start()` finds it alive (`left`, the TX tasks the last start found). It goes on
beside the new task, whose handle has overwritten its own; either task clears that
handle when it ends, so the next `meshy_stop()` may return in time with the other one
alive. `StoppedIsQuiet` and `CountedIsSent` except that round of start and stop, and
hold again from the next start that finds no task. The creation of a task may fail;
`meshy_start()` does not notice. The TX wait times out only when the task's own frame is
not on the air any more, as a frame lasts far less than five seconds; another task's may
be, or TX_DONE be set and unreadable. The nodes are kept in the order of
`last_seen_ms` (its wrap after 49 days is left out); `s_rx_queue` and the
formatted lists are outputs and left out, as is the content of a frame: whether
it decodes is a choice.

## Runs

Passing:

| Run | Shows | Bounds and why they suffice |
|---|---|---|
| `mesh_flood` | nothing recent displayed twice, ACKs backed by a delivery, and a flood ends though the cache forgets | 3 nodes (source, relay, destination), one of them 0xFFFF, ttl 2, 2 messages and their ACKs, a cache of 1, smaller than the copies under way; ids do not wrap |
| `mesh_restart` | cache exact over restarts and channel changes; only a sender that has restarted, or whose own counter has come round, and a node 0 lose new messages; the retry table keeps what it has, but for the entry behind a text that is too long | 2 nodes, one of them 0, 2 channels, one restart each, 3 messages and their ACKs with 2 ids, so that the ids wrap, cache of 2 so that it wraps too, retry table of 2 so that it fills and has neighbours, texts that fit and texts that do not |
| `node_table` | the neighbour table, the clock wrapping in the run | 4 nodes for 3 entries, clock of 6 ticks, run of 9 |
| `config_crash` | no mixed configuration after a failure at any step; only bandwidth 500 or a frequency outside the band keeps a node from starting; only `load` separates `meshChan` from `cfg.chan` | values at and past the limits of each field |
| `repeater` | the MCU never sleeps on a queued packet unless `Count` has wrapped, the queue empties once the air falls silent, nothing is sent more often than accepted, the last `MAX_ID_LIST - 1` ids are refused, and the radio is never left deaf but in a restart of the modem or its Full Stop, also past an overflow | list of 2 with 5 packets: it wraps twice; queue of 3, of which one packet is being sent: it overflows; `Count` modulo 4: it wraps, and both sides of the exception happen; two failures of transmissions or receptions; any number of damaged frames |
| `packet_id_unique` | with one caller no number twice, and no 32-bit id twice within a session | period 3, 9 sequence values: copies, saturation and rotation all happen; 2 resets, 3 sessions; a hash to 9 values, so that ids of different sessions collide |
| `ota` | always an image to start, nothing unsigned runs or is started next but from a slot being rewritten, no handle lost, transfers end, `FirmwareUpdate` implemented | firmware of up to 2 blocks, one signed and startable, one signed and not startable, one unsigned and startable; 3 updates, so that one follows a failed or aborted one and a third an unfinished rewrite; 2 keys, 2 versions |
| `packet_routing` | the cache forgets nothing too early, acknowledged packets stay gone, nothing is cleared or sent early over a wrap, what is tracked ends | clock of 5 with a timeout of 2: it wraps before and after; cache of 2 with 4 acceptances of 3 packets (one from node 0): it wraps with holes; 2 tracked packets with one retransmission |
| `meshy_tasks` | the radio returns to receiving, a stale TX_DONE never counts and a stop in time leaves nobody unless the start before found a task, every transmission and task ends, the history is a filter | 2 TX tasks (a revived one beside a new one), history of 2, one node, queue of 1, 4 events: two frames, a request and a second start, or any other mix |

`TypeOK` of `MeshConfig`, `Repeater`, `Ota` and `MeshyTask` is proved and not listed in their
runs, which list the invariants that say more.

Runs that end in a violation, each of a sentence of the documentation or of a
comment (quoted under "findings" in `PROJECT.json`):

| Run | The code |
|---|---|
| `mesh_foreign_ack` | frees a pending message on an ACK addressed to another node |
| `repeater_wakeup` | sleeps though an interrupt has come after the test of `dio1` |
| `packet_id_init` | lets a second thread through while the first initialises |

Further sentences of the documentation that the code does not keep. The modules
state them, and TLC refutes each within seconds; they have no run, as a reading
of the lines shows as much:

| Property | The code |
|---|---|
| `MeshLoRaLite!PendingResolved` (`FairSpec`) | never retries and never gives up: `processPending()` is not called |
| `MeshLoRaLite!SuppressedIsDuplicate` without its condition on `boot` | drops the first messages of a restarted node as duplicates, as `msgID` starts from 0 again |
| `MeshLoRaLite!SuppressedIsDuplicate` without its condition on 0 | drops the first message of a node whose id is 0, which matches an unused slot |
| `MeshLoRaLite!WaitingNeverTaken` | lets a text longer than 64 bytes overwrite the `id` and `dst` of the next waiting entry |
| `MeshLoRaLite!SuppressedIsDuplicate` without `FarApart` | drops new messages as duplicates once the 16-bit `msgID` of their sender has come round, if the old ones are still in the cache |
| `MeshConfig!ChannelIsConfigured` | keeps filtering on the old channel after `load` |
| `MeshConfig!TtlWithinMax` | accepts a negative ttl, stored as up to 255 |
| `MeshConfig!StartsAgain` | accepts bandwidth 500, stored as 244, and any frequency, and hangs at the next start |
| `RepeaterIds!AllKnown` | forgets the oldest of the last 64 ids |
| `Repeater!PendingResolved` (`FairSpec`) | sleeps with a packet pending after a failed transmission; and every frame heard ends the delay before the minute is looked at, so that under steady traffic the packet is neither sent nor dropped |
| `Repeater!QueueAlwaysDrains` (`FairSpec`) | starves in the same way: the queue only empties once the air falls silent |
| `Repeater!CountAlwaysCovers` | lets `Count` wrap to 0 after 2^8 - `MAX_TX_QUEUE` overwritten packets and sleeps on a full queue |
| `Repeater!PopsOldest` | sends the newest packet first |
| `Repeater!OverwritesOldest` | overwrites the newest packet, or memory outside of the queue |
| `PacketId!Unique32` | gives numbers of different sessions the same 32-bit id, as 64 bits are hashed to 32 |
| `PacketId!UniqueIds` with `Ops = {"id64"}` | repeats 64-bit ids after a reset, as they are never copied to RTC memory |
| `Ota!SignedAlwaysRuns` | after COMPLETE, abort and begin, unsigned blocks written to the slot that the boot record still names run after a reset |
| `Ota!EveryTransferEnds` | a header with `firmware_size` 0 is accepted, and the check for the end comes after `to_write == 0` has returned: it stays in RECEIVING |
| `PacketRouting!AlwaysEnds` | a packet sent within its timeout of the clock's wrap is never due (the elapsed time is 0 after the wrap, and too short before it), and keeps its slot |
| `MeshyTask!ReadOnce` | the RX task sees DIO1 high for TX_DONE and reads the buffer again |
| `MeshyTask!OneTxTask` | `meshy_start()` revives the TX task that `meshy_stop()` gave up on, beside a new one |
| `MeshyTask!TimelyStopIsQuiet` | after that the next `meshy_stop()` returns in time as soon as one of the two has cleared the handle, and the other goes on using the radio |
| `MeshyTask!AlwaysCountedIsSent` | and both may count the same TX_DONE, or the old one counts in the new statistics |

Seen while modelling, without a sentence to hold them against:

* `meshtastic_task.c`: with a wrong checksum only CRC_ERROR is cleared, so the next
  poll finds RX_DONE and reads the bad frame. TIMEOUT is not on DIO1, so a receiver
  that has timed out is not noticed. The TX task clears RX_DONE when it returns to
  receiving, and with it a frame not read yet. The comment in `meshy_stop()` speaks
  of standby, the code sets receive mode.
* `meshloralite.c`: `loop()` calls `startReceive()` right after `handlePkt()`, which
  may have started a transmission. On a radio that gives up a transmission for it
  every ACK and every forward is lost; the air of the model may lose any frame.
* `packet.h` gives the header 17 bytes where `packet.c` builds 16, and
  `rx_dropped_dup` counts every dropped packet.
* `session.c`: the two sides derive their root keys with different salts and their
  chain keys from these, so neither can open what the other sends.

Deadlock checking is off where the system may stop: a network with nothing left
to send (or at the bound), a neighbour table at the end of its time, a repeater
asleep or in its Full Stop, a generator at its bound of sessions, idle tasks at the bound of events.

`FloodDies` has two sides. A frame that is never handled would be a counterexample
TLC finds. Forwarding without end would not be a cycle, as the histories grow with
every mark: it would make the state space infinite, so that `mesh_flood` ends at
all is part of what it shows.

### Fairness

* `MeshLoRaLite`: weak fairness of each node's handling of a frame it holds, as
  `loop()` polls `rxFlag` for ever. None of sending, restarting or delivery.
* `Repeater`: weak fairness of the loop and of the passing of a minute. The loop
  includes the end of a transmission, which the radio signals, and that a restart of
  the modem comes to an end, one way or the other. There is none of receptions: nobody
  has to send anything. `QueueDrains` assumes, in its formula, that the air falls
  silent; without it the code starves (above).
* `Ota`: weak fairness of the host's writing of at least one block: a transfer that
  goes on. Hosts that stop are not required to finish.
* `PacketRouting`: weak fairness of the clock and strong fairness of
  `ack_tracker_get_retransmit()`, which its caller polls. Strong, since at a small
  modulus a slot is due and, by the wrap, not due again; the real caller polls many
  times in any such period.
* `MeshyTask`: weak fairness of each task's next step (FreeRTOS schedules ready
  tasks), of the end of a transmission by the chip, and of the end of the two
  seconds in `meshy_stop()`. None of receptions, requests, starts or stops.

## Proofs

Every invariant, action property and refinement that a passing run checks is also a
theorem, `Spec => []Inv`, `Spec => [][A]_vars` or `Spec => Abstract!Spec`, for every
value of the constants that meets the `ASSUME`s of its module. These say of sizes,
moduli and bounds that they are numbers (positive where the code declares an array or
divides), and beyond that only what the code's own constants meet:

* `MeshLoRaLite`: there is an id other than 0 (`IdMod` is 2^16), and a text fits its
  entry or does not; nothing is assumed about node ids;
* `MeshNodeTable`: a wrap of `millis()` is longer than timeout and prune period
  together (49 days against minutes);
* `PacketRouting`: `max_age` and the timeout fit the clock; no node is number 0, which
  marks a free slot;
* `Repeater`: the list has at least 2 words and the queue 3 slots, and `Count` can count
  them (64, 8 and 2^8);
* `PacketId`: the period divides neither `MaxSequence` nor its successor, and the hash
  gives different sequences of a session different ids;
* `Ota`: the factory image is one that starts; `MeshyTask`: own messages are told from
  received ones, and neither they nor the tasks are the empty value.

The bounds of the runs (`MaxSends`, `MaxRx`, `MaxTime` ...) are arbitrary numbers in
the theorems. Each module's inductive invariant has also been checked with TLC on
the instance of a run (that of `MeshConfig` without the type of the page, whose words
are numbers and a CRC, which TLC does not compare).

`MeshLoRaLite_proof`, for any set of nodes, cache and table size:

* `TypeCorrect`; `CacheCorrect` (`SeenIsRecent`): the ring after `markSeen` is again
  the last marks: the slot written has age 0, every other slot is one older, the
  oldest is gone. With the typing this is inductive.
* `NoRecentDuplicate` (`DisplayedNotRecent`) needs the previous one, since
  `seenBefore` looks at the ring, while the property speaks of the history; and that a
  displayed message's position is within the history.
* `AckIsBacked` (`AckBacked`): inductive with the types, as what was displayed is never
  taken back and only `HandleDataForMe` makes ACKs, which are never forwarded.
* `WaitingIsKept` (`PendingKept`), from the types and what `Stored` does to the entries
  around the one it fills.
* `OnlyDuplicatesDropped` (`SuppressedIsDuplicate`). `Numbered` speaks of all messages
  in any radio or ring (`Items`): their sender has sent at least as many packets since
  one as its counter has advanced past its id (`GapOK`), so a packet with an id that
  is still about is a whole turn of that counter younger (`Apart`). The attempt to prove
  the property in its earlier form, without the turn of the counter, showed that
  it was true within the bounds only; it now says what holds for any number of
  messages, and `mesh_restart` lets the ids wrap.

`MeshNodeTable_proof`: `TypeCorrect`, `ListedOnce`, `SilentIsDropped`, `FreshIsKept`.
The invariant (`TimeOK`) relates stored times to true ones: there was a prune at most a
period and a tick ago, and no entry was older than the timeout then. So every age is
less than a wrap, and the difference of two `uint32_t` is the true age
(`WrappedDifference`). That `pruneNodes()` keeps exactly the fresh entries while it
swaps the last entry into holes (`PruneIs`) is an induction on the loop: `Passed` is
the loop invariant, and the induction takes the least number of passes for which it
would fail (`LeastNat`).

`MeshConfig_proof`: `TypeCorrect`, `HangIsRadio`, `BootIsWhole`, `ChannelSplit`.
While a save is under way the page holds the first words of `cfg`, fewer than five, and
`cfg` cannot change; hence a page of five words is the image of the last configuration
that was saved (`PageOK`).

`Repeater_proof`: `TypeCorrect`, `NeverDeaf`, `CountSuffices`, `SentOnce`,
`RecentRefused`. The list of ids (`StoreOK`): the words before the mark are the last
ids accepted (`ThisRound`), the ones after it are those of the round before
(`LastRound`), where an id of 0 that was accepted with a full list costs one place. The
queue (`CountExact`): `Count` is the number of packets waiting plus `lost`. It was this
proof that showed `CountCovers` to fail beyond the former bounds of its run.

`PacketId_proof`, for any period and `MaxSequence`:

* `TypeCorrect`, with any number of callers.
* `NoDuplicateId` and `CopyCovers`: with one caller that does not use
  `next_packet_id_64` (`SingleCaller`), `Spec => []UniqueIds` and
  `Spec => []RtcCovers`. `UniqueIds` is far from inductive. `Inv` adds, for every
  point of a call, how RAM, the caller's locals and RTC memory relate (`PcInv`):
  between calls no copy point lies between the copied and the next sequence
  (`NoPoint`), and since among `Window` successive numbers there is a point
  (`PointWithin`), the copy is at most a period behind, which is what waking skips.
  The condition is needed: `Ops = {"id64"}` (above) and `packet_id_init` show what goes
  wrong without it.

`Ota_proof`: `TypeCorrect`, `AlwaysStarts`, `HandlesKept`, `CompleteIsSigned`,
`SignedRuns`, and the refinement `ImplementsUpdate`. The invariants are silent about the time between begin
and verification, where errors and resets strike. `Receiving` says what holds there:
the running image is confirmed, so that the other slot is not the way back, and the
header is signed and bounds what is still to come. `VerifiedOrErased` says when the boot
record can be believed, and `Genuine` that a slot not erased since its verification
holds signed firmware. The refinement has one lemma per step of `FirmwareUpdate`.

`PacketRouting_proof`: `TypeCorrect`, `NoDuplicateAccepted`, `AckEndsPending`,
`NeverEarly`, and the refinement `ImplementsFilter`. `Ring` says which acceptance each
slot of the cache stands for, holes included; `Ages` (`Measured`) that the age the code
computes never exceeds the true one; `Tracked` that packet numbers in the tracker are
unique and below the next one.

`MeshyTask_proof`: `TypeCorrect`, `Listens`, `CountsWhatIsSent`, `StopIsQuiet`,
`Rereads`, and the refinement `ImplementsFilter`. No task owns the radio, so `Switched`
says for each of its settings that some TX task is still at a point from where it will
put it back. `Alone` (the handle tells whether the one TX task lives) and `Counted`
hold whenever the last `meshy_start()` found no TX task alive, which every such start
establishes anew. `Unread` relates RX_DONE with the buffer, `History` the ring with what was stored.

Only model-checked: the liveness properties `FloodDies`, `QueueDrains`, `TransferEnds`,
`PendingEnds` and `TasksEnd`, since fairness and ENABLED are out of the prover's reach;
and the violations. Induction over data with the library's theorems is out of reach as
well, as they take the claim as an operator; where the model needs it (the loop of
`pruneNodes()`, the newest packet of the repeater's queue) it is done with a least
counterexample, for one claim at a time.

## Abstractions to keep in mind

* Frames, texts and configurations are records; their encoding and CRC computation are
  left out, and their lengths but for texts that outgrow `pend[]`. A CRC is taken to detect every difference.
* The radio of MeshLoRaLite is the lossy air, which loses at least what the order of
  `startTransmit`, `startReceive` and the two flags inside a node loses.
* Random numbers that are meant to be unique (sessions) are.
* The repeater's node names, decoding and printing are left out.

## Not modelled

* `session.c`: its functions are static and without a caller, and no message of one
  side is opened by the other (above), so that whatever a model said of the exchange
  would hold because nothing is ever received. `contact.c` is a set of records for
  one caller.
* `protocol_router.c`, `rnode.c`, `transport.c`, `meshtastic/mod.c`: framing and
  tables for one caller, without concurrency, time or persistence; mostly functions
  of the bytes. The exception is the claim of three hosts on the radio
  (`priority_transport` and `lora_protocol`), the next candidate.
* Cryptography, encodings, display, LEDs, battery: functions over bytes, or I/O.
* The mode changes inside `meshloralite.c`'s radio driver: they can only lose frames,
  which the air already does.
* The C port of the repeater: the same program in another layout.
* `mesh_sniffer`, MeshCore translation, `M665_old`, `testing_projects`: drivers,
  third-party code and hardware tests.

## Plan

1. The safety half of the liveness properties: that a forwarded frame has one hop less
   than the one received, and that every frame about came from an origin with a hop
   count above its own, which bounds a flood; that a transfer's remaining size falls
   with every block; that a tracked packet's number of transmissions only grows.
2. The claim of three hosts on lunarcore's radio (`protocol_router.c`), the one part
   under "Not modelled" with a decision of its own.
