-------------------------------- MODULE Ota ---------------------------------
(***************************************************************************)
(* The firmware update of lunarcore (lunar/ota.c): the OtaManager, the two *)
(* OTA slots with the boot record, and a host that calls the manager in    *)
(* any order, with a power failure between any two calls.  A failure       *)
(* within a call leaves the flash as an error at that point does.          *)
(*                                                                         *)
(* Data comes in units: HeaderSize units of header, then blocks.  A header *)
(* is interpreted when it is complete, so its content is chosen then.  The *)
(* hash of a firmware is its sequence of blocks.                           *)
(*                                                                         *)
(* ESP-IDF is external: esp_ota_begin() erases the slot that does not run  *)
(* and is refused until the running image is confirmed; esp_ota_end() and  *)
(* esp_ota_set_boot_partition() refuse what cannot be started; the boot    *)
(* loader starts a new image once, and the other slot if it is reset       *)
(* before being confirmed or cannot be started.                            *)
(***************************************************************************)
EXTENDS Integers, Sequences

CONSTANTS
    Block,             \* contents of a block
    Image,             \* sequences of blocks that can be started
    Signed,            \* sequences of blocks somebody signed
    Factory,           \* the image of a new device
    Key,               \* public keys
    MaxVersion,        \* versions are 0 .. MaxVersion
    HeaderSize,        \* OTA_HEADER_SIZE, in units
    MAX_FIRMWARE_SIZE, \* in blocks
    MaxChunk,          \* bound: blocks in one call of write
    MaxBegins          \* bound: updates begun

ASSUME ImageAssumption ==
    /\ Image \subseteq Seq(Block) \ {<<>>}
    /\ Signed \subseteq Seq(Block)
    /\ Factory \in Image
ASSUME SizeAssumption ==
    /\ HeaderSize \in Nat \ {0} /\ MAX_FIRMWARE_SIZE \in Nat
    /\ MaxVersion \in Nat /\ MaxChunk \in Nat \ {0} /\ MaxBegins \in Nat

VARIABLES
    state, header_received, header,
    received,     \* bytes_received
    hashed,       \* the blocks the hasher has seen
    ota_handle, trusted_keys, min_version,
    open,         \* ESP-IDF: the handles in use
    begins,       \* ESP-IDF: the last handle given out
    part,         \* the contents of the slots
    record,       \* the state of each slot in the boot record
    boot,         \* the slot the boot record names
    running,      \* the slot that runs
    unverified    \* history: the slots erased and not verified since

mgr == <<state, header_received, header, received, hashed, ota_handle>>
conf == <<trusted_keys, min_version>>
flash == <<part, record, boot, running, unverified>>
vars == <<mgr, conf, open, begins, flash>>

Slot == {0, 1}

\* Mutant: the slot that is not to be started next.
OtherThanBoot == 1 - boot

\* esp_ota_get_next_update_partition(NULL): the slot that does not run.
Other == 1 - running

Chunk == UNION {[1 .. n -> Block] : n \in 0 .. MaxChunk}

\* A parsed header.  A signature is of a firmware hash, so there are valid
\* ones of signed contents only.
Header ==
    {h \in [magic : BOOLEAN, size : 0 .. MAX_FIRMWARE_SIZE + 1,
            version : 0 .. MaxVersion, key : Key, hash : Image \cup Signed,
            signature : BOOLEAN] : h.signature => h.hash \in Signed}
NoHeader == [magic |-> FALSE]     \* header_valid = false

\* ota_manager_new() on a new device.
Init ==
    /\ state = "IDLE" /\ header_received = 0 /\ header = NoHeader
    /\ received = 0 /\ hashed = <<>> /\ ota_handle = 0
    /\ trusted_keys = <<>> /\ min_version = 0
    /\ open = {} /\ begins = 0
    /\ part = [p \in Slot |-> IF p = 0 THEN Factory ELSE <<>>]
    /\ record = [p \in Slot |-> IF p = 0 THEN "valid" ELSE "none"]
    /\ boot = 0 /\ running = 0 /\ unverified = {}

-----------------------------------------------------------------------------
(* Configuration                                                           *)

Trusted(k) == \E i \in DOMAIN trusted_keys : trusted_keys[i] = k

AddTrustedKey(k) ==
    /\ Len(trusted_keys) < 2
    /\ trusted_keys' = Append(trusted_keys, k)
    /\ UNCHANGED <<mgr, min_version, open, begins, flash>>

SetMinVersion(v) ==
    /\ min_version' = v
    /\ UNCHANGED <<mgr, trusted_keys, open, begins, flash>>

-----------------------------------------------------------------------------
(* begin, write, abort                                                     *)

\* Mutant: sha256_init() is missing.
ResetTransferKeepsHash ==
    /\ header_received' = 0 /\ header' = NoHeader
    /\ received' = 0 /\ UNCHANGED hashed

\* The assignments at the start of ota_manager_begin().
ResetTransfer ==
    /\ header_received' = 0 /\ header' = NoHeader
    /\ received' = 0 /\ hashed' = <<>>

EraseOther ==
    /\ part' = [part EXCEPT ![Other] = <<>>]
    /\ unverified' = unverified \cup {Other}
    /\ UNCHANGED <<record, boot, running>>

\* Mutant: an update can be begun while another one is open.
BeginAnytime ==
    /\ state \in {"IDLE", "ERROR"}
    /\ begins < MaxBegins
    /\ record[running] # "pending"
    /\ ResetTransfer
    /\ EraseOther
    /\ begins' = begins + 1
    /\ ota_handle' = begins + 1 /\ open' = open \cup {begins + 1}
    /\ state' = "RECEIVING_HEADER"
    /\ UNCHANGED conf

\* ota_manager_begin()
Begin ==
    /\ state = "IDLE"
    /\ begins < MaxBegins
    /\ record[running] # "pending"
    /\ ResetTransfer
    /\ EraseOther
    /\ begins' = begins + 1
    /\ ota_handle' = begins + 1 /\ open' = open \cup {begins + 1}
    /\ state' = "RECEIVING_HEADER"
    /\ UNCHANGED conf

\* No slot, or esp_ota_begin() fails, perhaps after erasing.
BeginFails ==
    /\ state = "IDLE"
    /\ ResetTransfer
    /\ UNCHANGED flash \/ (record[running] # "pending" /\ EraseOther)
    /\ UNCHANGED <<state, ota_handle, conf, open, begins>>

\* ota_manager_abort(); ESP-IDF ignores a handle that is not in use.
Abort ==
    /\ open' = open \ {ota_handle}
    /\ ota_handle' = 0 /\ state' = "IDLE"

HostAbort ==
    /\ Abort
    /\ UNCHANGED <<header_received, header, received, hashed, conf, begins,
                   flash>>

Fail == state' = "ERROR"

\* Mutant: the hash is not compared.
VerifyAndFinishUnchecked(h, content, img) ==
    /\ img \in Image
    /\ open' = open \ {ota_handle}
    /\ boot' = Other
    /\ record' = [record EXCEPT ![Other] = "new"]
    /\ unverified' = unverified \ {Other}
    /\ state' = "COMPLETE"
    /\ UNCHANGED ota_handle

\* ota_manager_verify_and_finish() for the blocks hashed and the slot's
\* content: the hash differs, esp_ota_end() or esp_ota_set_boot_partition()
\* fails, or the slot is the next to be started.
VerifyAndFinish(h, content, img) ==
    \/ /\ content # h.hash
       /\ Abort
       /\ UNCHANGED <<record, boot, unverified>>
    \/ /\ content = h.hash
       /\ open' = open \ {ota_handle}
       /\ Fail
       /\ UNCHANGED <<ota_handle, record, boot, unverified>>
    \/ /\ content = h.hash
       /\ img \in Image
       /\ open' = open \ {ota_handle}
       /\ boot' = Other
       /\ record' = [record EXCEPT ![Other] = "new"]
       /\ unverified' = unverified \ {Other}
       /\ state' = "COMPLETE"
       /\ UNCHANGED ota_handle

\* Mutant: the last block is never taken.
TakenShort(h, d) ==
    LET remaining == h.size - received - 1
    IN  SubSeq(d, 1, IF Len(d) < remaining THEN Len(d) ELSE remaining)

\* The blocks of d that still belong to the firmware (to_write).
Taken(h, d) ==
    LET remaining == h.size - received
    IN  SubSeq(d, 1, IF Len(d) < remaining THEN Len(d) ELSE remaining)

\* ota_manager_write_firmware() with a header h.
WriteFirmware(h, d) ==
    LET data == Taken(h, d) IN
    \/ /\ data = <<>>
       /\ state' = "RECEIVING"
       /\ UNCHANGED <<received, hashed, ota_handle, open, flash>>
    \/ /\ data # <<>>
       /\ hashed' = hashed \o data
       /\ Fail                             \* esp_ota_write() fails
       /\ \E n \in 0 .. Len(data) :
              part' = [part EXCEPT ![Other] = @ \o SubSeq(data, 1, n)]
       /\ UNCHANGED <<received, ota_handle, open, record, boot, running,
                      unverified>>
    \/ /\ data # <<>>
       /\ hashed' = hashed \o data
       /\ received' = received + Len(data)
       /\ part' = [part EXCEPT ![Other] = @ \o data]
       /\ UNCHANGED running
       /\ IF received + Len(data) >= h.size
          THEN VerifyAndFinish(h, hashed', part'[Other])
          ELSE state' = "RECEIVING"
                  /\ UNCHANGED <<ota_handle, open, record, boot, unverified>>

\* ota_manager_write_header(): part of the header.
WriteHeaderPart(k) ==
    /\ state = "RECEIVING_HEADER"
    /\ header_received + k < HeaderSize
    /\ header_received' = header_received + k
    /\ UNCHANGED <<state, header, received, hashed, ota_handle, conf, open,
                   begins, flash>>

\* Mutant: the signature is not looked at.
AcceptsUnsigned(h) ==
    /\ h.magic
    /\ h.size <= MAX_FIRMWARE_SIZE
    /\ trusted_keys # <<>>
    /\ h.version >= min_version
    /\ Trusted(h.key)

\* The checks of a complete header, ota_manager_verify_signature() the last.
Accepts(h) ==
    /\ h.magic
    /\ h.size <= MAX_FIRMWARE_SIZE
    /\ trusted_keys # <<>>
    /\ h.version >= min_version
    /\ Trusted(h.key) /\ h.signature

\* The rest of the header, and the blocks d that came with it.
WriteHeaderEnd(h, d) ==
    /\ state = "RECEIVING_HEADER"
    /\ header_received' = HeaderSize
    /\ header' = IF h.magic THEN h ELSE NoHeader
    /\ \/ Accepts(h) /\ WriteFirmware(h, d)
       \/ /\ ~ Accepts(h)
          /\ Fail
          /\ UNCHANGED <<received, hashed, ota_handle, open, flash>>
    /\ UNCHANGED <<conf, begins>>

Write(d) ==
    /\ state = "RECEIVING"
    /\ WriteFirmware(header, d)
    /\ UNCHANGED <<header_received, header, conf, begins>>

-----------------------------------------------------------------------------
(* Confirmation, rollback and resets                                       *)

Startable(p) == part[p] \in Image

\* ota_manager_confirm()
Confirm ==
    /\ record[running] = "pending"
    /\ record' = [record EXCEPT ![running] = "valid"]
    /\ UNCHANGED <<mgr, conf, open, begins, part, boot, running,
                   unverified>>

\* What is in RAM after a reset.
RamLost ==
    /\ state' = "IDLE" /\ header_received' = 0 /\ header' = NoHeader
    /\ received' = 0 /\ hashed' = <<>> /\ ota_handle' = 0
    /\ trusted_keys' = <<>> /\ min_version' = 0
    /\ open' = {}
    /\ UNCHANGED begins

\* The running image is given up and the other slot started.
GiveUp ==
    /\ Startable(Other)
    /\ record[Other] = "valid"
    /\ record' = [record EXCEPT ![running] = "aborted"]
    /\ boot' = Other /\ running' = Other
    /\ UNCHANGED <<part, unverified>>

\* ota_manager_rollback(), where it is possible.
Rollback == GiveUp /\ boot = running /\ RamLost

StartNew ==
    /\ boot = Other /\ Startable(Other)
    /\ record' = [record EXCEPT ![Other] = "pending"]
    /\ running' = Other
    /\ UNCHANGED <<part, boot, unverified>>

\* ota_manager_reboot() or a power failure; the boot loader.
Reset ==
    /\ RamLost
    /\ \/ StartNew
       \/ boot = running /\ record[running] = "pending" /\ GiveUp
       \/ /\ \/ boot = running /\ record[running] = "valid"
             \/ boot = Other /\ ~ Startable(Other)
          /\ UNCHANGED flash

Transfer ==
    \/ \E k \in 1 .. HeaderSize - 1 : WriteHeaderPart(k)
    \/ \E h \in Header, d \in Chunk : WriteHeaderEnd(h, d)
    \/ \E d \in Chunk : Write(d)

Next ==
    \/ \E k \in Key : AddTrustedKey(k)
    \/ \E v \in 0 .. MaxVersion : SetMinVersion(v)
    \/ Begin \/ BeginFails \/ HostAbort \/ Transfer
    \/ Confirm \/ Rollback \/ Reset

Spec == Init /\ [][Next]_vars

\* A host that goes on sending blocks.
FairSpec == Spec /\ WF_vars(\E d \in Chunk \ {<<>>} : Write(d))

-----------------------------------------------------------------------------
(* Properties                                                              *)

\* Type correctness.
TypeOK ==
    /\ state \in {"IDLE", "RECEIVING_HEADER", "RECEIVING", "COMPLETE", "ERROR"}
    /\ header_received \in 0 .. HeaderSize
    /\ header \in Header \cup {NoHeader}
    /\ received \in 0 .. MAX_FIRMWARE_SIZE /\ hashed \in Seq(Block)
    /\ ota_handle \in 0 .. MaxBegins
    /\ trusted_keys \in Seq(Key) /\ Len(trusted_keys) <= 2 /\ min_version \in 0 .. MaxVersion
    /\ open \subseteq 1 .. MaxBegins /\ begins \in 0 .. MaxBegins
    /\ part \in [Slot -> Seq(Block)]
    /\ record \in [Slot -> {"none", "new", "pending", "valid", "aborted"}]
    /\ {boot, running} \subseteq Slot /\ unverified \subseteq Slot

\* Whatever fails or is interrupted, there is something to start: the boot
\* loader finds an image in the slot named by the boot record, or in the
\* running slot, and an image that is not confirmed has one to return to.
StartsAfterReset ==
    /\ Startable(running)
    /\ record[running] = "pending"
           => boot = running /\ Startable(Other) /\ record[Other] = "valid"

\* Every handle ESP-IDF holds for an update is the one the manager can still
\* give back, so that failed and aborted updates leave nothing open.
NoHandleLost ==
    /\ open \subseteq {ota_handle}
    /\ state = "IDLE" => open = {}

\* What has been written to the slot so far is what has been hashed, and
\* COMPLETE means what it says until the reset: the slot to be started next
\* holds exactly the firmware whose hash was signed.
HashedIsWritten ==
    /\ state = "RECEIVING" => part[Other] = hashed /\ received = Len(hashed)
    /\ state = "COMPLETE" =>
          /\ boot = Other /\ record[Other] = "new"
          /\ part[Other] = header.hash /\ header.hash \in Signed

\* The firmware that runs is the factory's or was signed, and so was what a
\* reset would start next, over any updates, aborts, failures and resets.  The
\* exception is a slot erased for another update: the boot record goes on
\* naming it while unverified blocks are written to it.
OnlySignedRuns ==
    /\ running \in unverified \/ part[running] \in Signed \cup {Factory}
    /\ boot = running \/ Other \in unverified \/ part[Other] \in Signed

\* The same without the exception.
SignedAlwaysRuns == part[running] \in Signed \cup {Factory}

\* A transfer that goes on ends, with the update or an error.
TransferEnds ==
    (state = "RECEIVING" /\ header.size > 0) ~> (state # "RECEIVING")

\* The same for every header: "Check if firmware is complete" (ota.c) is not
\* reached when firmware_size is 0.
EveryTransferEnds == (state = "RECEIVING") ~> (state # "RECEIVING")

\* The role of the other slot: what a reset or a rollback would start.
OtherRole ==
    IF boot = Other THEN "staged"
    ELSE IF record[Other] = "valid" THEN "previous"
    ELSE "none"

Update == INSTANCE FirmwareUpdate WITH
    active    <- [img |-> part[running], verified |-> running \notin unverified],
    confirmed <- record[running] = "valid",
    spare     <- IF OtherRole # "none" /\ Startable(Other)
                 THEN [role |-> OtherRole, img |-> part[Other],
                       verified |-> Other \notin unverified]
                 ELSE [role |-> "none"],
    stale     <- IF Other \in unverified THEN OtherRole ELSE "none"

\* The update promised by FirmwareUpdate: what is staged by a verification is
\* signed, what a reset or a rollback starts is that, the image before or what
\* was left unverified in a slot the boot record still names, and the way back
\* is neither erased nor rewritten before the confirmation.
UpdateSpec == Update!Spec
=============================================================================
