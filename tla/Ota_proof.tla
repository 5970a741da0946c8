------------------------------ MODULE Ota_proof ------------------------------
(***************************************************************************)
(* The firmware update of lunarcore is safe and implements FirmwareUpdate, *)
(* for all images, keys, sizes and numbers of updates.                     *)
(*                                                                         *)
(* The invariants of Ota say nothing of the states between begin and the   *)
(* verification, where an error or a reset may strike.  Receiving adds     *)
(* what holds there: the running image is confirmed (so that the other     *)
(* slot is not the way back), the other slot is known to be erased, and    *)
(* the accepted header is signed and bounds what is still to come.         *)
(* VerifiedOrErased says when the boot record can be believed.             *)
(* Genuine is about the content of the slots that were verified: a         *)
(* rollback starts one of them.                                            *)
(***************************************************************************)
EXTENDS Ota, SequenceTheorems, TLAPS

-----------------------------------------------------------------------------
(* The invariant                                                           *)

\* The slot that runs is one the boot loader may start.
RunningRecord == record[running] \in {"valid", "pending"}

\* What holds between begin and the end of a transfer.
Receiving ==
    /\ state \in {"RECEIVING_HEADER", "RECEIVING"} =>
          record[running] = "valid" /\ Other \in unverified
    /\ state = "RECEIVING_HEADER" =>
          part[Other] = <<>> /\ hashed = <<>> /\ received = 0
    /\ state = "RECEIVING" =>
          /\ header \in Header /\ header.signature
          /\ header.size <= MAX_FIRMWARE_SIZE
          /\ received <= header.size

\* A slot to which the boot record gives a role can be started, unless it has
\* been erased since.
VerifiedOrErased ==
    Other \notin unverified /\ OtherRole # "none" => Startable(Other)

Inv ==
    /\ TypeOK
    /\ StartsAfterReset
    /\ NoHandleLost
    /\ HashedIsWritten
    /\ RunningRecord
    /\ Receiving
    /\ VerifiedOrErased

-----------------------------------------------------------------------------
(* Facts about the data                                                    *)

\* The types of a header's fields that the proofs use.
LEMMA HeaderFacts ==
    ASSUME NEW h \in Header
    PROVE  /\ h.size \in 0 .. MAX_FIRMWARE_SIZE + 1
           /\ h.signature \in BOOLEAN
           /\ h.signature => h.hash \in Signed
  BY DEF Header

\* What the host sends in one call is a sequence of blocks.
LEMMA ChunkIsSeq == Chunk \subseteq Seq(Block)
  <1> SUFFICES ASSUME NEW n \in 0 .. MaxChunk, NEW d \in [1 .. n -> Block]
               PROVE  d \in Seq(Block)
    BY DEF Chunk
  <1>1. n \in Nat
    BY SizeAssumption
  <1> QED
    BY <1>1, SeqDef

\* to_write never exceeds what the header announced.
LEMMA TakenFacts ==
    ASSUME NEW h, h.size \in Nat, received \in Nat, received <= h.size,
           NEW d \in Seq(Block)
    PROVE  /\ Taken(h, d) \in Seq(Block)
           /\ Len(Taken(h, d)) \in Nat
           /\ received + Len(Taken(h, d)) <= h.size
  <1> DEFINE n == IF Len(d) < h.size - received THEN Len(d) ELSE h.size - received
  <1>1. Len(d) \in Nat /\ \A i \in 1 .. Len(d) : d[i] \in Block
    BY LenProperties, ElementOfSeq
  <1>2. n \in Nat /\ n <= Len(d) /\ received + n <= h.size
    BY <1>1
  <1>3. Taken(h, d) = SubSeq(d, 1, n)
    BY DEF Taken
  <1> HIDE DEF n
  <1>4. \A i \in 1 .. n : d[i] \in Block
    BY <1>1, <1>2
  <1>5. /\ SubSeq(d, 1, n) \in Seq(Block)
        /\ Len(SubSeq(d, 1, n)) = IF 1 <= n THEN n - 1 + 1 ELSE 0
    BY <1>2, <1>4, SubSeqProperties
  <1>6. Len(SubSeq(d, 1, n)) = n
    BY <1>2, <1>5
  <1> QED
    BY <1>2, <1>3, <1>5, <1>6

\* A prefix of a sequence of blocks is one, written or not.
LEMMA PrefixFacts ==
    ASSUME NEW s \in Seq(Block), NEW n \in 0 .. Len(s)
    PROVE  SubSeq(s, 1, n) \in Seq(Block)
  <1>1. Len(s) \in Nat /\ \A i \in 1 .. Len(s) : s[i] \in Block
    BY LenProperties, ElementOfSeq
  <1>2. n \in Nat /\ \A i \in 1 .. n : s[i] \in Block
    BY <1>1
  <1> QED
    BY <1>2, SubSeqProperties

\* There are two slots, and Other is the one that does not run.
LEMMA SlotFacts ==
    ASSUME TypeOK
    PROVE  /\ running \in Slot /\ Other \in Slot /\ Other # running
           /\ 1 - Other = running /\ boot \in {running, Other}
  BY DEF TypeOK, Other, Slot

-----------------------------------------------------------------------------
(* The invariant is inductive                                              *)

\* The factory image runs, confirmed.
LEMMA InitInv == Init => Inv
  <1> SUFFICES ASSUME Init
               PROVE  Inv
    OBVIOUS
  <1>1. Factory \in Seq(Block) /\ Factory \in Image /\ <<>> \in Seq(Block)
    BY ImageAssumption, EmptySeq
  <1>2. /\ <<>> \in Seq(Key) /\ Len(<<>>) = 0
    BY EmptySeq
  <1>3. part \in [Slot -> Seq(Block)]
    BY <1>1 DEF Init
  <1>4. record \in [Slot -> {"none", "new", "pending", "valid", "aborted"}]
    BY DEF Init
  <1>5. trusted_keys \in Seq(Key) /\ Len(trusted_keys) <= 2 /\ hashed \in Seq(Block)
    BY <1>1, <1>2 DEF Init
  <1>6. unverified \subseteq Slot /\ header \in Header \cup {NoHeader}
    BY DEF Init
  <1>7. TypeOK
    BY <1>3, <1>4, <1>5, <1>6, SizeAssumption DEF Init, TypeOK, Slot
  <1>8. Other = 1 /\ part[0] = Factory /\ record[0] = "valid" /\ record[1] = "none"
    BY DEF Init, Other, Slot
  <1> QED
    BY <1>1, <1>7, <1>8
    DEF Init, Inv, StartsAfterReset, NoHandleLost, HashedIsWritten, RunningRecord,
        Receiving, VerifiedOrErased, OtherRole, Startable

\* A step that changes neither the slots nor the transfer: only the
\* configuration, or nothing.
LEMMA ConfigStep ==
    ASSUME Inv, TypeOK', UNCHANGED <<mgr, open, flash>>
    PROVE  Inv'
  BY DEF Inv, StartsAfterReset, NoHandleLost, HashedIsWritten, RunningRecord,
         Receiving, VerifiedOrErased, OtherRole, Startable, Other, mgr, flash

\* The trusted keys play no part in the slots.
LEMMA AddTrustedKeyInv ==
    ASSUME Inv, NEW k \in Key, AddTrustedKey(k)
    PROVE  Inv'
  <1>1. trusted_keys' \in Seq(Key) /\ Len(trusted_keys') <= 2
    BY AppendProperties DEF Inv, TypeOK, AddTrustedKey
  <1>2. TypeOK'
    BY <1>1 DEF Inv, TypeOK, AddTrustedKey, mgr, flash
  <1> QED
    BY <1>2, ConfigStep DEF AddTrustedKey

\* Neither does the minimum version.
LEMMA SetMinVersionInv ==
    ASSUME Inv, NEW v \in 0 .. MaxVersion, SetMinVersion(v)
    PROVE  Inv'
  <1>1. TypeOK'
    BY DEF Inv, TypeOK, SetMinVersion, mgr, flash
  <1> QED
    BY <1>1, ConfigStep DEF SetMinVersion

\* What erasing the other slot does to the flash.
LEMMA EraseFacts ==
    ASSUME Inv, EraseOther
    PROVE  /\ part' \in [Slot -> Seq(Block)]
           /\ part'[running] = part[running] /\ part'[Other] = <<>>
           /\ unverified' = unverified \cup {Other} /\ Other' = Other
           /\ unverified' \subseteq Slot
           /\ UNCHANGED <<record, boot, running>>
  <1>1. <<>> \in Seq(Block)
    BY EmptySeq
  <1>2. Other \in Slot /\ Other # running /\ running \in Slot
    BY SlotFacts DEF Inv
  <1> QED
    BY <1>1, <1>2 DEF Inv, TypeOK, EraseOther, Other

\* begin() erases the other slot and starts hash and count anew.
LEMMA BeginInv ==
    ASSUME Inv, Begin
    PROVE  Inv'
  <1>1. /\ part' \in [Slot -> Seq(Block)]
        /\ part'[running] = part[running] /\ part'[Other] = <<>>
        /\ unverified' = unverified \cup {Other} /\ Other' = Other
        /\ unverified' \subseteq Slot
        /\ UNCHANGED <<record, boot, running>>
    BY EraseFacts DEF Begin
  <1>2. record[running] = "valid"
    BY DEF Inv, RunningRecord, Begin
  <1>3. hashed' = <<>> /\ hashed' \in Seq(Block)
    BY EmptySeq DEF Begin, ResetTransfer
  <1>4. TypeOK'
    BY <1>1, <1>3, SizeAssumption DEF Inv, TypeOK, Begin, ResetTransfer, conf
  <1>5. StartsAfterReset' /\ RunningRecord' /\ VerifiedOrErased'
    BY <1>1, <1>2 DEF Inv, StartsAfterReset, RunningRecord, VerifiedOrErased, Startable
  <1>6. NoHandleLost' /\ HashedIsWritten' /\ Receiving'
    BY <1>1, <1>2, <1>3 DEF Inv, NoHandleLost, HashedIsWritten, Receiving, Begin,
       ResetTransfer
  <1> QED
    BY <1>4, <1>5, <1>6 DEF Inv

\* A begin() that fails has at most erased the other slot.
LEMMA BeginFailsInv ==
    ASSUME Inv, BeginFails
    PROVE  Inv'
  <1>1. hashed' \in Seq(Block)
    BY EmptySeq DEF BeginFails, ResetTransfer
  <1>2. CASE UNCHANGED flash
    <2>1. TypeOK'
      BY <1>1, <1>2, SizeAssumption DEF Inv, TypeOK, BeginFails, ResetTransfer, conf, flash
    <2> QED
      BY <1>2, <2>1 DEF Inv, StartsAfterReset, NoHandleLost, HashedIsWritten,
         RunningRecord, Receiving, VerifiedOrErased, OtherRole, Startable, Other,
         BeginFails, flash
  <1>3. CASE record[running] # "pending" /\ EraseOther
    <2>1. /\ part' \in [Slot -> Seq(Block)]
          /\ part'[running] = part[running] /\ part'[Other] = <<>>
          /\ unverified' = unverified \cup {Other} /\ Other' = Other
          /\ unverified' \subseteq Slot
          /\ UNCHANGED <<record, boot, running>>
      BY <1>3, EraseFacts
    <2>2. record[running] = "valid"
      BY <1>3 DEF Inv, RunningRecord
    <2>3. TypeOK'
      BY <1>1, <2>1, SizeAssumption DEF Inv, TypeOK, BeginFails, ResetTransfer, conf
    <2>4. StartsAfterReset' /\ RunningRecord' /\ VerifiedOrErased'
      BY <2>1, <2>2 DEF Inv, StartsAfterReset, RunningRecord, VerifiedOrErased, Startable
    <2>5. NoHandleLost' /\ HashedIsWritten' /\ Receiving'
      BY DEF Inv, NoHandleLost, HashedIsWritten, Receiving, BeginFails
    <2> QED
      BY <2>3, <2>4, <2>5 DEF Inv
  <1> QED
    BY <1>2, <1>3 DEF BeginFails

\* abort() gives the handle back.
LEMMA HostAbortInv ==
    ASSUME Inv, HostAbort
    PROVE  Inv'
  <1>1. TypeOK'
    BY SizeAssumption DEF Inv, TypeOK, HostAbort, Abort, conf, flash
  <1> QED
    BY <1>1 DEF Inv, StartsAfterReset, NoHandleLost, HashedIsWritten, RunningRecord,
       Receiving, VerifiedOrErased, OtherRole, Startable, Other, HostAbort, Abort, flash

\* A part of a header changes only the number of its bytes.
LEMMA WriteHeaderPartInv ==
    ASSUME Inv, NEW k \in 1 .. HeaderSize - 1, WriteHeaderPart(k)
    PROVE  Inv'
  <1>1. TypeOK'
    BY SizeAssumption DEF Inv, TypeOK, WriteHeaderPart, conf, flash
  <1> QED
    BY <1>1 DEF Inv, StartsAfterReset, NoHandleLost, HashedIsWritten, RunningRecord,
       Receiving, VerifiedOrErased, OtherRole, Startable, Other, WriteHeaderPart, flash

-----------------------------------------------------------------------------
(* Writing                                                                 *)

\* The state in which the blocks d are about to be written under the header h.
ReadyFor(h) ==
    /\ h \in Header /\ h.signature /\ h.size <= MAX_FIRMWARE_SIZE
    /\ received <= h.size
    /\ part[Other] = hashed /\ received = Len(hashed)
    /\ record[running] = "valid" /\ Other \in unverified
    /\ state \in {"RECEIVING_HEADER", "RECEIVING"}

\* The types after a write, and the bound that Taken keeps.
LEMMA WriteFacts ==
    ASSUME Inv, NEW h, ReadyFor(h), NEW d \in Seq(Block), WriteFirmware(h, d)
    PROVE  /\ received' \in 0 .. h.size /\ h.size \in 0 .. MAX_FIRMWARE_SIZE
           /\ hashed' \in Seq(Block) /\ part' \in [Slot -> Seq(Block)]
           /\ part'[running] = part[running] /\ running' = running
           /\ state' \in {"IDLE", "RECEIVING", "COMPLETE", "ERROR"}
  <1> DEFINE data == Taken(h, d)
  <1>1. h.size \in Nat /\ received \in Nat /\ received <= h.size
    BY HeaderFacts, SizeAssumption DEF ReadyFor, Inv, TypeOK
  <1>2. data \in Seq(Block) /\ Len(data) \in Nat /\ received + Len(data) <= h.size
    BY <1>1, TakenFacts
  <1>3. hashed \o data \in Seq(Block)
    BY <1>2, ConcatProperties DEF Inv, TypeOK
  <1>4. Other \in Slot /\ Other # running /\ running \in Slot
    BY SlotFacts DEF Inv
  <1>5. part[Other] \in Seq(Block) /\ part \in [Slot -> Seq(Block)]
    BY <1>4 DEF Inv, TypeOK
  <1>6. \A n \in 0 .. Len(data) : part[Other] \o SubSeq(data, 1, n) \in Seq(Block)
    BY <1>2, <1>5, PrefixFacts, ConcatProperties
  <1>7. part[Other] \o data \in Seq(Block)
    BY <1>2, <1>5, ConcatProperties
  <1> HIDE DEF data
  <1>8. h.size \in 0 .. MAX_FIRMWARE_SIZE
    BY <1>1, SizeAssumption DEF ReadyFor
  <1>9. \/ /\ state' = "RECEIVING"
           /\ UNCHANGED <<received, hashed, ota_handle, open, flash>>
        \/ /\ hashed' = hashed \o data
           /\ Fail
           /\ \E n \in 0 .. Len(data) :
                  part' = [part EXCEPT ![Other] = @ \o SubSeq(data, 1, n)]
           /\ UNCHANGED <<received, running>>
        \/ /\ hashed' = hashed \o data
           /\ received' = received + Len(data)
           /\ part' = [part EXCEPT ![Other] = @ \o data]
           /\ UNCHANGED running
           /\ state' \in {"IDLE", "RECEIVING", "COMPLETE", "ERROR"}
    BY DEF WriteFirmware, data, VerifyAndFinish, Abort, Fail
  <1>10. CASE UNCHANGED <<received, hashed, ota_handle, open, flash>>
              /\ state' = "RECEIVING"
    BY <1>1, <1>8, <1>10 DEF Inv, TypeOK, flash
  <1>11. CASE /\ hashed' = hashed \o data
              /\ Fail
              /\ \E n \in 0 .. Len(data) :
                     part' = [part EXCEPT ![Other] = @ \o SubSeq(data, 1, n)]
              /\ UNCHANGED <<received, running>>
    BY <1>1, <1>3, <1>4, <1>5, <1>6, <1>8, <1>11 DEF Fail
  <1>12. CASE /\ hashed' = hashed \o data
              /\ received' = received + Len(data)
              /\ part' = [part EXCEPT ![Other] = @ \o data]
              /\ UNCHANGED running
              /\ state' \in {"IDLE", "RECEIVING", "COMPLETE", "ERROR"}
    BY <1>1, <1>2, <1>3, <1>4, <1>5, <1>7, <1>8, <1>12
  <1> QED
    BY <1>9, <1>10, <1>11, <1>12

\* A write leaves the boot record alone and the slot as hashed, or has verified
\* the slot.
LEMMA WriteOutcome ==
    ASSUME Inv, NEW h, ReadyFor(h), NEW d \in Seq(Block), WriteFirmware(h, d)
    PROVE  \/ /\ UNCHANGED <<record, boot, unverified>> /\ state' # "COMPLETE"
              /\ state' = "RECEIVING" =>
                    part'[Other] = hashed' /\ received' = Len(hashed')
           \/ /\ part'[Other] \in Image /\ part'[Other] = h.hash
              /\ boot' = Other /\ record' = [record EXCEPT ![Other] = "new"]
              /\ unverified' = unverified \ {Other} /\ state' = "COMPLETE"
  <1> DEFINE data == Taken(h, d)
  <1>1. Other \in Slot /\ (running' = running => Other' = Other)
    BY SlotFacts DEF Inv, Other
  <1>2. data \in Seq(Block) /\ Len(data) \in Nat
    BY HeaderFacts, TakenFacts, SizeAssumption DEF ReadyFor, Inv, TypeOK
  <1>3. Len(hashed \o data) = Len(hashed) + Len(data)
    BY <1>2, ConcatProperties DEF Inv, TypeOK
  <1> HIDE DEF data
  <1>4. CASE /\ state' = "RECEIVING"
             /\ UNCHANGED <<received, hashed, ota_handle, open, flash>>
    BY <1>1, <1>4 DEF ReadyFor, flash
  <1>5. CASE Fail /\ UNCHANGED <<record, boot, unverified>>
    BY <1>5 DEF Fail
  <1>6. CASE /\ hashed' = hashed \o data
             /\ received' = received + Len(data)
             /\ part' = [part EXCEPT ![Other] = @ \o data]
             /\ IF received + Len(data) >= h.size
                THEN VerifyAndFinish(h, hashed', part'[Other])
                ELSE state' = "RECEIVING"
                        /\ UNCHANGED <<ota_handle, open, record, boot, unverified>>
    <2>1. part'[Other] = hashed' /\ received' = Len(hashed')
      BY <1>1, <1>3, <1>6 DEF ReadyFor, Inv, TypeOK
    <2>2. \/ state' \in {"IDLE", "ERROR", "RECEIVING"} /\ UNCHANGED <<record, boot, unverified>>
          \/ /\ part'[Other] \in Image /\ hashed' = h.hash
             /\ boot' = Other /\ record' = [record EXCEPT ![Other] = "new"]
             /\ unverified' = unverified \ {Other} /\ state' = "COMPLETE"
      BY <1>6 DEF VerifyAndFinish, Abort, Fail
    <2> QED
      BY <2>1, <2>2
  <1> QED
    BY <1>4, <1>5, <1>6 DEF WriteFirmware, data

\* Firmware data: it is written and hashed, or the transfer ends in an error, or
\* it was the last and the verified slot is to start next.
LEMMA WriteFirmwareInv ==
    ASSUME Inv, NEW h, ReadyFor(h), NEW d \in Seq(Block), WriteFirmware(h, d),
           header' = h, header_received' \in 0 .. HeaderSize,
           UNCHANGED <<conf, begins>>
    PROVE  Inv'
  <1>1. /\ received' \in 0 .. h.size /\ h.size \in 0 .. MAX_FIRMWARE_SIZE
        /\ hashed' \in Seq(Block) /\ part' \in [Slot -> Seq(Block)]
        /\ part'[running] = part[running] /\ running' = running
        /\ state' \in {"IDLE", "RECEIVING", "COMPLETE", "ERROR"}
    BY WriteFacts
  <1>2. Other \in Slot /\ Other # running /\ running \in Slot /\ Other' = Other
    BY <1>1, SlotFacts DEF Inv, Other
  <1>3. record[running] = "valid" /\ Startable(running)
    BY DEF ReadyFor, Inv, StartsAfterReset
  <1>4. header' \in Header /\ h.hash \in Signed /\ received' <= MAX_FIRMWARE_SIZE
    BY <1>1, HeaderFacts, SizeAssumption DEF ReadyFor
  <1>5. \/ /\ UNCHANGED <<record, boot, unverified>> /\ state' # "COMPLETE"
           /\ state' = "RECEIVING" =>
                 part'[Other] = hashed' /\ received' = Len(hashed')
        \/ /\ part'[Other] \in Image /\ part'[Other] = h.hash
           /\ boot' = Other /\ record' = [record EXCEPT ![Other] = "new"]
           /\ unverified' = unverified \ {Other} /\ state' = "COMPLETE"
    BY WriteOutcome
  <1>6. /\ open' \subseteq open /\ ota_handle' \in {0, ota_handle}
        /\ open' \subseteq {ota_handle'}
        /\ state' = "IDLE" => open' = {}
    <2>1. open \subseteq {ota_handle}
      BY DEF Inv, NoHandleLost
    <2>2. \/ UNCHANGED <<ota_handle, open>> /\ state' # "IDLE"
          \/ Abort
          \/ open' = open \ {ota_handle} /\ UNCHANGED ota_handle /\ state' # "IDLE"
      BY DEF WriteFirmware, VerifyAndFinish, Fail
    <2> QED
      BY <2>1, <2>2 DEF Abort
  <1>7. TypeOK'
    <2>1. record' \in [Slot -> {"none", "new", "pending", "valid", "aborted"}]
          /\ {boot', running'} \subseteq Slot /\ unverified' \subseteq Slot
      BY <1>1, <1>2, <1>5 DEF Inv, TypeOK
    <2>2. ota_handle' \in 0 .. MaxBegins /\ open' \subseteq 1 .. MaxBegins
      BY <1>6, SizeAssumption DEF Inv, TypeOK
    <2>3. received' \in 0 .. MAX_FIRMWARE_SIZE
      BY <1>1, SizeAssumption
    <2> QED
      BY <1>1, <1>4, <2>1, <2>2, <2>3 DEF Inv, TypeOK, conf
  <1>8. record'[running] = "valid"
    BY <1>2, <1>3, <1>5 DEF Inv, TypeOK
  <1>9. StartsAfterReset' /\ RunningRecord'
    BY <1>1, <1>3, <1>8 DEF StartsAfterReset, RunningRecord, Startable
  <1>10. HashedIsWritten'
    BY <1>2, <1>4, <1>5 DEF HashedIsWritten, Inv, TypeOK
  <1>11. Receiving'
    <2>1. state' = "RECEIVING" => Other' \in unverified'
      BY <1>2, <1>5 DEF ReadyFor
    <2>2. header'.signature
      BY DEF ReadyFor
    <2>3. header'.size <= MAX_FIRMWARE_SIZE /\ received' <= header'.size
      BY <1>1, SizeAssumption DEF ReadyFor
    <2> QED
      BY <1>1, <1>4, <1>8, <2>1, <2>2, <2>3 DEF Receiving
  <1>12. VerifiedOrErased'
    BY <1>2, <1>5 DEF VerifiedOrErased, Startable, ReadyFor
  <1> QED
    BY <1>6, <1>7, <1>9, <1>10, <1>11, <1>12 DEF Inv, NoHandleLost

\* A call of write() after the header,
LEMMA WriteInv ==
    ASSUME Inv, NEW d \in Chunk, Write(d)
    PROVE  Inv'
  <1>1. ReadyFor(header)
    BY DEF Inv, Receiving, HashedIsWritten, ReadyFor, Write
  <1>2. header' = header /\ header_received' \in 0 .. HeaderSize
    BY DEF Write, Inv, TypeOK
  <1> QED
    BY <1>1, <1>2, ChunkIsSeq, WriteFirmwareInv DEF Write

\* and one that completes the header, with or without firmware behind it.
LEMMA WriteHeaderEndInv ==
    ASSUME Inv, NEW h \in Header, NEW d \in Chunk, WriteHeaderEnd(h, d)
    PROVE  Inv'
  <1>1. CASE Accepts(h) /\ WriteFirmware(h, d)
    <2>1. received <= h.size /\ Len(<<>>) = 0
      BY HeaderFacts, EmptySeq DEF Inv, Receiving, WriteHeaderEnd
    <2>2. ReadyFor(h)
      BY <1>1, <2>1 DEF Inv, Receiving, ReadyFor, Accepts, WriteHeaderEnd
    <2>3. header' = h /\ header_received' \in 0 .. HeaderSize
      BY <1>1, SizeAssumption DEF Accepts, WriteHeaderEnd
    <2> QED
      BY <1>1, <2>2, <2>3, ChunkIsSeq, WriteFirmwareInv DEF WriteHeaderEnd
  <1>2. CASE Fail /\ UNCHANGED <<received, hashed, ota_handle, open, flash>>
    <2>1. TypeOK'
      BY <1>2, SizeAssumption DEF Inv, TypeOK, WriteHeaderEnd, Fail, conf, flash
    <2> QED
      BY <1>2, <2>1 DEF Inv, StartsAfterReset, NoHandleLost, HashedIsWritten,
         RunningRecord, Receiving, VerifiedOrErased, OtherRole, Startable, Other,
         Fail, flash
  <1> QED
    BY <1>1, <1>2 DEF WriteHeaderEnd

-----------------------------------------------------------------------------
(* Confirmation and resets                                                 *)

\* The confirmed image no longer needs the other slot.
LEMMA ConfirmInv ==
    ASSUME Inv, Confirm
    PROVE  Inv'
  <1>1. Other \in Slot /\ Other # running /\ running \in Slot
    BY SlotFacts DEF Inv
  <1>2. /\ record' \in [Slot -> {"none", "new", "pending", "valid", "aborted"}]
        /\ record'[running] = "valid" /\ record'[Other] = record[Other]
    BY <1>1 DEF Inv, TypeOK, Confirm
  <1>3. TypeOK'
    BY <1>2 DEF Inv, TypeOK, Confirm, mgr, conf
  <1>4. UNCHANGED <<part, boot, running, unverified, state, hashed, received, header,
                    open, ota_handle>> /\ Other' = Other
    BY DEF Confirm, mgr, Other
  <1>5. StartsAfterReset' /\ RunningRecord' /\ VerifiedOrErased'
    BY <1>2, <1>4 DEF Inv, StartsAfterReset, RunningRecord, VerifiedOrErased,
       Startable, OtherRole
  <1>6. NoHandleLost' /\ HashedIsWritten'
    BY <1>2, <1>4 DEF Inv, NoHandleLost, HashedIsWritten
  <1>7. Receiving'
    BY <1>2, <1>4 DEF Inv, Receiving
  <1> QED
    BY <1>3, <1>5, <1>6, <1>7 DEF Inv

\* After a reset the manager holds nothing; what is left to show is about the
\* flash.
LEMMA RamLostInv ==
    ASSUME Inv, RamLost,
           part' \in [Slot -> Seq(Block)],
           record' \in [Slot -> {"none", "new", "pending", "valid", "aborted"}],
           boot' \in Slot, running' \in Slot, unverified' \subseteq Slot,
           StartsAfterReset', RunningRecord', VerifiedOrErased'
    PROVE  Inv'
  <1>1. /\ hashed' \in Seq(Block) /\ trusted_keys' \in Seq(Key)
        /\ Len(trusted_keys') <= 2
    BY EmptySeq DEF RamLost
  <1>2. TypeOK'
    BY <1>1, SizeAssumption DEF Inv, TypeOK, RamLost
  <1>3. NoHandleLost' /\ HashedIsWritten' /\ Receiving'
    BY DEF RamLost, NoHandleLost, HashedIsWritten, Receiving
  <1> QED
    BY <1>2, <1>3 DEF Inv

\* Back to the other slot, from an image that was not confirmed.
LEMMA GiveUpInv ==
    ASSUME Inv, GiveUp, RamLost
    PROVE  Inv'
  <1>1. /\ Other \in Slot /\ Other # running /\ running \in Slot
        /\ 1 - Other = running
    BY SlotFacts DEF Inv
  <1>2. /\ record' \in [Slot -> {"none", "new", "pending", "valid", "aborted"}]
        /\ record'[running] = "aborted" /\ record'[Other] = "valid"
    BY <1>1 DEF Inv, TypeOK, GiveUp
  <1>3. running' = Other /\ boot' = Other /\ Other' = running /\ part' = part
        /\ unverified' = unverified
    BY <1>1 DEF GiveUp, Other
  <1>4. StartsAfterReset' /\ RunningRecord'
    BY <1>2, <1>3 DEF StartsAfterReset, RunningRecord, GiveUp, Startable
  <1>5. VerifiedOrErased'
    BY <1>1, <1>2, <1>3 DEF VerifiedOrErased, OtherRole
  <1> QED
    BY <1>1, <1>2, <1>3, <1>4, <1>5, RamLostInv DEF Inv, TypeOK

\* The boot loader starts the new image, once.
LEMMA StartNewInv ==
    ASSUME Inv, StartNew, RamLost
    PROVE  Inv'
  <1>1. /\ Other \in Slot /\ Other # running /\ running \in Slot
        /\ 1 - Other = running
    BY SlotFacts DEF Inv
  <1>2. record[running] = "valid" /\ Startable(running)
    BY <1>1 DEF Inv, StartsAfterReset, RunningRecord, StartNew
  <1>3. /\ record' \in [Slot -> {"none", "new", "pending", "valid", "aborted"}]
        /\ record'[running] = "valid" /\ record'[Other] = "pending"
    BY <1>1, <1>2 DEF Inv, TypeOK, StartNew
  <1>4. running' = Other /\ boot' = Other /\ Other' = running /\ part' = part
        /\ unverified' = unverified
    BY <1>1 DEF StartNew, Other
  <1>5. StartsAfterReset' /\ RunningRecord' /\ VerifiedOrErased'
    BY <1>2, <1>3, <1>4 DEF StartsAfterReset, RunningRecord, VerifiedOrErased,
       StartNew, Startable
  <1> QED
    BY <1>1, <1>3, <1>4, <1>5, RamLostInv DEF Inv, TypeOK

\* A reset at any point: RAM is lost and the boot loader chooses.
LEMMA ResetInv ==
    ASSUME Inv, Reset
    PROVE  Inv'
  <1>1. CASE UNCHANGED flash
    <2>1. StartsAfterReset' /\ RunningRecord' /\ VerifiedOrErased'
      BY <1>1 DEF Inv, StartsAfterReset, RunningRecord, VerifiedOrErased,
         OtherRole, Startable, Other, flash
    <2> QED
      BY <1>1, <2>1, RamLostInv DEF Reset, Inv, TypeOK, flash
  <1> QED
    BY <1>1, GiveUpInv, StartNewInv DEF Reset

-----------------------------------------------------------------------------
(* Safety                                                                  *)

\* Every step keeps the invariant.
LEMMA NextInv == Inv /\ [Next]_vars => Inv'
  <1> SUFFICES ASSUME Inv, [Next]_vars
               PROVE  Inv'
    OBVIOUS
  <1>1. CASE UNCHANGED vars
    <2>1. TypeOK'
      BY <1>1 DEF vars, mgr, conf, flash, Inv, TypeOK
    <2> QED
      BY <1>1, <2>1, ConfigStep DEF vars
  <1>2. CASE Transfer
    BY <1>2, WriteHeaderPartInv, WriteHeaderEndInv, WriteInv DEF Transfer
  <1>3. CASE Rollback
    BY <1>3, GiveUpInv DEF Rollback
  <1> QED
    BY <1>1, <1>2, <1>3, AddTrustedKeyInv, SetMinVersionInv, BeginInv, BeginFailsInv,
       HostAbortInv, ConfirmInv, ResetInv DEF Next

\* The invariant holds in every reachable state.
THEOREM Invariance == Spec => []Inv
  BY InitInv, NextInv, PTL DEF Spec

\* The manager's state, the slots and the boot record have their types: the
\* number of bytes received never exceeds the limit, and no more than two keys
\* are stored.
THEOREM TypeCorrect == Spec => []TypeOK
  <1>1. Inv => TypeOK
    BY DEF Inv
  <1> QED
    BY <1>1, Invariance, PTL

\* Whatever fails, is aborted or is cut short by a reset, there is an image to
\* start, and an unconfirmed one has one to return to.
THEOREM AlwaysStarts == Spec => []StartsAfterReset
  <1>1. Inv => StartsAfterReset
    BY DEF Inv
  <1> QED
    BY <1>1, Invariance, PTL

\* No handle of ESP-IDF is open that the manager cannot give back.
THEOREM HandlesKept == Spec => []NoHandleLost
  <1>1. Inv => NoHandleLost
    BY DEF Inv
  <1> QED
    BY <1>1, Invariance, PTL

\* What is hashed is what is in the slot, and COMPLETE means that the slot to
\* start next holds the firmware whose hash was signed.
THEOREM CompleteIsSigned == Spec => []HashedIsWritten
  <1>1. Inv => HashedIsWritten
    BY DEF Inv
  <1> QED
    BY <1>1, Invariance, PTL

-----------------------------------------------------------------------------
(* What runs was signed                                                    *)

\* What is in a slot that was not erased since it was verified.
SlotsSigned ==
    \A p \in Slot \ unverified : part[p] \in Signed \cup {Factory, <<>>}

Genuine == SlotsSigned /\ OnlySignedRuns

\* The factory image is genuine.
LEMMA InitGenuine == Init => Genuine
  BY DEF Init, Genuine, SlotsSigned, OnlySignedRuns, Slot, Other

\* Steps that leave the slots and what is started alone.
LEMMA SameGenuine ==
    ASSUME Genuine, UNCHANGED <<part, boot, running, unverified>>
    PROVE  Genuine'
  BY DEF Genuine, SlotsSigned, OnlySignedRuns, Other

\* An erased slot is not verified.
LEMMA EraseGenuine ==
    ASSUME Inv, Genuine, EraseOther
    PROVE  Genuine'
  <1>1. /\ part'[running] = part[running]
        /\ unverified' = unverified \cup {Other} /\ Other' = Other
        /\ UNCHANGED <<boot, running>>
    BY EraseFacts
  <1>2. Slot = {running, Other} /\ Other # running
    BY SlotFacts DEF Slot, Inv
  <1> QED
    BY <1>1, <1>2 DEF Genuine, SlotsSigned, OnlySignedRuns

\* Writing changes the erased slot only, and what is verified is signed.
LEMMA WriteGenuine ==
    ASSUME Inv, Genuine, NEW h, ReadyFor(h), NEW d \in Seq(Block),
           WriteFirmware(h, d)
    PROVE  Genuine'
  <1>1. part'[running] = part[running] /\ running' = running
    BY WriteFacts
  <1>2. Slot = {running, Other} /\ Other # running /\ Other' = Other
    BY <1>1, SlotFacts DEF Slot, Inv, Other
  <1>3. Other \in unverified /\ h.hash \in Signed
    BY HeaderFacts DEF ReadyFor
  <1>4. \/ UNCHANGED <<boot, unverified>>
        \/ /\ part'[Other] = h.hash
           /\ boot' = Other /\ unverified' = unverified \ {Other}
    BY WriteOutcome
  <1> QED
    BY <1>1, <1>2, <1>3, <1>4 DEF Genuine, SlotsSigned, OnlySignedRuns

\* What is started in place of the running image can be started, so it is not
\* an empty slot.
LEMMA StartGenuine ==
    ASSUME Inv, Genuine, Startable(Other), running' = Other, boot' = Other,
           UNCHANGED <<part, unverified>>
    PROVE  Genuine'
  <1>1. Other \in Slot
    BY SlotFacts DEF Inv
  <1>2. part[Other] # <<>>
    BY ImageAssumption DEF Startable
  <1> QED
    BY <1>1, <1>2 DEF Genuine, SlotsSigned, OnlySignedRuns

\* Every step keeps what runs genuine.
LEMMA NextGenuine == Inv /\ Genuine /\ [Next]_vars => Genuine'
  <1> SUFFICES ASSUME Inv, Genuine, [Next]_vars
               PROVE  Genuine'
    OBVIOUS
  <1>1. CASE UNCHANGED flash
    BY <1>1, SameGenuine DEF flash
  <1>2. CASE Begin \/ BeginFails
    BY <1>1, <1>2, EraseGenuine DEF Begin, BeginFails
  <1>3. ASSUME NEW h \in Header, NEW d \in Chunk, WriteHeaderEnd(h, d)
        PROVE  Genuine'
    <2>1. CASE Accepts(h) /\ WriteFirmware(h, d)
      <3>1. received <= h.size /\ Len(<<>>) = 0
        BY <1>3, HeaderFacts, EmptySeq DEF Inv, Receiving, WriteHeaderEnd
      <3>2. ReadyFor(h)
        BY <1>3, <2>1, <3>1 DEF Inv, Receiving, ReadyFor, Accepts, WriteHeaderEnd
      <3> QED
        BY <2>1, <3>2, ChunkIsSeq, WriteGenuine
    <2> QED
      BY <1>1, <1>3, <2>1 DEF WriteHeaderEnd
  <1>4. ASSUME NEW d \in Chunk, Write(d)
        PROVE  Genuine'
    <2>1. ReadyFor(header)
      BY <1>4 DEF Inv, Receiving, HashedIsWritten, ReadyFor, Write
    <2> QED
      BY <1>4, <2>1, ChunkIsSeq, WriteGenuine DEF Write
  <1>5. CASE Transfer
    BY <1>1, <1>3, <1>4, <1>5 DEF Transfer, WriteHeaderPart
  <1>6. CASE Confirm
    BY <1>6, SameGenuine DEF Confirm
  <1>7. CASE GiveUp
    BY <1>7, StartGenuine DEF GiveUp
  <1>8. CASE StartNew
    BY <1>8, StartGenuine DEF StartNew
  <1>9. CASE Rollback \/ Reset
    BY <1>1, <1>7, <1>8, <1>9 DEF Rollback, Reset
  <1>10. CASE \/ \E k \in Key : AddTrustedKey(k)
              \/ \E v \in 0 .. MaxVersion : SetMinVersion(v)
              \/ HostAbort \/ UNCHANGED vars
    BY <1>1, <1>10 DEF AddTrustedKey, SetMinVersion, HostAbort, vars
  <1> QED
    BY <1>2, <1>5, <1>6, <1>9, <1>10 DEF Next

\* The firmware that runs, and the one staged to run next, is the factory's or
\* was signed, unless its slot was erased for another update and not verified
\* since.
THEOREM SignedRuns == Spec => []OnlySignedRuns
  <1>1. Genuine => OnlySignedRuns
    BY DEF Genuine
  <1> QED
    BY <1>1, InitGenuine, NextGenuine, Invariance, PTL DEF Spec

-----------------------------------------------------------------------------
(* The implementation of FirmwareUpdate                                    *)

\* The two shapes of the spare slot of FirmwareUpdate differ.
LEMMA SpareShapes ==
    \A r, i, v : /\ Update!Role(r, i, v) # Update!Nothing
                 /\ Update!Role(r, i, v).role = r
                 /\ Update!Role(r, i, v).img = i
                 /\ Update!Role(r, i, v).verified = v
  BY DEF Update!Role, Update!Nothing

\* The mapping, by the role and the content of the other slot.
Spare ==
    IF OtherRole # "none" /\ Startable(Other)
    THEN Update!Role(OtherRole, part[Other], Other \notin unverified)
    ELSE Update!Nothing
Stale == IF Other \in unverified THEN OtherRole ELSE "none"
Confirmed == record[running] = "valid"
Active == Update!Running(part[running], running \notin unverified)

\* The initial states are those of FirmwareUpdate.
LEMMA UpdateInit == Init => Update!Init
  <1> SUFFICES ASSUME Init
               PROVE  Update!Init
    OBVIOUS
  <1>1. /\ Other = 1 /\ part[0] = Factory /\ record[0] = "valid" /\ record[1] = "none"
        /\ running = 0 /\ boot = 0 /\ unverified = {}
    BY DEF Init, Other, Slot
  <1> QED
    BY <1>1 DEF Update!Init, Update!Nothing, Update!Running, OtherRole

\* Steps that change nothing of the mapping.
LEMMA UpdateStutter ==
    ASSUME Active' = Active, Confirmed' = Confirmed, Spare' = Spare, Stale' = Stale
    PROVE  UNCHANGED Update!updateVars
  BY DEF Update!updateVars, Active, Confirmed, Spare, Stale, Update!Role,
         Update!Running, Update!Nothing

\* Erasing the other slot is Erase; before it, the boot record is believed.
LEMMA UpdateErase ==
    ASSUME Inv, record[running] # "pending", EraseOther
    PROVE  Update!Erase
  <1>1. /\ part'[running] = part[running] /\ part'[Other] = <<>>
        /\ unverified' = unverified \cup {Other} /\ Other' = Other
        /\ UNCHANGED <<record, boot, running>>
    BY EraseFacts
  <1>2. record[running] = "valid"
    BY DEF Inv, RunningRecord
  <1>3. ~ Startable(Other)'
    BY <1>1, ImageAssumption DEF Startable
  <1>4. OtherRole' = OtherRole
    BY <1>1 DEF OtherRole
  <1>5. Spare' = Update!Nothing /\ Stale' = OtherRole
    BY <1>1, <1>3, <1>4 DEF Spare, Stale, Update!Nothing
  <1>6. OtherRole = IF Spare = Update!Nothing THEN Stale ELSE Spare.role
    BY SpareShapes DEF Inv, VerifiedOrErased, Spare, Stale
  <1>7. Confirmed /\ Confirmed' = Confirmed /\ Active' = Active
    <2>1. running # Other
      BY SlotFacts DEF Inv
    <2> QED
      BY <1>1, <1>2, <2>1 DEF Confirmed, Active
  <1> QED
    BY <1>5, <1>6, <1>7
    DEF Update!Erase, Spare, Stale, Confirmed, Active, Update!Role,
        Update!Running, Update!Nothing

\* While the boot record is left alone, writing the erased slot is Rewrite, or
\* invisible if the slot has no role; a verified slot is staged.
LEMMA UpdateWrite ==
    ASSUME Inv, NEW h, ReadyFor(h), NEW d \in Seq(Block), WriteFirmware(h, d)
    PROVE  [Update!Next]_Update!updateVars
  <1>1. part'[running] = part[running] /\ running' = running
    BY WriteFacts
  <1>2. Other \in Slot /\ Other # running /\ running \in Slot /\ Other' = Other
    BY <1>1, SlotFacts DEF Inv, Other
  <1>3. Active' = Active
    BY <1>1, <1>2, WriteOutcome DEF Active
  <1>a. Other \in unverified /\ Confirmed
    BY DEF ReadyFor, Confirmed
  <1>4. CASE UNCHANGED <<record, boot, unverified>>
    <2>1. /\ OtherRole' = OtherRole /\ Confirmed' = Confirmed
          /\ Stale = OtherRole /\ Stale' = Stale
      BY <1>1, <1>2, <1>4 DEF OtherRole, Confirmed, Stale, ReadyFor
    <2>2. CASE OtherRole = "none"
      <3>1. Spare' = Spare
        BY <2>1, <2>2 DEF Spare, Update!Nothing
      <3> QED
        BY <1>3, <2>1, <3>1, UpdateStutter
    <2>3. CASE OtherRole # "none"
      <3>1. Spare' \in {Update!Nothing} \cup {Update!Role(Stale, i, FALSE) : i \in Image}
        <4>1. Other' \in unverified'
          BY <1>2, <1>4, <1>a
        <4>2. CASE Startable(Other)'
          <5>1. Spare' = Update!Role(OtherRole', part'[Other'], FALSE)
            BY <2>1, <2>3, <4>1, <4>2 DEF Spare, Update!Role
          <5> QED
            BY <1>2, <2>1, <4>2, <5>1 DEF Startable
        <4>3. CASE ~ Startable(Other)'
          BY <4>3 DEF Spare, Update!Nothing
        <4> QED
          BY <4>2, <4>3
      <3>2. Update!Rewrite
        BY <1>3, <1>a, <2>1, <2>3, <3>1
        DEF Update!Rewrite, Spare, Stale, Confirmed, Active, Update!Role,
        Update!Running, Update!Nothing
      <3> QED
        BY <3>2 DEF Update!Next
    <2> QED
      BY <2>2, <2>3
  <1>5. CASE /\ part'[Other] \in Image /\ part'[Other] = h.hash
             /\ boot' = Other /\ record' = [record EXCEPT ![Other] = "new"]
             /\ unverified' = unverified \ {Other}
    <2> DEFINE i == part'[Other]
    <2>1. i \in Image /\ i \in Signed
      BY <1>5, HeaderFacts DEF ReadyFor
    <2>2. Confirmed /\ Confirmed' = Confirmed
      BY <1>1, <1>2, <1>5 DEF Confirmed, ReadyFor, Inv, TypeOK
    <2>3. OtherRole' = "staged" /\ Startable(Other)'
      BY <1>2, <1>5 DEF OtherRole, Startable
    <2>4. Spare' = Update!Role("staged", i, TRUE) /\ Stale' = "none"
      <3>1. Other' \notin unverified'
        BY <1>2, <1>5
      <3> QED
        BY <1>2, <2>3, <3>1 DEF Spare, Stale, Update!Role
    <2> HIDE DEF i
    <2>5. Update!Stage(i)
      BY <1>3, <2>1, <2>2, <2>4
      DEF Update!Stage, Spare, Stale, Confirmed, Active, Update!Role,
        Update!Running, Update!Nothing
    <2> QED
      BY <2>1, <2>5 DEF Update!Next
  <1> QED
    BY <1>4, <1>5, WriteOutcome

\* Confirming is confirming.
LEMMA UpdateConfirm ==
    ASSUME Inv, Confirm
    PROVE  Update!Confirm
  <1>1. Other \in Slot /\ Other # running /\ running \in Slot
    BY SlotFacts DEF Inv
  <1>2. record'[running] = "valid" /\ record'[Other] = record[Other]
    BY <1>1 DEF Inv, TypeOK, Confirm
  <1>3. UNCHANGED <<part, boot, running, unverified>> /\ Other' = Other
    BY DEF Confirm, Other
  <1>4. OtherRole' = OtherRole
    BY <1>2, <1>3 DEF OtherRole
  <1>5. Confirmed' = TRUE /\ Active' = Active /\ Spare' = Spare /\ Stale' = Stale
    BY <1>2, <1>3, <1>4 DEF Confirmed, Active, Spare, Stale, Startable, Update!Role,
       Update!Nothing
  <1> QED
    BY <1>5
    DEF Update!Confirm, Spare, Stale, Confirmed, Active, Update!Role,
        Update!Running, Update!Nothing

\* Giving an image up is the return to the spare one.
LEMMA UpdateGiveUp ==
    ASSUME Inv, GiveUp, boot = running
    PROVE  Update!Return
  <1>1. /\ Other \in Slot /\ Other # running /\ running \in Slot
        /\ 1 - Other = running
    BY SlotFacts DEF Inv
  <1>2. record'[running] = "aborted" /\ record'[Other] = "valid"
    BY <1>1 DEF Inv, TypeOK, GiveUp
  <1>3. running' = Other /\ boot' = Other /\ Other' = running /\ part' = part
        /\ unverified' = unverified
    BY <1>1 DEF GiveUp, Other
  <1>4. OtherRole = "previous" /\ OtherRole' = "none"
    BY <1>1, <1>2, <1>3 DEF OtherRole, GiveUp
  <1>5. Spare = Update!Role("previous", part[Other], Other \notin unverified)
    BY <1>4 DEF Spare, GiveUp
  <1>6. Spare # Update!Nothing /\ Spare.role = "previous" /\ Spare.img = part[Other]
        /\ Spare.verified = (Other \notin unverified)
    BY <1>5, SpareShapes
  <1>7. /\ Active' = Update!Running(part[Other], Other \notin unverified)
        /\ Spare' = Update!Nothing
        /\ Confirmed' = TRUE /\ Stale' = "none"
    BY <1>2, <1>3, <1>4 DEF Active, Spare, Confirmed, Stale, Update!Nothing
  <1> QED
    BY <1>6, <1>7
    DEF Update!Return, Spare, Stale, Confirmed, Active, Update!Role,
        Update!Running, Update!Nothing

\* Starting the new image is the start of the staged one.
LEMMA UpdateStartNew ==
    ASSUME Inv, StartNew
    PROVE  Update!StartStaged
  <1>1. /\ Other \in Slot /\ Other # running /\ running \in Slot
        /\ 1 - Other = running
    BY SlotFacts DEF Inv
  <1>2. record[running] = "valid" /\ Startable(running)
    BY <1>1 DEF Inv, StartsAfterReset, RunningRecord, StartNew
  <1>3. record'[running] = "valid" /\ record'[Other] = "pending"
    BY <1>1, <1>2 DEF Inv, TypeOK, StartNew
  <1>4. running' = Other /\ boot' = Other /\ Other' = running /\ part' = part
        /\ unverified' = unverified
    BY <1>1 DEF StartNew, Other
  <1>5. OtherRole = "staged" /\ OtherRole' = "previous" /\ Startable(Other)'
    BY <1>1, <1>2, <1>3, <1>4 DEF OtherRole, StartNew, Startable
  <1>6. Spare = Update!Role("staged", part[Other], Other \notin unverified)
    BY <1>5 DEF Spare, StartNew
  <1>7. Spare # Update!Nothing /\ Spare.role = "staged" /\ Spare.img = part[Other]
        /\ Spare.verified = (Other \notin unverified)
    BY <1>6, SpareShapes
  <1>8. /\ Active' = Update!Running(part[Other], Other \notin unverified)
        /\ Active.img = part[running]
        /\ Active.verified = (running \notin unverified)
        /\ Spare' = Update!Role("previous", part[running], running \notin unverified)
    BY <1>4, <1>5 DEF Active, Spare, Update!Role, Update!Running
  <1>9. /\ Confirmed' = FALSE
        /\ Stale' = IF running \notin unverified THEN "none" ELSE "previous"
    BY <1>3, <1>4, <1>5 DEF Confirmed, Stale
  <1> QED
    BY <1>7, <1>8, <1>9
    DEF Update!StartStaged, Spare, Stale, Confirmed, Active, Update!Role,
        Update!Running, Update!Nothing

\* What leaves the flash alone is no step of the update.
LEMMA UpdateFlash ==
    ASSUME UNCHANGED flash
    PROVE  UNCHANGED Update!updateVars
  <1>1. Active' = Active /\ Confirmed' = Confirmed /\ Spare' = Spare /\ Stale' = Stale
    BY DEF flash, Active, Confirmed, Spare, Stale, OtherRole, Startable, Other,
       Update!Role, Update!Nothing
  <1> QED
    BY <1>1, UpdateStutter

\* Every step is one of FirmwareUpdate, or none to it.
LEMMA UpdateNext == Inv /\ [Next]_vars => [Update!Next]_Update!updateVars
  <1> SUFFICES ASSUME Inv, [Next]_vars
               PROVE  [Update!Next]_Update!updateVars
    OBVIOUS
  <1>1. CASE UNCHANGED flash
    BY <1>1, UpdateFlash
  <1>2. CASE Begin
    BY <1>2, UpdateErase DEF Begin, Update!Next
  <1>3. CASE BeginFails
    BY <1>1, <1>3, UpdateErase DEF BeginFails, Update!Next
  <1>4. CASE Transfer
    <2>1. CASE \E k \in 1 .. HeaderSize - 1 : WriteHeaderPart(k)
      BY <1>1, <2>1 DEF WriteHeaderPart
    <2>2. ASSUME NEW h \in Header, NEW d \in Chunk, WriteHeaderEnd(h, d)
          PROVE  [Update!Next]_Update!updateVars
      <3>1. CASE UNCHANGED flash
        BY <3>1, UpdateFlash
      <3>2. CASE Accepts(h) /\ WriteFirmware(h, d)
        <4>1. received <= h.size /\ Len(<<>>) = 0
          BY <2>2, HeaderFacts, EmptySeq DEF Inv, Receiving, WriteHeaderEnd
        <4>2. ReadyFor(h)
          BY <2>2, <3>2, <4>1 DEF Inv, Receiving, ReadyFor, Accepts, WriteHeaderEnd
        <4> QED
          BY <3>2, <4>2, ChunkIsSeq, UpdateWrite
      <3> QED
        BY <2>2, <3>1, <3>2 DEF WriteHeaderEnd
    <2>3. ASSUME NEW d \in Chunk, Write(d)
          PROVE  [Update!Next]_Update!updateVars
      <3>1. ReadyFor(header)
        BY <2>3 DEF Inv, Receiving, HashedIsWritten, ReadyFor, Write
      <3> QED
        BY <2>3, <3>1, ChunkIsSeq, UpdateWrite DEF Write
    <2> QED
      BY <1>4, <2>1, <2>2, <2>3 DEF Transfer
  <1>5. CASE Confirm
    BY <1>5, UpdateConfirm DEF Update!Next
  <1>6. CASE Rollback
    BY <1>6, UpdateGiveUp DEF Rollback, Update!Next
  <1>7. CASE Reset
    BY <1>1, <1>7, UpdateGiveUp, UpdateStartNew DEF Reset, Update!Next
  <1>8. CASE \E k \in Key : AddTrustedKey(k)
    BY <1>1, <1>8 DEF AddTrustedKey
  <1>9. CASE \E v \in 0 .. MaxVersion : SetMinVersion(v)
    BY <1>1, <1>9 DEF SetMinVersion
  <1>10. CASE HostAbort
    BY <1>1, <1>10 DEF HostAbort
  <1>11. CASE UNCHANGED vars
    BY <1>1, <1>11 DEF vars
  <1> QED
    BY <1>2, <1>3, <1>4, <1>5, <1>6, <1>7, <1>8, <1>9, <1>10, <1>11 DEF Next

\* The update implements FirmwareUpdate: a verification stages signed firmware
\* only, a reset or a rollback starts that, the image before or what was left
\* unverified in a slot the boot record still names, and until the running
\* image is confirmed the way back is neither erased nor rewritten.
THEOREM ImplementsUpdate == Spec => UpdateSpec
  <1>1. Init => Update!Init
    BY UpdateInit
  <1>2. Inv /\ [Next]_vars => [Update!Next]_Update!updateVars
    BY UpdateNext
  <1> QED
    BY <1>1, <1>2, Invariance, PTL DEF Spec, UpdateSpec, Update!Spec
=============================================================================
