--------------------------- MODULE FirmwareUpdate ---------------------------
(***************************************************************************)
(* What an update with two slots promises, without buffers, handles and    *)
(* partition tables: one image is active, and the spare slot may hold the  *)
(* image to start next or the one to return to.  Ota implements it.        *)
(***************************************************************************)
CONSTANTS
    Image,    \* the contents that can be started
    Signed,   \* the contents with a valid signature
    Factory   \* the image of a new device

VARIABLES
    active,     \* the image that runs, and whether it was verified in its slot
    confirmed,  \* it has been confirmed
    spare,      \* the other slot: nothing to start, or an image and its role,
                \* and whether the image was verified there
    stale       \* the role the boot record still gives to a slot that has
                \* been erased and not verified since, else "none"

updateVars == <<active, confirmed, spare, stale>>

Nothing == [role |-> "none"]
Role(r, i, v) == [role |-> r, img |-> i, verified |-> v]
Running(i, v) == [img |-> i, verified |-> v]

Init ==
    /\ active = Running(Factory, TRUE) /\ confirmed = TRUE
    /\ spare = Nothing /\ stale = "none"

\* The spare slot is erased, for a new update.  What is active must have been
\* confirmed: until then the spare slot is the way back.
Erase ==
    /\ confirmed
    /\ spare' = Nothing
    /\ stale' = IF spare = Nothing THEN stale ELSE spare.role
    /\ UNCHANGED <<active, confirmed>>

\* An update has been verified; only signed images get here.
Stage(i) ==
    /\ confirmed
    /\ i \in Signed
    /\ spare' = Role("staged", i, TRUE) /\ stale' = "none"
    /\ UNCHANGED <<active, confirmed>>

\* While a slot that the boot record still names is being written, it may
\* hold any image, in the role it had: not verified.
Rewrite ==
    /\ confirmed
    /\ stale # "none"
    /\ spare' \in {Nothing} \cup {Role(stale, i, FALSE) : i \in Image}
    /\ UNCHANGED <<active, confirmed, stale>>

\* A reset starts the staged image; the one that was active is the way back.
StartStaged ==
    /\ spare # Nothing /\ spare.role = "staged"
    /\ active' = Running(spare.img, spare.verified)
    /\ spare' = Role("previous", active.img, active.verified)
    /\ confirmed' = FALSE
    /\ stale' = IF active.verified THEN "none" ELSE "previous"

\* A reset before the confirmation, or a rollback.
Return ==
    /\ spare # Nothing /\ spare.role = "previous"
    /\ active' = Running(spare.img, spare.verified)
    /\ spare' = Nothing
    /\ confirmed' = TRUE /\ stale' = "none"

Confirm ==
    /\ confirmed' = TRUE
    /\ UNCHANGED <<active, spare, stale>>

Next ==
    \/ Erase \/ Rewrite \/ StartStaged \/ Return \/ Confirm
    \/ \E i \in Image : Stage(i)

Spec == Init /\ [][Next]_updateVars
=============================================================================
