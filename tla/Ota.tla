--------------------------------- MODULE Ota ---------------------------------
(***************************************************************************)
(* Over-the-air updates, src/src/ota.rs: the one EspOta, the update it     *)
(* begins, and the handle ESP-IDF keeps for that update until it is ended  *)
(* or aborted. Rust's borrows let an EspOta do nothing else while its      *)
(* EspOtaUpdate or EspOtaUpdateFinished is alive. The device may lose      *)
(* power at any step; what the boot loader then runs is ESP-IDF's choice.  *)
(***************************************************************************)
EXTENDS Naturals

CONSTANTS
    Threads,        \* the threads that want to be the one to update
    MaxUpdates      \* bound: the updates begun between two boots

(* What the constants are required to be. *)
OtaAssumption == MaxUpdates \in Nat \ {0}

AppSlots == {"factory", "ota_0", "ota_1"}

VARIABLES
    taken,      \* TAKEN
    pc,         \* what each thread has: "none", "ota" (an EspOta),
                \* "update" (an EspOtaUpdate), "finished"
    handle,     \* the handle of each thread's EspOtaUpdate
    slot,       \* its partition
    handles,    \* the handles that are valid in ESP-IDF
    last,       \* the last handle ESP-IDF has given out
    image,      \* what each slot holds: "none", "part" or "whole"
    trust,      \* the state of each slot
    boot,       \* the configured boot slot
    running,    \* the running slot
    misused     \* history: esp_ota_abort() was given an invalid handle

own == <<taken, pc, handle, slot>>
flash == <<image, trust, boot>>
vars == <<own, handles, last, flash, running, misused>>

Init ==
    /\ taken = FALSE
    /\ pc = [t \in Threads |-> "none"]
    /\ handle = [t \in Threads |-> 0]
    /\ slot = [t \in Threads |-> "ota_0"]
    /\ handles = {} /\ last = 0
    /\ image = [s \in AppSlots |-> IF s = "factory" THEN "whole" ELSE "none"]
    /\ trust = [s \in AppSlots |-> "unknown"]
    /\ boot = "factory" /\ running = "factory"
    /\ misused = FALSE

(* esp_ota_get_next_update_partition(): the OTA slot after s. *)
NextSlot(s) == IF s = "ota_0" THEN "ota_1" ELSE "ota_0"

(* EspOtaUpdate::drop calls esp_ota_abort(h) while the handles in valid    *)
(* are valid.                                                              *)
Abort(h, valid) ==
    /\ handles' = valid \ {h}
    /\ misused' = (misused \/ h \notin valid)

(* esp_ota_set_boot_partition(s) refuses what is not a valid image. *)
SetBoot(s) ==
    /\ image[s] = "whole"
    /\ boot' = s
    /\ trust' = [trust EXCEPT ![s] = IF s = "factory" THEN "unknown" ELSE "new"]
    /\ UNCHANGED image

Has(t, what) == pc[t] = what

Becomes(t, what) == pc' = [pc EXCEPT ![t] = what]

-----------------------------------------------------------------------------
(* Variants with a bug. *)

(* The slot to update is the one after the boot slot. *)
UpdateSlotOfBoot == NextSlot(boot)

(* abort() forgets the EspOtaUpdate. *)
CancelForgets(t) ==
    /\ Has(t, "update")
    /\ Becomes(t, "ota")
    /\ UNCHANGED <<taken, handle, slot, handles, last, flash, running, misused>>

-----------------------------------------------------------------------------
(* EspOta *)

New(t) ==
    /\ Has(t, "none")
    /\ ~ taken
    /\ taken' = TRUE
    /\ Becomes(t, "ota")
    /\ UNCHANGED <<handle, slot, handles, last, flash, running, misused>>

DropOta(t) ==
    /\ Has(t, "ota")
    /\ taken' = FALSE
    /\ Becomes(t, "none")
    /\ UNCHANGED <<handle, slot, handles, last, flash, running, misused>>

UpdateSlot == NextSlot(running)

(* initiate_update(): esp_ota_begin() erases the slot, and may fail when   *)
(* it has; it refuses when the running slot is not confirmed.              *)
InitiateOk(t) ==
    /\ Has(t, "ota")
    /\ trust[running] # "pending"
    /\ last < MaxUpdates
    /\ last' = last + 1
    /\ handles' = handles \union {last + 1}
    /\ handle' = [handle EXCEPT ![t] = last + 1]
    /\ slot' = [slot EXCEPT ![t] = UpdateSlot]
    /\ image' = [image EXCEPT ![UpdateSlot] = "none"]
    /\ Becomes(t, "update")
    /\ UNCHANGED <<taken, trust, boot, running, misused>>

InitiateFails(t) ==
    /\ Has(t, "ota")
    /\ trust[running] # "pending"
    /\ image' = [image EXCEPT ![UpdateSlot] = "none"]
    /\ UNCHANGED <<own, handles, last, trust, boot, running, misused>>

FactoryReset(t) ==
    /\ Has(t, "ota")
    /\ SetBoot("factory")
    /\ UNCHANGED <<own, handles, last, running, misused>>

MarkValid(t) ==
    /\ Has(t, "ota")
    /\ trust' = [trust EXCEPT ![running] =
                    IF @ \in {"new", "pending"} THEN "valid" ELSE @]
    /\ UNCHANGED <<own, handles, last, image, boot, running, misused>>

-----------------------------------------------------------------------------
(* EspOtaUpdate and EspOtaUpdateFinished *)

(* write(): the last of the image is written, or something before it. An   *)
(* error of esp_ota_write() leaves the update as it is.                    *)
Write(t) ==
    /\ Has(t, "update")
    /\ image[slot[t]] # "whole"
    /\ \E w \in {"part", "whole"} : image' = [image EXCEPT ![slot[t]] = w]
    /\ UNCHANGED <<own, handles, last, trust, boot, running, misused>>

(* esp_ota_end() validates the image; it gives up the handle in any case.  *)
FinishOk(t) ==
    /\ Has(t, "update")
    /\ image[slot[t]] = "whole"
    /\ handles' = handles \ {handle[t]}
    /\ Becomes(t, "finished")
    /\ UNCHANGED <<taken, handle, slot, last, flash, running, misused>>

CompleteOk(t) ==
    /\ Has(t, "update")
    /\ SetBoot(slot[t])
    /\ handles' = handles \ {handle[t]}
    /\ Becomes(t, "ota")
    /\ UNCHANGED <<taken, handle, slot, last, running, misused>>

(* finish(), complete(): esp_ota_end() fails, or esp_ota_set_boot_partition()*)
(* after it, and the question mark drops the EspOtaUpdate.                 *)
EndFails(t) ==
    /\ Has(t, "update")
    /\ Abort(handle[t], handles \ {handle[t]})
    /\ Becomes(t, "ota")
    /\ UNCHANGED <<taken, handle, slot, last, flash, running>>

(* abort(), or the EspOtaUpdate is dropped. *)
Cancel(t) ==
    /\ Has(t, "update")
    /\ Abort(handle[t], handles)
    /\ Becomes(t, "ota")
    /\ UNCHANGED <<taken, handle, slot, last, flash, running>>

Activate(t) ==
    /\ Has(t, "finished")
    /\ SetBoot(slot[t])
    /\ Becomes(t, "ota")
    /\ UNCHANGED <<taken, handle, slot, handles, last, running, misused>>

(* activate() fails, or the EspOtaUpdateFinished is dropped without it. *)
DropFinished(t) ==
    /\ Has(t, "finished")
    /\ Becomes(t, "ota")
    /\ UNCHANGED <<taken, handle, slot, handles, last, flash, running, misused>>

-----------------------------------------------------------------------------
(* ESP-IDF: the boot loader runs the boot slot, unless its image is broken *)
(* or was rejected or left unconfirmed; then another whole one that is not.*)
Acceptable(s, states) ==
    image[s] = "whole" /\ states[s] \notin {"invalid", "aborted"}

BootFrom(states) ==
    LET judged == [s \in AppSlots |-> IF states[s] = "pending" THEN "aborted"
                                                            ELSE states[s]]
    IN  \E s \in AppSlots :
          /\ IF Acceptable(boot, judged) THEN s = boot
             ELSE Acceptable(s, judged) \/ s = "factory"
          /\ running' = s
          /\ boot' = s
          /\ trust' = [judged EXCEPT ![s] = IF @ = "new" THEN "pending" ELSE @]

(* What is in memory only is gone. *)
Forget ==
    /\ taken' = FALSE
    /\ pc' = [t \in Threads |-> "none"]
    /\ handles' = {} /\ last' = 0
    /\ UNCHANGED <<handle, slot, image, misused>>

Reboot == BootFrom(trust) /\ Forget

(* mark_running_slot_invalid_and_reboot() *)
MarkInvalid(t) ==
    /\ Has(t, "ota")
    /\ \E s \in AppSlots \ {running} : Acceptable(s, trust)
    /\ BootFrom([trust EXCEPT ![running] = "invalid"])
    /\ Forget

-----------------------------------------------------------------------------
Next ==
    \/ Reboot
    \/ \E t \in Threads :
        \/ New(t) \/ DropOta(t) \/ InitiateOk(t) \/ InitiateFails(t)
        \/ FactoryReset(t) \/ MarkValid(t) \/ MarkInvalid(t)
        \/ Write(t) \/ FinishOk(t) \/ CompleteOk(t) \/ EndFails(t) \/ Cancel(t)
        \/ Activate(t) \/ DropFinished(t)

Spec == Init /\ [][Next]_vars

-----------------------------------------------------------------------------
(* Properties *)

(* The values the variables take. *)
TypeOK ==
    /\ taken \in BOOLEAN
    /\ pc \in [Threads -> {"none", "ota", "update", "finished"}]
    /\ handle \in [Threads -> 0 .. MaxUpdates]
    /\ slot \in [Threads -> AppSlots \ {"factory"}]
    /\ handles \subseteq 1 .. MaxUpdates
    /\ last \in 0 .. MaxUpdates
    /\ image \in [AppSlots -> {"none", "part", "whole"}]
    /\ trust \in [AppSlots -> {"unknown", "new", "pending", "valid",
                            "invalid", "aborted"}]
    /\ boot \in AppSlots /\ running \in AppSlots
    /\ misused \in BOOLEAN

(* ESP-IDF keeps exactly the handles of the updates that are alive: no way *)
(* out of an update, failed or not, leaves its handle behind.              *)
HandlesMatch ==
    handles = {handle[t] : t \in {u \in Threads : Has(u, "update")}}

(* Two threads that call new() do not both update, and the EspOta is free  *)
(* again when it is dropped.                                               *)
OneInstance ==
    /\ taken <=> \E t \in Threads : ~ Has(t, "none")
    /\ \A t, u \in Threads : ~ Has(t, "none") /\ ~ Has(u, "none") => t = u

(* The image that runs is never written over, also when another slot has   *)
(* been activated since it was booted.                                     *)
RunningIntact == image[running] = "whole"

(* ota.rs:420: "`esp_ota_abort` can only fail if the provided OTA handle   *)
(* is invalid [..] The methods which invalidate the OTA handle all call    *)
(* `mem::forget(self)`."                                                   *)
AbortedHandleIsValid == ~ misused
=============================================================================
