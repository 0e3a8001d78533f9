------------------------------ MODULE KeyValue ------------------------------
(***************************************************************************)
(* EspKeyValueStorage of src/src/nvs.rs: one key of a namespace, written by *)
(* tasks that each have a storage of their own. NVS keeps items by key and  *)
(* type, and every NVS call is atomic and durable, but may fail; set_raw()  *)
(* and remove() are several calls. The chip may be reset at any time.      *)
(***************************************************************************)
EXTENDS Naturals, Sequences

CONSTANTS
    Tasks,      \* the tasks that write the key
    Values      \* the byte strings they write

Byte == 0 .. 255

(* What the constants are required to be. *)
ValuesAssumption == Values \subseteq Seq(Byte)

(* An item, and what get_raw() returns, is a set of one value or none. *)
Absent == {}

VARIABLES
    u64,        \* the item of type u64, its bytes from the lowest one
    blob,       \* the item of type blob
    pc,         \* where each task is in set_raw()
    arg,        \* what it writes
    possible,   \* history: the values get_raw() may return
    removed,    \* history: remove() said so and nobody wrote since
    stale       \* history: an erase has failed, and its item may be there yet

vars == <<u64, blob, pc, arg, possible, removed, stale>>

Init ==
    /\ u64 = Absent /\ blob = Absent
    /\ pc = [t \in Tasks |-> "idle"]
    /\ arg = [t \in Tasks |-> <<>>]
    /\ possible = {Absent}
    /\ removed = FALSE
    /\ stale = FALSE

-----------------------------------------------------------------------------
(* Variants with a bug. *)

(* The bytes are shifted in from the first to the last. *)
EncodeReversed(v) ==
    [i \in 1 .. 8 |-> CASE i = 1 -> Len(v)
                        [] i \in 2 .. Len(v) + 1 -> v[Len(v) + 2 - i]
                        [] OTHER -> 0]

-----------------------------------------------------------------------------
(* set_raw(): a short value and its length make a u64: the last byte is    *)
(* shifted in first, the length last, so that the length is the low byte   *)
(* and the value follows from its first byte on.                           *)
Encode(v) ==
    [i \in 1 .. 8 |-> CASE i = 1 -> Len(v)
                        [] i \in 2 .. Len(v) + 1 -> v[i - 1]
                        [] OTHER -> 0]

Fits(v) == Len(v) < 8

(* get_raw(): the low byte is the length. *)
Decode(word) == SubSeq(word, 2, 1 + word[1])

Stored == IF u64 # Absent THEN {Decode(word) : word \in u64} ELSE blob

(* nvs_erase_key() erases one item of that name, whatever its type.        *)
EraseKey ==
    /\ \/ u64 # Absent /\ u64' = Absent /\ UNCHANGED blob
       \/ blob # Absent /\ blob' = Absent /\ UNCHANGED u64
       \/ u64 = Absent /\ blob = Absent /\ UNCHANGED <<u64, blob>>
    /\ stale' = (stale /\ (u64' # Absent \/ blob' # Absent))

(* set_raw() and set_blob() pay no heed to an erase that fails, be it      *)
(* because there is nothing to erase.                                      *)
EraseKeyOrNot ==
    \/ EraseKey /\ possible' = possible \union {Absent}
    \/ /\ u64 # Absent \/ blob # Absent
       /\ stale' = TRUE
       /\ UNCHANGED <<u64, blob, possible>>

-----------------------------------------------------------------------------
SetRaw(t) ==
    /\ pc[t] = "idle"
    /\ \E v \in Values : arg' = [arg EXCEPT ![t] = v]
    /\ pc' = [pc EXCEPT ![t] = "remove"]
    /\ removed' = FALSE
    /\ UNCHANGED <<u64, blob, possible, stale>>

(* The key is removed first ... *)
ClearKey(t) ==
    /\ pc[t] = "remove"
    /\ EraseKeyOrNot
    /\ pc' = [pc EXCEPT ![t] = IF Fits(arg[t]) THEN "set" ELSE "clear"]
    /\ UNCHANGED <<arg, removed>>

(* ... and once more by set_blob() ... *)
ClearForBlob(t) ==
    /\ pc[t] = "clear"
    /\ EraseKeyOrNot
    /\ pc' = [pc EXCEPT ![t] = "set"]
    /\ UNCHANGED <<arg, removed>>

(* ... then the item of one of the types is written. *)
SetItem(t) ==
    /\ pc[t] = "set"
    /\ IF Fits(arg[t])
       THEN u64' = {Encode(arg[t])} /\ UNCHANGED blob
       ELSE blob' = {arg[t]} /\ UNCHANGED u64
    /\ pc' = [pc EXCEPT ![t] = "idle"]
    /\ possible' = {{arg[t]}}
    /\ stale' = (stale /\ IF Fits(arg[t]) THEN blob # Absent ELSE u64 # Absent)
    /\ UNCHANGED <<arg, removed>>

(* NVS has no room: set_raw() returns an error, and the key stays removed, *)
(* if it was.                                                              *)
SetItemFails(t) ==
    /\ pc[t] = "set"
    /\ pc' = [pc EXCEPT ![t] = "idle"]
    /\ possible' = IF stale THEN possible ELSE {Absent}
    /\ UNCHANGED <<u64, blob, arg, removed, stale>>

(* remove(), unless the erase fails, which it returns. *)
RemoveKey(t) ==
    /\ pc[t] = "idle"
    /\ EraseKey
    /\ possible' = {Absent}
    /\ removed' = \A o \in Tasks : pc[o] = "idle"
    /\ UNCHANGED <<pc, arg>>

(* The chip is reset. *)
Reset ==
    /\ pc' = [t \in Tasks |-> "idle"]
    /\ UNCHANGED <<u64, blob, arg, possible, removed, stale>>

Next ==
    \/ \E t \in Tasks :
          \/ SetRaw(t) \/ ClearKey(t) \/ ClearForBlob(t)
          \/ SetItem(t) \/ SetItemFails(t) \/ RemoveKey(t)
    \/ Reset

Spec == Init /\ [][Next]_vars

-----------------------------------------------------------------------------
(* Properties *)

(* The values the variables take. *)
TypeOK ==
    /\ \A word \in u64 : word \in [1 .. 8 -> Byte] /\ word[1] < 8
    /\ \A v \in blob : Len(v) >= 8
    /\ pc \in [Tasks -> {"idle", "remove", "clear", "set"}]
    /\ arg \in [Tasks -> Values \union {<<>>}]
    /\ removed \in BOOLEAN /\ stale \in BOOLEAN

(* get_raw() returns the value of the last set_raw(), byte for byte. After *)
(* a reset, or a failure, in set_raw() it is the value before or none. But  *)
(* where an erase has failed of which set_raw() does not tell, an item it  *)
(* has left may hide the value.                                            *)
ReadsTheLastWrite == stale \/ Stored \in possible

(* The key has one item, so that get_raw() and remove() mean the same one, *)
(* with the same exception.                                                *)
OneItem == stale \/ u64 = Absent \/ blob = Absent

(* What set_raw() promises when it returns Ok, and does not hold of it: an *)
(* item of the other type that an erase has left hides the value.          *)
WrittenIsRead == Stored \in possible

(* nvs.rs:914: contains() "works correctly with this storage strategy": it *)
(* is false after remove().                                                *)
RemovedIsGone == removed => Stored = Absent
=============================================================================
