------------------------------- MODULE Partition -------------------------------
(***************************************************************************)
(* The flash partitions of src/src/partition.rs: the two ways between the  *)
(* types of the crate and the numbers of the partition table, the iterator *)
(* over the table, the operations of NorFlash, and the handles that a      *)
(* mapping into memory and wear levelling take on a partition.             *)
(*                                                                         *)
(* Assumed of C: esp_partition_next() frees the iterator at the end of the *)
(* table and returns null; flash is erased in sectors.                     *)
(***************************************************************************)
EXTENDS Naturals, Sequences, SequencesExt

CONSTANTS
    Table,      \* the partition table, numbers of types and subtypes
    Filters,    \* what iterators are asked for, None for every partition
    Iterators,
    Size,       \* the size of a partition that is written and erased
    ErasePage,  \* ERASE_SIZE
    None

ANY == 255
OTA_MIN == 16
OTA_MAX == 32
TEST == 32

Entry == [type : {0, 1}, subtype : 0 .. 254]

DataSubtypes ==
    {"Ota", "Phy", "Nvs", "Coredump", "NvsKeys", "Efuse", "Undefined",
     "EspHttpd", "Fat", "Spiffs"}

(* EspPartitionType; the OTA slots carry their number. *)
Types ==
    [kind : {"App"}, of : {"Factory", "Test", "Unknown"}, n : {0}]
    \union [kind : {"App"}, of : {"Ota"}, n : 0 .. 255]
    \union [kind : {"Data"}, of : DataSubtypes \union {"Unknown"}, n : {0}]
    \union [kind : {"Unknown"}, of : {"Unknown"}, n : {0}]

(* What the constants are required to be. *)
PartitionAssumption ==
    /\ Table \in Seq(Entry)
    /\ Filters \subseteq Types \union {None}
    /\ Size \in Nat /\ ErasePage \in Nat \ {0}
    /\ None \notin Types \union Nat

VARIABLES
    filter,     \* what each iterator was made for
    raw,        \* its raw_iter: a place in the table, or None for null
    allocated,  \* the iterators that C has not freed
    given,      \* what next_partition() has returned of each
    use,        \* what a partition is used through
    handles     \* what C keeps open of it

vars == <<filter, raw, allocated, given, use, handles>>

Init ==
    /\ filter = [i \in Iterators |-> None]
    /\ raw = [i \in Iterators |-> None]
    /\ allocated = {}
    /\ given = [i \in Iterators |-> <<>>]
    /\ use = "partition" /\ handles = {}

-----------------------------------------------------------------------------
(* The numbers of the data subtypes. *)
DataNumber ==
    [Ota |-> 0, Phy |-> 1, Nvs |-> 2, Coredump |-> 3, NvsKeys |-> 4,
     Efuse |-> 5, Undefined |-> 6, EspHttpd |-> 128, Fat |-> 129, Spiffs |-> 130]

(* EspPartitionType::raw(): what is not known stands for any.              *)
Raw(t) ==
    CASE t.kind = "App" /\ t.of = "Factory" -> [type |-> 0, subtype |-> 0]
      [] t.kind = "App" /\ t.of = "Test" -> [type |-> 0, subtype |-> TEST]
      [] t.kind = "App" /\ t.of = "Ota" -> [type |-> 0, subtype |-> OTA_MIN + t.n]
      [] t.kind = "App" /\ t.of = "Unknown" -> [type |-> 0, subtype |-> ANY]
      [] t.kind = "Data" -> [type |-> 1, subtype |->
            IF t.of \in DataSubtypes THEN DataNumber[t.of] ELSE ANY]
      [] t.kind = "Unknown" -> [type |-> ANY, subtype |-> ANY]

(* EspPartition::partition_type(), the way back: TEST is looked at before  *)
(* the OTA slots, whose range includes it.                                 *)
PartitionType(entry) ==
    CASE entry.type = 0 /\ entry.subtype = 0 ->
            [kind |-> "App", of |-> "Factory", n |-> 0]
      [] entry.type = 0 /\ entry.subtype = TEST ->
            [kind |-> "App", of |-> "Test", n |-> 0]
      [] entry.type = 0 /\ entry.subtype \in OTA_MIN .. OTA_MAX \ {TEST} ->
            [kind |-> "App", of |-> "Ota", n |-> entry.subtype - OTA_MIN]
      [] entry.type = 0 /\ entry.subtype \notin {0} \union OTA_MIN .. OTA_MAX ->
            [kind |-> "App", of |-> "Unknown", n |-> 0]
      [] entry.type = 1 ->
            [kind |-> "Data", n |-> 0, of |->
                IF \E d \in DataSubtypes : DataNumber[d] = entry.subtype
                THEN CHOOSE d \in DataSubtypes : DataNumber[d] = entry.subtype
                ELSE "Unknown"]

(* C compares both numbers, of which any matches all. *)
Matches(wanted, entry) ==
    /\ wanted.type \in {ANY, entry.type}
    /\ wanted.subtype \in {ANY, entry.subtype}

Wanted(f) == IF f = None THEN [type |-> ANY, subtype |-> ANY] ELSE Raw(f)

(* The first match from a place on, None when there is none. *)
FirstFrom(f, place) ==
    LET matching == {k \in place .. Len(Table) : Matches(Wanted(f), Table[k])}
    IN  IF matching = {} THEN None
        ELSE CHOOSE k \in matching : \A l \in matching : k <= l

-----------------------------------------------------------------------------
(* Variants with a bug. *)

(* raw_iter keeps the iterator that C has freed. *)
AdvanceStale(i, next) ==
    /\ raw' = [raw EXCEPT ![i] = IF next = None THEN @ ELSE next]
    /\ allocated' = IF next = None THEN allocated \ {i} ELSE allocated

(* A mapping is not undone when it is dropped. *)
ReleaseNothing == UNCHANGED handles

-----------------------------------------------------------------------------
(* EspPartitionIterator::new() *)
New(i, f) ==
    /\ i \notin allocated /\ raw[i] = None /\ given[i] = <<>>
    /\ filter' = [filter EXCEPT ![i] = f]
    /\ raw' = [raw EXCEPT ![i] = FirstFrom(f, 1)]
    /\ allocated' = IF FirstFrom(f, 1) = None THEN allocated ELSE allocated \union {i}
    /\ UNCHANGED <<given, use, handles>>

(* esp_partition_next() *)
Advance(i, next) ==
    /\ raw' = [raw EXCEPT ![i] = next]
    /\ allocated' = IF next = None THEN allocated \ {i} ELSE allocated

(* next_partition(); at the end, and ever after, it returns None.          *)
NextPartition(i) ==
    /\ raw[i] # None
    /\ given' = [given EXCEPT ![i] = Append(@, raw[i])]
    /\ Advance(i, FirstFrom(filter[i], raw[i] + 1))
    /\ UNCHANGED <<filter, use, handles>>

(* drop of the iterator, which may be anywhere; null is released, too.     *)
DropIterator(i) ==
    /\ raw' = [raw EXCEPT ![i] = None]
    /\ allocated' = allocated \ {i}
    /\ given' = [given EXCEPT ![i] = <<>>]
    /\ UNCHANGED <<filter, use, handles>>

(* mmap() and EspWlPartition::new(): C may refuse. A mapping borrows the   *)
(* partition, wear levelling takes it and drops it when it fails.          *)
Open(by) ==
    /\ use = "partition"
    /\ \/ handles' = handles \union {by} /\ use' = by
       \/ UNCHANGED handles /\ use' = IF by = "wl" THEN "gone" ELSE use
    /\ UNCHANGED <<filter, raw, allocated, given>>

(* esp_partition_munmap() and wl_unmount(), in the drop of each. *)
Release == handles' = handles \ {use}

Close ==
    /\ use \in {"mmap", "wl"}
    /\ Release
    /\ use' = IF use = "mmap" THEN "partition" ELSE "gone"
    /\ UNCHANGED <<filter, raw, allocated, given>>

Next ==
    \/ \E i \in Iterators :
          \/ \E f \in Filters : New(i, f)
          \/ NextPartition(i) \/ DropIterator(i)
    \/ \E by \in {"mmap", "wl"} : Open(by)
    \/ Close

Spec == Init /\ [][Next]_vars

-----------------------------------------------------------------------------
(* NorFlash::erase() of a range: the part that is erased, or an error,     *)
(* of the wrapper or of C, with the kind that NorFlashError gives it.      *)
ErrorKind(code) ==
    CASE code = "ESP_ERR_INVALID_ARG" -> "NotAligned"
      [] code = "ESP_ERR_INVALID_SIZE" -> "OutOfBounds"
      [] OTHER -> "Other"

Fails(code) == [error |-> ErrorKind(code), erased |-> {}]

EraseRange(offset, size) ==
    CASE offset + size > Size -> Fails("ESP_ERR_INVALID_SIZE")
      [] offset % ErasePage # 0 \/ size % ErasePage # 0 ->
            Fails("ESP_ERR_INVALID_ARG")
      [] OTHER -> [error |-> "none", erased |-> offset .. (offset + size - 1)]

Erase(from, to) ==
    IF to < from THEN Fails("ESP_ERR_INVALID_SIZE")
    ELSE EraseRange(from, to - from)

-----------------------------------------------------------------------------
(* Properties *)

(* The values the variables take. *)
TypeOK ==
    /\ filter \in [Iterators -> Filters \union {None}]
    /\ raw \in [Iterators -> DOMAIN Table \union {None}]
    /\ allocated \subseteq Iterators
    /\ given \in [Iterators -> Seq(DOMAIN Table)]
    /\ use \in {"partition", "mmap", "wl", "gone"}
    /\ handles \subseteq {"mmap", "wl"}

(* A number of the table becomes a type and the same number again, unless  *)
(* the type is unknown.                                                    *)
TypesAreFaithful ==
    \A k \in DOMAIN Table : LET t == PartitionType(Table[k]) IN
        /\ t \in Types
        /\ t.of # "Unknown" => Raw(t) = Table[k]

(* An iterator returns the partitions of its type, each once and in the    *)
(* order of the table, and all of them before the first None. (An unknown  *)
(* type stands for any, and Ota(16) and more for numbers that are not      *)
(* those of OTA slots.)                                                    *)
EachPartitionOnce ==
    \A i \in Iterators :
        /\ \A k, l \in DOMAIN given[i] : k < l => given[i][k] < given[i][l]
        /\ \A k \in DOMAIN given[i] :
              filter[i] # None /\ filter[i].of # "Unknown"
                      /\ filter[i].n < OTA_MAX - OTA_MIN =>
                  PartitionType(Table[given[i][k]]) = filter[i]
        /\ raw[i] = None /\ given[i] # <<>> =>
              \A k \in DOMAIN Table :
                  Matches(Wanted(filter[i]), Table[k]) => Contains(given[i], k)

(* C's iterator exists as long as the iterator has it, and its handles     *)
(* exist as long as what uses the partition.                               *)
HandlesMatch ==
    /\ \A i \in Iterators : i \in allocated <=> raw[i] # None
    /\ handles = {use} \intersect {"mmap", "wl"}

(* erase(from, to) erases exactly what is between the two or nothing.      *)
ErasesTheRange ==
    \A from, to \in 0 .. Size + ErasePage :
        /\ Erase(from, to).error = "none" =>
              from <= to /\ Erase(from, to).erased = from .. to - 1
        /\ Erase(from, to).error # "none" => Erase(from, to).erased = {}
=============================================================================
