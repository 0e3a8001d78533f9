---------------------------- MODULE NvsPartition ----------------------------
(***************************************************************************)
(* Taking, sharing and dropping the partitions of src/src/nvs.rs. The      *)
(* default partition is guarded by the flag DEFAULT_TAKEN, the custom and  *)
(* the encrypted ones by the set of names NONDEFAULT_LOCKED, each under    *)
(* its mutex. A partition is an Arc that an EspNvs keeps as well; dropping *)
(* the last Arc of a custom or encrypted one deinitialises it in NVS,      *)
(* which invalidates the NVS handles on it. The name of the default one is *)
(* not registered: a custom partition may be taken by that name.           *)
(***************************************************************************)
EXTENDS Naturals, FiniteSets

CONSTANTS
    Tasks,          \* the threads that use partitions
    Names,          \* the names given to take() of the nondefault kinds
    DefaultName     \* the name of the default partition in NVS

Kinds == {"default", "custom", "encrypted"}

(* What a take() returns: its kind, its name in NVS and who took it. *)
Partitions ==
    {p \in [kind : Kinds, name : Names \union {DefaultName}, taker : Tasks] :
        IF p.kind = "default" THEN p.name = DefaultName ELSE p.name \in Names}

VARIABLES
    taken,      \* DEFAULT_TAKEN
    locked,     \* NONDEFAULT_LOCKED
    inited,     \* the partitions that are initialised in NVS
    arcs,       \* who holds an Arc of which partition
    dropping,   \* the partitions whose last Arc is gone
    nvs,        \* who has an EspNvs on which partition
    open,       \* those whose NVS handle is valid
    panicked,   \* history: the unwrap() in a drop has failed
    shared      \* history: the default partition was taken by its name, too

vars == <<taken, locked, inited, arcs, dropping, nvs, open, panicked, shared>>

Init ==
    /\ taken = FALSE /\ locked = {} /\ inited = {}
    /\ arcs = {} /\ dropping = {}
    /\ nvs = {} /\ open = {}
    /\ panicked = FALSE /\ shared = FALSE

(* The partitions some Arc keeps alive. *)
Living == {h[2] : h \in arcs \union nvs}

(* An Arc of p is given up, those in rest stay. *)
Unref(p, rest) ==
    dropping' = IF \E h \in rest : h[2] = p THEN dropping ELSE dropping \union {p}

-----------------------------------------------------------------------------
(* Variants with a bug. *)

(* NvsEncrypted::new does not look at what is registered. *)
TakeNamedUnchecked(t, kind, n) ==
    LET p == [kind |-> kind, name |-> n, taker |-> t]
    IN  /\ kind = "custom" => n \notin locked
        /\ p \notin Living \union dropping
        /\ locked' = locked \union {n}
        /\ inited' = inited \union {n}
        /\ arcs' = arcs \union {<<t, p>>}
        /\ shared' = (shared \/ n = DefaultName)
        /\ UNCHANGED <<taken, dropping, nvs, open, panicked>>

(* The handle of an EspNvs is not closed. *)
CloseLeaks(t, p) ==
    /\ <<t, p>> \in nvs
    /\ nvs' = nvs \ {<<t, p>>}
    /\ Unref(p, arcs \union nvs')
    /\ UNCHANGED <<taken, locked, inited, arcs, open, panicked, shared>>

-----------------------------------------------------------------------------
(* take() of the default partition, if nvs_flash_init() succeeds. *)
TakeDefault(t) ==
    /\ ~ taken
    /\ taken' = TRUE
    /\ inited' = inited \union {DefaultName}
    /\ arcs' = arcs \union {<<t, [kind |-> "default", name |-> DefaultName,
                                  taker |-> t]>>}
    /\ UNCHANGED <<locked, dropping, nvs, open, panicked, shared>>

(* take() of a custom or an encrypted partition, which NVS initialises; it *)
(* does not mind when it is initialised already, as the default one is.    *)
TakeNamed(t, kind, n) ==
    /\ n \notin locked
    /\ locked' = locked \union {n}
    /\ inited' = inited \union {n}
    /\ arcs' = arcs \union {<<t, [kind |-> kind, name |-> n, taker |-> t]>>}
    /\ shared' = (shared \/ n = DefaultName)
    /\ UNCHANGED <<taken, dropping, nvs, open, panicked>>

Clone(t, u, p) ==
    /\ <<t, p>> \in arcs
    /\ arcs' = arcs \union {<<u, p>>}
    /\ UNCHANGED <<taken, locked, inited, dropping, nvs, open, panicked, shared>>

(* EspNvs::new: NVS opens a handle, the EspNvs keeps the Arc it was given. *)
Open(t, p) ==
    /\ <<t, p>> \in arcs
    /\ <<t, p>> \notin nvs
    /\ p.name \in inited
    /\ arcs' = arcs \ {<<t, p>>}
    /\ nvs' = nvs \union {<<t, p>>}
    /\ open' = open \union {<<t, p>>}
    /\ UNCHANGED <<taken, locked, inited, dropping, panicked, shared>>

(* EspNvs::new fails, or a clone is dropped. *)
DropArc(t, p) ==
    /\ <<t, p>> \in arcs
    /\ arcs' = arcs \ {<<t, p>>}
    /\ Unref(p, arcs' \union nvs)
    /\ UNCHANGED <<taken, locked, inited, nvs, open, panicked, shared>>

(* The drop of an EspNvs closes its handle, then gives up the partition.   *)
Close(t, p) ==
    /\ <<t, p>> \in nvs
    /\ nvs' = nvs \ {<<t, p>>}
    /\ open' = open \ {<<t, p>>}
    /\ Unref(p, arcs \union nvs')
    /\ UNCHANGED <<taken, locked, inited, arcs, panicked, shared>>

(* NvsDefault::drop leaves the partition initialised. *)
DropDefault(p) ==
    /\ p \in dropping /\ p.kind = "default"
    /\ taken' = FALSE
    /\ dropping' = dropping \ {p}
    /\ UNCHANGED <<locked, inited, arcs, nvs, open, panicked, shared>>

(* NvsCustom::drop, NvsEncrypted::drop *)
DropNamed(p) ==
    /\ p \in dropping /\ p.kind # "default"
    /\ panicked' = (panicked \/ p.name \notin inited)
    /\ inited' = inited \ {p.name}
    /\ locked' = locked \ {p.name}
    /\ open' = {h \in open : h[2].name # p.name}
    /\ dropping' = dropping \ {p}
    /\ UNCHANGED <<taken, arcs, nvs, shared>>

-----------------------------------------------------------------------------
Next ==
    \/ \E t \in Tasks :
        \/ TakeDefault(t)
        \/ \E kind \in {"custom", "encrypted"}, n \in Names : TakeNamed(t, kind, n)
        \/ \E p \in Partitions :
            \/ \E u \in Tasks : Clone(t, u, p)
            \/ Open(t, p) \/ DropArc(t, p) \/ Close(t, p)
    \/ \E p \in Partitions : DropDefault(p) \/ DropNamed(p)

Spec == Init /\ [][Next]_vars

-----------------------------------------------------------------------------
(* Properties *)

(* The values the variables take. *)
TypeOK ==
    /\ taken \in BOOLEAN
    /\ locked \subseteq Names
    /\ inited \subseteq Names \union {DefaultName}
    /\ arcs \subseteq Tasks \X Partitions
    /\ dropping \subseteq Partitions
    /\ open \subseteq nvs /\ nvs \subseteq Tasks \X Partitions
    /\ panicked \in BOOLEAN /\ shared \in BOOLEAN

(* NVS is not taken down under an EspNvs: its handle is valid as long as   *)
(* it lives. One on the default partition is, as long as nobody takes that *)
(* partition by its name as well; the drop of that one closes it.          *)
HandlesStayValid ==
    \A h \in nvs : h \in open \/ (h[2].kind = "default" /\ shared)

(* What does not hold of an EspNvs on the default partition.               *)
EveryHandleStaysValid == open = nvs

(* No two partitions share a name, be they custom or encrypted, and a name *)
(* is locked exactly while its partition exists: it can be taken again.    *)
OneOwner ==
    LET Named == {p \in Living \union dropping : p.kind # "default"}
    IN  /\ \A p, q \in Named : p.name = q.name => p = q
        /\ locked = {p.name : p \in Named}

(* The unwrap() of nvs_flash_deinit_partition() does not panic.            *)
DropSucceeds == ~ panicked
=============================================================================
