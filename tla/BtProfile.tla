------------------------------ MODULE BtProfile -----------------------------
(***************************************************************************)
(* A profile of Bluedroid, from its creation to its drop, and the events   *)
(* it turns over to its closure: GATT client and server, GAP, BLE GAP,     *)
(* A2DP, AVRC and hands-free. All of them take a BtSingleton (BtCallback   *)
(* is the module about its mutex), register C functions, initialise what   *)
(* the stack asks them to, and undo that in drop() as far as the stack     *)
(* lets them.                                                              *)
(***************************************************************************)
EXTENDS BtEvents, Naturals, Sequences

CONSTANT Profiles       \* the profiles that behaviours are about

(* What the constants are required to be. *)
BtProfileAssumption ==
    Profiles \subseteq {"gattc", "gatts", "gap", "blegap", "sink", "source",
                        "duplex", "avrc", "hfp"}

VARIABLES
    profile,    \* the profile
    pc,         \* where its owner is: none, new, live, drop, dead
    step,       \* the steps of new() or of drop() that are done
    taken,      \* BtSingleton::initialized
    spoiled,    \* history: a new() has failed half-way
    subscribed, \* BtSingleton::callback holds a closure
    open,       \* what is registered or initialised in the stack
    posted,     \* the event that the stack is about to deliver
    last,       \* history: the event that was delivered last
    told        \* history: what the closure was told for it

vars == <<profile, pc, step, taken, spoiled, subscribed, open, posted, last,
    told>>

(* No event, no row. *)
NoEvent == "none"
NoRow == <<>>

Init ==
    /\ profile \in Profiles
    /\ pc = "none"
    /\ step = 0
    /\ taken = FALSE
    /\ spoiled = FALSE
    /\ subscribed = FALSE
    /\ open = {}
    /\ posted = NoRow
    /\ last = NoEvent
    /\ told = NoRow

-----------------------------------------------------------------------------
(* What new() does after the singleton is taken, in order ... *)
GapNew == <<"callback">>
SinkNew == <<"callback", "sink.data", "sink">>
SourceNew == <<"callback", "source.data", "source">>
AvrcNew == <<"callback", "controller">>
HfpNew == <<"callback", "client", "data">>

NewSteps ==
    CASE profile = "sink" -> SinkNew
      [] profile = "source" -> SourceNew
      [] profile = "duplex" -> SinkNew \o Tail(SourceNew)
      [] profile = "avrc" -> AvrcNew
      [] profile = "hfp" -> HfpNew
      [] OTHER -> GapNew

(* A variant with a bug: C keeps the callback of a server that is gone.    *)
GattsDropNothing == <<>>

(* ... and what drop() takes back, after unsubscribe(). The functions that *)
(* the stack does not let go of stay registered.                           *)
GattcDrop == <<"callback">>
GattsDrop == <<"callback">>
BleGapDrop == <<"callback">>
GapDrop == <<>>
A2dpDrop ==
    (IF profile \in {"sink", "duplex"} THEN <<"sink">> ELSE <<>>)
        \o (IF profile \in {"source", "duplex"} THEN <<"source">> ELSE <<>>)
AvrcDrop == <<"controller">>
HfpDrop == <<"data", "client">>

DropSteps ==
    CASE profile = "gattc" -> GattcDrop
      [] profile = "gatts" -> GattsDrop
      [] profile = "blegap" -> BleGapDrop
      [] profile = "gap" -> GapDrop
      [] profile \in {"sink", "source", "duplex"} -> A2dpDrop
      [] profile = "avrc" -> AvrcDrop
      [] profile = "hfp" -> HfpDrop

-----------------------------------------------------------------------------
(* The variants none of whose fields goes through try_into().unwrap() or   *)
(* is made a str: they are made of whatever the stack says.                *)
InfallibleOf ==
    CASE profile = "gattc" -> {"ClientUnregistered", "SearchResult",
            "Notify", "ServiceChanged", "Congest"}
      [] profile = "gatts" -> {"Read", "Write", "ExecWrite", "Mtu",
            "PeerConnected", "Listen", "Congest"}
      [] profile = "gap" -> {"DeviceDiscovered", "DeviceDiscoveryStarted",
            "DeviceDiscoveryStopped", "PairingPinRequest",
            "PairingUserConfirmationRequest", "SspPasskey",
            "SspPasskeyRequest", "ModeChange"}
      [] profile = "blegap" ->
            (GapSearchEvent \ {"InquiryResult", "DiscoveryResult",
                               "DiscoveryBleResult"})
            \union {"AuthenticationComplete", "Key", "SecurityRequest",
                    "PasskeyNotification", "PasskeyRequest", "OOBRequest",
                    "LocalIR", "LocalER", "NumericComparisonRequest",
                    "DeviceBond", "DuplicateListUpdated",
                    "ReadFeaturesConfigured"}
      [] profile \in {"sink", "source", "duplex"} ->
            A2dpEvent \ {"ConnectionState", "AudioState",
                         "MediaControlAcknowledged"}
      [] profile = "avrc" ->
            AvrccEvent \ {"Passthrough", "Metadata", "Notification"}
      [] profile = "hfp" -> {"VoiceRecognitionEnabled",
            "VoiceRecognitionDisabled", "CallState",
            "NetworkServiceAvailability", "SignalStrength", "Roaming",
            "BatteryLevel", "VolumeControl", "RingTone", "RingIndication",
            "RecvData", "SendData"}

Infallible == InfallibleOf \union {"Other"}

Table == Rows(profile)

-----------------------------------------------------------------------------
(* The owner *)

Take ==
    /\ pc = "none"
    /\ ~ taken
    /\ taken' = TRUE
    /\ pc' = "new"
    /\ step' = 0
    /\ last' = NoEvent
    /\ told' = NoRow
    /\ UNCHANGED <<profile, spoiled, subscribed, open, posted>>

NewStep ==
    /\ pc = "new"
    /\ step < Len(NewSteps)
    /\ open' = open \union {NewSteps[step + 1]}
    /\ step' = step + 1
    /\ UNCHANGED <<profile, pc, taken, spoiled, subscribed, posted, last,
                   told>>

(* One of them fails: `?` returns, and nothing is taken back. *)
NewFails ==
    /\ pc = "new"
    /\ step < Len(NewSteps)
    /\ pc' = "none"
    /\ spoiled' = TRUE
    /\ UNCHANGED <<profile, step, taken, subscribed, open, posted, last, told>>

NewEnds ==
    /\ pc = "new"
    /\ step = Len(NewSteps)
    /\ pc' = "live"
    /\ UNCHANGED <<profile, step, taken, spoiled, subscribed, open, posted,
                   last, told>>

Subscribe ==
    /\ pc = "live"
    /\ ~ subscribed
    /\ subscribed' = TRUE
    /\ UNCHANGED <<profile, pc, step, taken, spoiled, open, posted, last, told>>

Unsubscribe ==
    /\ pc = "live"
    /\ subscribed
    /\ subscribed' = FALSE
    /\ UNCHANGED <<profile, pc, step, taken, spoiled, open, posted, last, told>>

(* drop(): unsubscribe() ... *)
StartDrop ==
    /\ pc = "live"
    /\ pc' = "drop"
    /\ step' = 0
    /\ subscribed' = FALSE
    /\ UNCHANGED <<profile, taken, spoiled, open, posted, last, told>>

(* ... the calls of the stack, a failure of which panics ... *)
DropStep ==
    /\ pc = "drop"
    /\ step < Len(DropSteps)
    /\ \/ /\ open' = open \ {DropSteps[step + 1]}
          /\ step' = step + 1
          /\ UNCHANGED pc
       \/ /\ pc' = "dead"
          /\ UNCHANGED <<open, step>>
    /\ UNCHANGED <<profile, taken, spoiled, subscribed, posted, last, told>>

(* ... and release().unwrap(). *)
Release ==
    /\ pc = "drop"
    /\ step = Len(DropSteps)
    /\ pc' = IF taken THEN "none" ELSE "dead"
    /\ taken' = FALSE
    /\ subscribed' = FALSE
    /\ UNCHANGED <<profile, step, spoiled, open, posted, last, told>>

-----------------------------------------------------------------------------
(* The stack *)

(* External: it posts what the profile has registered a function for. The  *)
(* function of the events, the data functions for data.                    *)
Source(row) ==
    CASE row[3] = "SinkData" -> "sink.data"
      [] row[3] = "SourceData" -> "source.data"
      [] row[3] \in {"RecvData", "SendData"} -> "data"
      [] OTHER -> "callback"

Post ==
    /\ pc # "dead"
    /\ posted = NoRow
    /\ \E row \in Table :
        /\ Source(row) \in open
        /\ posted' = row
    /\ last' = NoEvent
    /\ told' = NoRow
    /\ UNCHANGED <<profile, pc, step, taken, spoiled, subscribed, open>>

(* event_handler(): from() and SINGLETON.call(). *)
Deliver ==
    /\ pc # "dead"
    /\ posted # NoRow
    /\ last' = posted[1]
    /\ told' = IF subscribed THEN <<posted[2], posted[3]>> ELSE NoRow
    /\ posted' = NoRow
    /\ UNCHANGED <<profile, pc, step, taken, spoiled, subscribed, open>>

(* The stack has given no parameter: AVRC and hands-free drop the event,   *)
(* and the unwrap() of the others panics.                                  *)
DeliverNull ==
    /\ pc # "dead"
    /\ posted # NoRow /\ Source(posted) = "callback"
    /\ posted' = NoRow
    /\ IF profile \in {"avrc", "hfp"}
       THEN last' = posted[1] /\ told' = NoRow /\ UNCHANGED pc
       ELSE pc' = "dead" /\ UNCHANGED <<last, told>>
    /\ UNCHANGED <<profile, step, taken, spoiled, subscribed, open>>

(* from() meets a value that the Rust enum does not have, or a name that   *)
(* is not UTF-8, and panics in the task of the stack.                      *)
Panic ==
    /\ pc # "dead"
    /\ posted # NoRow
    /\ posted[3] \notin Infallible
    /\ pc' = "dead"
    /\ posted' = NoRow
    /\ UNCHANGED <<profile, step, taken, spoiled, subscribed, open, last, told>>

-----------------------------------------------------------------------------
Next ==
    \/ Take \/ NewStep \/ NewFails \/ NewEnds
    \/ Subscribe \/ Unsubscribe
    \/ StartDrop \/ DropStep \/ Release
    \/ Post \/ Deliver \/ DeliverNull \/ Panic

Spec == Init /\ [][Next]_vars

-----------------------------------------------------------------------------
(* Properties *)

(* The values the variables take. A closure hears nothing that its profile *)
(* has no variant for.                                                     *)
TypeOK ==
    /\ profile \in Profiles
    /\ pc \in {"none", "new", "live", "drop", "dead"}
    /\ step \in 0 .. 5
    /\ taken \in BOOLEAN /\ spoiled \in BOOLEAN /\ subscribed \in BOOLEAN
    /\ open \subseteq {"callback", "sink.data", "sink", "source.data",
                       "source", "controller", "client", "data"}
    /\ posted \in Table \union {NoRow}
    /\ last \in {row[1] : row \in Table} \union {NoEvent}
    /\ told # NoRow =>
        told[2] \in Variants(profile)

(* By the variant it hears the closure knows which event the stack posted, *)
(* and what it is told comes from a member which no event with a meaning   *)
(* of its own fills in: that holds but for the events in Misread.          *)
VariantTellsEvent ==
    told # NoRow =>
        /\ {row[1] : row \in {r \in Table : r[3] = told[2]}} = {last}
        /\ \/ told[1] \in SharedMember
           \/ told[2] \in Misread
           \/ {row[1] : row \in {r \in Table : r[2] = told[1]}}
                \ {r[1] : r \in {q \in Table : q[3] \in Misread}} = {last}

(* Every variant of the enum has an event that from() makes it of. *)
NoVariantIsUnheard ==
    Variants(profile)
        = {row[3] : row \in Table}

(* What is still registered once a profile is gone is only what the stack  *)
(* refuses to forget, and nothing that it would run for is initialised. No *)
(* closure is left, and the next one can be made, unless a new() has       *)
(* failed: then the singleton stays taken.                                 *)
DropUndoesNew ==
    pc = "none" /\ ~ spoiled =>
        /\ open \subseteq {"callback", "sink.data", "source.data"}
        /\ profile \in {"gattc", "gatts", "blegap"} => open = {}
        /\ ~ taken /\ ~ subscribed
=============================================================================
