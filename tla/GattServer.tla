----------------------------- MODULE GattServer -----------------------------
(***************************************************************************)
(* The attributes of a GATT server: the calls of the application that put  *)
(* values into the stack, get them out of it and send them to a peer       *)
(* (src/src/bt/ble/gatt/server.rs), and the response it makes up for a     *)
(* request (gatt.rs). A value is what it says and its length, which is all *)
(* that goes wrong on the way: lengths are cut to a u16, values are refused *)
(* for their length, and a buffer may be too small for one.                *)
(***************************************************************************)
EXTENDS Naturals

CONSTANTS
    Handles,        \* the handles of the characteristics
    Texts,          \* what values say
    Lengths,        \* the lengths of values, of buffers and of attributes
    U16,            \* 2^16
    MaxResponse,    \* 600, the literal of GattResponse::value()
    MaxAttrLen,     \* ESP_GATT_MAX_ATTR_LEN, the room in a response
    None

(* What the constants are required to be. *)
GattServerAssumption ==
    /\ Lengths \subseteq Nat
    /\ {U16, MaxResponse, MaxAttrLen} \subseteq Nat
    /\ 0 < MaxAttrLen /\ MaxAttrLen < U16
    /\ MaxResponse < U16

VARIABLES
    service,    \* none, created or started
    attr,       \* the attributes in the stack
    given,      \* history: the value each was last given, here or by a peer
    response,   \* the GattResponse being made up
    intended,   \* history: the value it was last given
    request,    \* a peer waits for the answer to its request
    outcome     \* history: what the last call has returned or sent

vars == <<service, attr, given, response, intended, request, outcome>>

Values == [text : Texts, len : Lengths]
Outcomes == {"ok", "error", "panic", "got", "sent", "answered"}

(* A value as C sees it: its length goes through `as u16`. *)
Cut(v) == [v EXCEPT !.len = @ % U16]

(* Nothing, as new() makes a response. *)
Empty == [text |-> None, len |-> 0]

Is(what, v) == [is |-> what, value |-> v]

Init ==
    /\ service = "none"
    /\ attr = [h \in Handles |-> None]
    /\ given = [h \in Handles |-> Empty]
    /\ response = Empty
    /\ intended = Empty
    /\ request = FALSE
    /\ outcome = Is("ok", Empty)

Alive == outcome.is # "panic"

-----------------------------------------------------------------------------
(* A variant with a bug: the buffer gets as much of the value as it holds. *)

GetAttrInPart(h, room) ==
    /\ Alive /\ attr[h] # None
    /\ outcome' =
        [is |-> "got",
         value |-> [attr[h].value EXCEPT !.len = IF room < @ THEN room ELSE @],
         of |-> h]
    /\ UNCHANGED <<service, attr, given, response, intended, request>>

-----------------------------------------------------------------------------
(* The service. C does as it is told, or refuses and changes nothing.      *)

CreateService ==
    /\ Alive /\ service = "none"
    /\ service' = "created"
    /\ outcome' = Is("ok", Empty)
    /\ UNCHANGED <<attr, given, response, intended, request>>

StartService ==
    /\ Alive /\ service = "created"
    /\ service' = "started"
    /\ outcome' = Is("ok", Empty)
    /\ UNCHANGED <<attr, given, response, intended, request>>

StopService ==
    /\ Alive /\ service = "started"
    /\ service' = "created"
    /\ request' = FALSE
    /\ outcome' = Is("ok", Empty)
    /\ UNCHANGED <<attr, given, response, intended>>

DeleteService ==
    /\ Alive /\ service = "created"
    /\ service' = "none"
    /\ attr' = [h \in Handles |-> None]
    /\ given' = [h \in Handles |-> Empty]
    /\ outcome' = Is("ok", Empty)
    /\ UNCHANGED <<response, intended, request>>

-----------------------------------------------------------------------------
(* The attributes *)

(* The first value and the most an attribute can take: checked before its  *)
(* lengths are cut. C refuses a value that is longer than its attribute.   *)
(* AutoResponse::ByGatt has it answer the peers itself.                    *)
AddCharacteristic(h, max_len, by_gatt, data) ==
    /\ Alive /\ service = "created" /\ attr[h] = None
    /\ IF data.len > max_len \/ Cut(data).len > max_len % U16
       THEN /\ outcome' = Is("error", Empty)
            /\ UNCHANGED <<attr, given>>
       ELSE /\ attr' = [attr EXCEPT ![h] =
                [max |-> max_len % U16, by_gatt |-> by_gatt, value |-> Cut(data)]]
            /\ given' = [given EXCEPT ![h] = data]
            /\ outcome' = Is("ok", Empty)
    /\ UNCHANGED <<service, response, intended, request>>

(* A descriptor has neither a value nor a length here, and no response. *)
AddDescriptor(h) ==
    /\ Alive /\ service = "created" /\ attr[h] = None
    /\ attr' = [attr EXCEPT ![h] = [max |-> 0, by_gatt |-> FALSE, value |-> Empty]]
    /\ given' = [given EXCEPT ![h] = Empty]
    /\ outcome' = Is("ok", Empty)
    /\ UNCHANGED <<service, response, intended, request>>

SetAttr(h, data) ==
    /\ Alive /\ attr[h] # None
    /\ IF Cut(data).len > attr[h].max
       THEN /\ outcome' = Is("error", Empty)
            /\ UNCHANGED <<attr, given>>
       ELSE /\ attr' = [attr EXCEPT ![h].value = Cut(data)]
            /\ given' = [given EXCEPT ![h] = data]
            /\ outcome' = Is("ok", Empty)
    /\ UNCHANGED <<service, response, intended, request>>

(* External: a peer writes an attribute that C answers for, which stores it *)
(* before the application is told.                                         *)
PeerWrites(h, data) ==
    /\ Alive /\ service = "started" /\ attr[h] # None
    /\ attr[h].by_gatt /\ data.len <= attr[h].max
    /\ attr' = [attr EXCEPT ![h].value = data]
    /\ given' = [given EXCEPT ![h] = data]
    /\ outcome' = Is("ok", Empty)
    /\ UNCHANGED <<service, response, intended, request>>

(* The buffer gets the whole value or none of it. *)
GetAttr(h, room) ==
    /\ Alive /\ attr[h] # None
    /\ outcome' = IF room < attr[h].value.len
                  THEN Is("error", Empty)
                  ELSE [is |-> "got", value |-> attr[h].value, of |-> h]
    /\ UNCHANGED <<service, attr, given, response, intended, request>>

-----------------------------------------------------------------------------
(* What goes to the peer *)

(* GattResponse::value(): a value beyond 600 is refused, one that does not *)
(* fit the array of C runs the slice out of its range.                     *)
ResponseValue(v) ==
    /\ Alive
    /\ IF v.len > MaxResponse
       THEN /\ outcome' = Is("error", Empty)
            /\ UNCHANGED <<response, intended>>
       ELSE IF v.len > MaxAttrLen
       THEN /\ outcome' = Is("panic", v)
            /\ UNCHANGED <<response, intended>>
       ELSE /\ response' = v
            /\ intended' = v
            /\ outcome' = Is("ok", Empty)
    /\ UNCHANGED <<service, attr, given, request>>

(* External: a peer asks for something that the application answers.       *)
Request ==
    /\ Alive /\ service = "started" /\ ~ request
    /\ request' = TRUE
    /\ outcome' = Is("ok", Empty)
    /\ UNCHANGED <<service, attr, given, response, intended>>

SendResponse ==
    /\ Alive /\ request
    /\ request' = FALSE
    /\ outcome' = Is("answered", response)
    /\ UNCHANGED <<service, attr, given, response, intended>>

(* indicate() and notify() *)
Indicate(h, data) ==
    /\ Alive /\ service = "started" /\ attr[h] # None
    /\ outcome' = [is |-> "sent", value |-> Cut(data), data |-> data]
    /\ UNCHANGED <<service, attr, given, response, intended, request>>

-----------------------------------------------------------------------------
Next ==
    \/ CreateService \/ StartService \/ StopService \/ DeleteService
    \/ \E h \in Handles, v \in Values :
        \/ \E max_len \in Lengths, by_gatt \in BOOLEAN :
              AddCharacteristic(h, max_len, by_gatt, v)
        \/ SetAttr(h, v) \/ PeerWrites(h, v) \/ Indicate(h, v)
    \/ \E h \in Handles : AddDescriptor(h)
    \/ \E h \in Handles, room \in Lengths : GetAttr(h, room)
    \/ \E v \in Values : ResponseValue(v)
    \/ Request \/ SendResponse

Spec == Init /\ [][Next]_vars

-----------------------------------------------------------------------------
(* Properties *)

(* The values the variables take. *)
TypeOK ==
    /\ service \in {"none", "created", "started"}
    /\ \A h \in Handles : attr[h] # None =>
        /\ attr[h].value.len <= attr[h].max
        /\ attr[h].max < U16 /\ attr[h].by_gatt \in BOOLEAN
    /\ {response, intended} \subseteq Values \union {Empty}
    /\ request \in BOOLEAN
    /\ outcome.is \in Outcomes

(* get_attr() yields the value that the application or a peer has last     *)
(* given the attribute, and all of it; known exception: a value of 2^16 bytes or more, which loses  *)
(* as many bytes as its length does.                                       *)
GetsTheLastValue ==
    outcome.is = "got" =>
        outcome.value = given[outcome.of] \/ given[outcome.of].len >= U16

(* A peer is sent what the application has made up, in full; exceptions:   *)
(* values of 2^16 bytes or more, and a response that its array is too      *)
(* short for, of which nothing is sent.                                    *)
PeerGetsTheWhole ==
    /\ outcome.is = "sent" =>
        outcome.value = outcome.data \/ outcome.data.len >= U16
    /\ outcome.is = "answered" =>
        /\ outcome.value = intended
        /\ outcome.value.len <= MaxAttrLen
    /\ outcome.is = "panic" => outcome.value.len > MaxAttrLen
=============================================================================
