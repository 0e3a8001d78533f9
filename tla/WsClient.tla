------------------------------ MODULE WsClient ------------------------------
(***************************************************************************)
(* The connection of a WebSocket client made by new_with_conn() in         *)
(* src/src/ws/client.rs: a mailbox for one event behind a mutex, with one  *)
(* condition variable for both sides. The callback of the C client posts,  *)
(* and the holder of EspWebSocketConnection takes one event after another. *)
(*                                                                         *)
(* What is posted is a pointer, and post() does not wait until the event    *)
(* has been looked at: how long the pointer is good is not modelled.       *)
(***************************************************************************)
EXTENDS Naturals, Sequences, SequencesExt

CONSTANTS
    Posters,    \* the threads the C client calls back from
    MaxEvents,  \* bound: the number of events
    Malformed,  \* the events WebSocketEventType::new() refuses
    NullEvents  \* the events whose pointer is null

(* What the constants are required to be. *)
ClientAssumption ==
    /\ "reader" \notin Posters
    /\ MaxEvents \in Nat
    /\ Malformed \subseteq 1 .. MaxEvents /\ NullEvents \subseteq 1 .. MaxEvents

Nothing == 0

VARIABLES
    message,    \* EspWebSocketConnectionState.message
    posting,    \* the event each poster is to post
    reader,     \* what the holder of the connection does
    sleeping,   \* the threads asleep on state_changed
    client,     \* the EspWebSocketClient
    arrived,    \* history: the number of events so far
    stored,     \* history: the events put into message
    received    \* history: the events that next() returned

vars == <<message, posting, reader, sleeping, client, arrived, stored, received>>

Init ==
    /\ message = Nothing
    /\ posting = [p \in Posters |-> Nothing]
    /\ reader = "idle"
    /\ sleeping = {}
    /\ client = "open"
    /\ arrived = 0
    /\ stored = <<>>
    /\ received = <<>>

-----------------------------------------------------------------------------
(* Variants with a bug. *)

(* post() does not look whether the message before was taken. *)
StoreOver(p) ==
    /\ posting[p] # Nothing /\ p \notin sleeping
    /\ message' = posting[p]
    /\ stored' = Append(stored, posting[p])
    /\ posting' = [posting EXCEPT ![p] = Nothing]
    /\ sleeping' = {}
    /\ UNCHANGED <<reader, client, arrived, received>>

-----------------------------------------------------------------------------
(* The C client has an event for the callback. *)
Arrive(p) ==
    /\ client # "dropped"
    /\ posting[p] = Nothing
    /\ arrived < MaxEvents
    /\ arrived' = arrived + 1
    /\ posting' = [posting EXCEPT ![p] = arrived']
    /\ UNCHANGED <<message, reader, sleeping, client, stored, received>>

(* post(): wait until the message before is taken ... *)
PostSleeps(p) ==
    /\ posting[p] # Nothing /\ p \notin sleeping
    /\ message # Nothing
    /\ sleeping' = sleeping \union {p}
    /\ UNCHANGED <<message, posting, reader, client, arrived, stored, received>>

(* ... then put this one and wake everybody. *)
Store(p) ==
    /\ posting[p] # Nothing /\ p \notin sleeping
    /\ message = Nothing
    /\ message' = posting[p]
    /\ stored' = Append(stored, posting[p])
    /\ posting' = [posting EXCEPT ![p] = Nothing]
    /\ sleeping' = {}
    /\ UNCHANGED <<reader, client, arrived, received>>

CallNext ==
    /\ reader = "idle"
    /\ reader' = "waiting"
    /\ UNCHANGED <<message, posting, sleeping, client, arrived, stored, received>>

(* next(): wait for a message ... *)
NextSleeps ==
    /\ reader = "waiting" /\ "reader" \notin sleeping
    /\ message = Nothing
    /\ sleeping' = sleeping \union {"reader"}
    /\ UNCHANGED <<message, posting, reader, client, arrived, stored, received>>

(* ... which stays while the event is held; a malformed one is taken at    *)
(* once.                                                                   *)
NextReturns ==
    /\ reader = "waiting" /\ "reader" \notin sleeping
    /\ message \notin NullEvents \union {Nothing}
    /\ received' = Append(received, message)
    /\ IF message \in Malformed
       THEN message' = Nothing /\ reader' = "idle" /\ sleeping' = {}
       ELSE reader' = "holding" /\ UNCHANGED <<message, sleeping>>
    /\ UNCHANGED <<posting, client, arrived, stored>>

(* A null pointer is None, and stays in the mailbox for good. *)
NextReturnsNone ==
    /\ reader = "waiting" /\ "reader" \notin sleeping
    /\ message \in NullEvents
    /\ reader' = "idle"
    /\ UNCHANGED <<message, posting, sleeping, client, arrived, stored, received>>

(* WebSocketEvent::drop() takes the message and wakes everybody. *)
Release ==
    /\ reader = "holding"
    /\ message' = Nothing
    /\ sleeping' = IF message # Nothing THEN {} ELSE sleeping
    /\ reader' = "idle"
    /\ UNCHANGED <<posting, client, arrived, stored, received>>

(* A condition variable may wake a thread for nothing. *)
SpuriousWakeup ==
    /\ \E t \in sleeping : sleeping' = sleeping \ {t}
    /\ UNCHANGED <<message, posting, reader, client, arrived, stored, received>>

(* EspWebSocketClient::drop() closes the connection; destroying the C      *)
(* client ends its threads, which it waits for.                            *)
Close ==
    /\ client = "open"
    /\ client' = "closing"
    /\ UNCHANGED <<message, posting, reader, sleeping, arrived, stored, received>>

Destroy ==
    /\ client = "closing"
    /\ \A p \in Posters : posting[p] = Nothing
    /\ client' = "dropped"
    /\ UNCHANGED <<message, posting, reader, sleeping, arrived, stored, received>>

-----------------------------------------------------------------------------
Next ==
    \/ \E p \in Posters : Arrive(p) \/ PostSleeps(p) \/ Store(p)
    \/ CallNext \/ NextSleeps \/ NextReturns \/ NextReturnsNone \/ Release
    \/ SpuriousWakeup
    \/ Close \/ Destroy

(* The threads run, and the connection has a thread of its own that calls  *)
(* next() in a loop and drops each event.                                  *)
Fairness ==
    /\ \A p \in Posters : WF_vars(PostSleeps(p)) /\ WF_vars(Store(p))
    /\ WF_vars(CallNext) /\ WF_vars(NextSleeps)
    /\ WF_vars(NextReturns \/ NextReturnsNone) /\ WF_vars(Release)
    /\ WF_vars(Destroy)

Spec == Init /\ [][Next]_vars

FairSpec == Spec /\ Fairness

-----------------------------------------------------------------------------
(* Properties *)

(* The values the variables take. *)
TypeOK ==
    /\ message \in 0 .. MaxEvents
    /\ posting \in [Posters -> 0 .. MaxEvents]
    /\ reader \in {"idle", "waiting", "holding"}
    /\ sleeping \subseteq Posters \union {"reader"}
    /\ client \in {"open", "closing", "dropped"}
    /\ arrived \in 0 .. MaxEvents
    /\ stored \in Seq(1 .. MaxEvents) /\ received \in Seq(1 .. MaxEvents)

(* next() returns every event posted, once, in the order they were put     *)
(* into the mailbox.                                                       *)
EachOnceInOrder ==
    /\ IsPrefix(received, stored)
    /\ Len(stored) <= Len(received) + 1

(* The event someone holds is the one in the mailbox: no poster replaces   *)
(* it and nobody else takes it.                                            *)
HeldStays ==
    reader = "holding" => message = Last(received)

(* Nobody sleeps through what it waits for. *)
NoneOversleeps ==
    /\ "reader" \in sleeping => message = Nothing
    /\ \A p \in Posters : p \in sleeping => message # Nothing

(* A callback comes back while next() is called and has not returned None, *)
(* and the drop of the client, which waits for the callbacks, with it.     *)
PostersReturn ==
    \A p \in Posters :
        (posting[p] # Nothing) ~> (posting[p] = Nothing \/ message \in NullEvents)

DropReturns ==
    (client = "closing") ~> (client = "dropped" \/ message \in NullEvents)
=============================================================================
