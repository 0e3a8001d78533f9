------------------------------ MODULE EventLoop ------------------------------
(***************************************************************************)
(* Subscriptions of src/src/eventloop.rs. The task of an ESP-IDF event     *)
(* loop calls the registered handlers under the mutex of the loop, which   *)
(* registering, unregistering and deleting the loop also take. A plain     *)
(* subscription calls a closure; an asynchronous one lends the event to    *)
(* its receiver and waits until it is given back, in the way of module     *)
(* Loan. The loop is deleted with its last Arc; a subscription owns one,   *)
(* unless make_weak() was called.                                          *)
(***************************************************************************)
EXTENDS Naturals, Sequences

CONSTANTS
    Owners,     \* the threads that hold an EspEventLoop
    Plain,      \* the threads with an EspSubscription
    Asyncs,     \* the threads with an EspAsyncSubscription
    Weakened,   \* the subscriptions for which make_weak() may be called
    Wanted,     \* the source an asynchronous subscription deserializes
    Other,      \* a source it skips
    QueueSize,  \* the length of the queue of the loop
    MaxPosts,   \* bound: the number of events that are posted
    None

Subs == Plain \union Asyncs

(* An event is its source and its place among the events posted. *)
Events == {Wanted, Other} \X (1 .. MaxPosts)

ASSUME EventLoopAssumption ==
    /\ Owners \intersect Subs = {} /\ Plain \intersect Asyncs = {}
    /\ Weakened \subseteq Subs
    /\ Wanted # Other
    /\ QueueSize \in Nat \ {0} /\ MaxPosts \in Nat
    /\ None \notin Subs \union Owners \union Events

VARIABLES
    loop,       \* the ESP-IDF event loop: "open" or "deleted"
    refs,       \* who holds a strong reference to it
    weak,       \* the subscriptions that have only a Weak
    registered, \* the handlers registered with the loop
    queue,      \* the events the loop has not begun to dispatch
    event,      \* the event it dispatches, None if its mutex is free
    todo,       \* the handlers still to be called for it
    cur,        \* the handler that is being called
    pc,         \* where the owner of each subscription is
    deleter,    \* who runs EventLoopHandle::drop
    chan,       \* the channel of each asynchronous subscription
    given,      \* the event its recv() has returned
    sent,       \* history: the events posted
    got,        \* history: the events recv() has returned
    since       \* history: how many were dispatched before it subscribed

loopVars == <<event, todo, cur>>
asyncVars == <<chan, given, got>>
vars == <<loop, refs, weak, registered, queue, loopVars, pc, deleter,
          asyncVars, sent, since>>

Init ==
    /\ loop = "open"
    /\ refs = Owners
    /\ weak = {}
    /\ registered = {}
    /\ queue = <<>>
    /\ event = None /\ todo = {} /\ cur = None
    /\ pc = [s \in Subs |-> "none"]
    /\ deleter = None
    /\ chan = [s \in Asyncs |-> "Empty"]
    /\ given = [s \in Asyncs |-> None]
    /\ sent = <<>>
    /\ got = [s \in Asyncs |-> <<>>]
    /\ since = [s \in Subs |-> 0]

MutexFree == event = None

(* The owner of s can act: it is not inside the drop of the last reference. *)
NotDeleting(s) == deleter = s => loop = "deleted"

Live(s) == pc[s] \in {"live", "recv"}

(* t gives up its reference: whoever holds the last one drops the handle.  *)
Unref(t) ==
    /\ refs' = refs \ {t}
    /\ deleter' = IF refs = {t} THEN t ELSE deleter

-----------------------------------------------------------------------------
(* Variants with a bug. *)

(* recv() gives the event back when it returns, not when it is called again.*)
TakeAndDone(s) ==
    /\ NotDeleting(s)
    /\ pc[s] = "recv"
    /\ chan[s] = "Data"
    /\ chan' = [chan EXCEPT ![s] = "Empty"]
    /\ IF event[1] = Wanted
       THEN /\ given' = [given EXCEPT ![s] = event]
            /\ got' = [got EXCEPT ![s] = Append(@, event)]
            /\ pc' = [pc EXCEPT ![s] = "live"]
       ELSE UNCHANGED <<given, got, pc>>
    /\ UNCHANGED <<loop, refs, weak, registered, queue, loopVars, deleter,
                   sent, since>>

(* An event of the wrong source is not given back. *)
TakeMine(s) ==
    /\ NotDeleting(s)
    /\ pc[s] = "recv"
    /\ chan[s] = "Data" /\ event[1] = Wanted
    /\ given' = [given EXCEPT ![s] = event]
    /\ got' = [got EXCEPT ![s] = Append(@, event)]
    /\ pc' = [pc EXCEPT ![s] = "live"]
    /\ UNCHANGED <<loop, refs, weak, registered, queue, loopVars, deleter,
                   chan, sent, since>>

(* A full queue does not stop a post(). *)
PostAlways(c, source) ==
    /\ c \in refs
    /\ Len(sent) < MaxPosts
    /\ sent' = Append(sent, <<source, Len(sent) + 1>>)
    /\ queue' = Append(queue, <<source, Len(sent) + 1>>)
    /\ UNCHANGED <<loop, refs, weak, registered, loopVars, pc, deleter,
                   asyncVars, since>>

(* The subscription is dropped before the receiver. *)
DropReceiverLast(s) ==
    /\ NotDeleting(s)
    /\ pc[s] = "live"
    /\ pc' = [pc EXCEPT ![s] = "drop"]
    /\ UNCHANGED <<loop, refs, weak, registered, queue, loopVars, deleter,
                   asyncVars, sent, since>>

(* drop() does not unregister the handler. *)
UpgradeOnly(s) ==
    /\ pc[s] = "drop"
    /\ pc' = [pc EXCEPT ![s] = "release"]
    /\ UNCHANGED <<loop, refs, weak, registered, queue, loopVars, deleter,
                   asyncVars, sent, since>>

-----------------------------------------------------------------------------
(* The task of the loop *)

Dispatch ==
    /\ loop = "open"
    /\ MutexFree
    /\ queue # <<>>
    /\ event' = Head(queue)
    /\ queue' = Tail(queue)
    /\ todo' = registered
    /\ UNCHANGED <<loop, refs, weak, registered, cur, pc, deleter, asyncVars,
                   sent, since>>

(* EspSubscription::handle() calls the closure; that of subscribe_async()  *)
(* shares the event, unless the receiver is gone.                          *)
Call(s) ==
    /\ cur = None
    /\ s \in todo
    /\ todo' = todo \ {s}
    /\ cur' = s
    /\ chan' = IF s \in Asyncs /\ chan[s] = "Empty"
               THEN [chan EXCEPT ![s] = "Data"] ELSE chan
    /\ UNCHANGED <<loop, refs, weak, registered, queue, event, pc, deleter,
                   given, got, sent, since>>

(* share() has returned when the event is given back or the receiver gone. *)
Return ==
    /\ cur # None
    /\ cur \in Asyncs => chan[cur] # "Data"
    /\ cur' = None
    /\ UNCHANGED <<loop, refs, weak, registered, queue, event, todo, pc,
                   deleter, asyncVars, sent, since>>

EndDispatch ==
    /\ event # None /\ cur = None /\ todo = {}
    /\ event' = None
    /\ UNCHANGED <<loop, refs, weak, registered, queue, todo, cur, pc, deleter,
                   asyncVars, sent, since>>

-----------------------------------------------------------------------------
(* The owners of the loop *)

(* post() copies the event into the queue. When that is full post() returns *)
(* Ok(false), and post_async() yields and tries again.                     *)
Post(c, source) ==
    /\ c \in refs
    /\ Len(queue) < QueueSize
    /\ Len(sent) < MaxPosts
    /\ sent' = Append(sent, <<source, Len(sent) + 1>>)
    /\ queue' = Append(queue, <<source, Len(sent) + 1>>)
    /\ UNCHANGED <<loop, refs, weak, registered, loopVars, pc, deleter,
                   asyncVars, since>>

DropLoop(c) ==
    /\ c \in refs \intersect Owners
    /\ Unref(c)
    /\ UNCHANGED <<loop, weak, registered, queue, loopVars, pc, asyncVars,
                   sent, since>>

(* EventLoopHandle::drop: the loop is deleted with its handlers and events.*)
Delete ==
    /\ deleter # None /\ loop = "open"
    /\ MutexFree
    /\ loop' = "deleted"
    /\ registered' = {}
    /\ queue' = <<>>
    /\ UNCHANGED <<refs, weak, loopVars, pc, deleter, asyncVars, sent, since>>

-----------------------------------------------------------------------------
(* The owners of the subscriptions *)

(* subscribe(), subscribe_async() through an EspEventLoop. *)
Subscribe(s) ==
    /\ pc[s] = "none"
    /\ refs \intersect Owners # {}
    /\ MutexFree
    /\ registered' = registered \union {s}
    /\ refs' = refs \union {s}
    /\ pc' = [pc EXCEPT ![s] = "live"]
    /\ since' = [since EXCEPT ![s] = Len(sent) - Len(queue)]
    /\ UNCHANGED <<loop, weak, queue, loopVars, deleter, asyncVars, sent>>

MakeWeak(s) ==
    /\ NotDeleting(s)
    /\ s \in Weakened \ weak
    /\ pc[s] = "live"
    /\ weak' = weak \union {s}
    /\ Unref(s)
    /\ UNCHANGED <<loop, registered, queue, loopVars, pc, asyncVars, sent, since>>

(* recv(): the event of the last call is given back, ... *)
Recv(s) ==
    /\ NotDeleting(s)
    /\ pc[s] = "live"
    /\ s \in Asyncs
    /\ chan' = IF given[s] # None THEN [chan EXCEPT ![s] = "Empty"] ELSE chan
    /\ given' = [given EXCEPT ![s] = None]
    /\ pc' = [pc EXCEPT ![s] = "recv"]
    /\ UNCHANGED <<loop, refs, weak, registered, queue, loopVars, deleter,
                   got, sent, since>>

(* ... and events are taken until one is of the source asked for. *)
Take(s) ==
    /\ NotDeleting(s)
    /\ pc[s] = "recv"
    /\ chan[s] = "Data"
    /\ IF event[1] = Wanted
       THEN /\ given' = [given EXCEPT ![s] = event]
            /\ got' = [got EXCEPT ![s] = Append(@, event)]
            /\ pc' = [pc EXCEPT ![s] = "live"]
            /\ UNCHANGED chan
       ELSE chan' = [chan EXCEPT ![s] = "Empty"] /\ UNCHANGED <<given, got, pc>>
    /\ UNCHANGED <<loop, refs, weak, registered, queue, loopVars, deleter,
                   sent, since>>

(* The future of recv() is dropped while it waits. *)
Cancel(s) ==
    /\ NotDeleting(s)
    /\ pc[s] = "recv"
    /\ pc' = [pc EXCEPT ![s] = "live"]
    /\ UNCHANGED <<loop, refs, weak, registered, queue, loopVars, deleter,
                   asyncVars, sent, since>>

(* A subscription is dropped: the field receiver comes first, ... *)
Drop(s) ==
    /\ NotDeleting(s)
    /\ pc[s] = "live"
    /\ pc' = [pc EXCEPT ![s] = "drop"]
    /\ IF s \in Asyncs
       THEN chan' = [chan EXCEPT ![s] = "Quit"] /\ given' = [given EXCEPT ![s] = None]
       ELSE UNCHANGED <<chan, given>>
    /\ UNCHANGED <<loop, refs, weak, registered, queue, loopVars, deleter,
                   got, sent, since>>

(* ... then EspSubscription::drop, which unregisters if the loop still has *)
(* an owner and holds on to it meanwhile; ...                              *)
Upgrade(s) ==
    /\ pc[s] = "drop"
    /\ IF s \in weak /\ refs = {}
       THEN pc' = [pc EXCEPT ![s] = "release"] /\ UNCHANGED refs
       ELSE pc' = [pc EXCEPT ![s] = "unregister"] /\ refs' = refs \union {s}
    /\ UNCHANGED <<loop, weak, registered, queue, loopVars, deleter, asyncVars,
                   sent, since>>

Unregister(s) ==
    /\ pc[s] = "unregister"
    /\ MutexFree
    /\ registered' = registered \ {s}
    /\ pc' = [pc EXCEPT ![s] = "release"]
    /\ Unref(s)
    /\ UNCHANGED <<loop, weak, queue, loopVars, asyncVars, sent, since>>

(* ... and the closure last, when the loop is deleted if it was the last.  *)
Free(s) ==
    /\ pc[s] = "release"
    /\ NotDeleting(s)
    /\ pc' = [pc EXCEPT ![s] = "gone"]
    /\ UNCHANGED <<loop, refs, weak, registered, queue, loopVars, deleter,
                   asyncVars, sent, since>>

-----------------------------------------------------------------------------
LoopNext == Dispatch \/ (\E s \in Subs : Call(s)) \/ Return \/ EndDispatch

OwnerNext ==
    \/ Delete
    \/ \E c \in Owners : DropLoop(c) \/ Post(c, Wanted) \/ Post(c, Other)

DropNext(s) == Upgrade(s) \/ Unregister(s) \/ Free(s)

SubNext(s) ==
    \/ Subscribe(s) \/ MakeWeak(s) \/ Drop(s) \/ DropNext(s)
    \/ s \in Asyncs /\ (Recv(s) \/ Take(s) \/ Cancel(s))

Next == LoopNext \/ OwnerNext \/ \E s \in Subs : SubNext(s)

Spec == Init /\ [][Next]_vars

(* The task of the loop runs, a drop goes on, and whoever has an           *)
(* asynchronous subscription asks for the next event: an application that  *)
(* keeps the event recv() returned stops the loop for everybody. The       *)
(* application does not cancel recv() each time there is an event.         *)
Fairness ==
    /\ WF_vars(LoopNext) /\ WF_vars(Delete)
    /\ \A s \in Subs : WF_vars(DropNext(s))
    /\ \A s \in Asyncs : WF_vars(Recv(s)) /\ SF_vars(Take(s))

FairSpec == Spec /\ Fairness

-----------------------------------------------------------------------------
(* Properties *)

(* The values the variables take. *)
TypeOK ==
    /\ loop \in {"open", "deleted"}
    /\ refs \subseteq Owners \union Subs
    /\ weak \subseteq Weakened
    /\ registered \subseteq Subs /\ todo \subseteq registered
    /\ queue \in Seq(Events) /\ Len(queue) <= QueueSize
    /\ event \in Events \union {None}
    /\ cur \in Subs \union {None}
    /\ pc \in [Subs -> {"none", "live", "recv", "drop", "unregister",
                        "release", "gone"}]
    /\ deleter \in Owners \union Subs \union {None}
    /\ chan \in [Asyncs -> {"Empty", "Data", "Quit"}]
    /\ given \in [Asyncs -> Events \union {None}]
    /\ sent \in Seq(Events)
    /\ got \in [Asyncs -> Seq(Events)]
    /\ since \in [Subs -> Nat]

(* The closure exists as long as the loop may call it, unless the          *)
(* subscription is weak.                                                   *)
ClosureAlive ==
    \A s \in Subs \ weak :
        cur = s \/ s \in todo \union registered => pc[s] # "gone"

(* The event recv() has returned, whose lifetime subscribe_async() has     *)
(* made 'static, is the one the loop still dispatches to that subscription. *)
EventAlive ==
    \A s \in Asyncs : given[s] # None => given[s] = event /\ cur = s

(* recv() returns the events of its source in the order they were posted,  *)
(* from the subscription on, every one once.                               *)
InOrder ==
    \A s \in Asyncs : \A k \in 1 .. Len(got[s]) :
        /\ got[s][k][1] = Wanted /\ got[s][k][2] > since[s]
        /\ got[s][k] = sent[got[s][k][2]]
        /\ \A j \in 1 .. k - 1 : got[s][j][2] < got[s][k][2]
        /\ \A i \in since[s] + 1 .. got[s][k][2] :
            sent[i][1] = Wanted => \E j \in 1 .. Len(got[s]) : got[s][j] = sent[i]

(* recv() is sound in both ways. *)
RecvIsSound == EventAlive /\ InOrder

(* A subscription that is dropped comes to an end, even in the middle of   *)
(* an event nobody has given back.                                         *)
DropReturns == \A s \in Subs : pc[s] = "drop" ~> pc[s] = "gone"

(* The loop is deleted when its last reference is gone, even if a handler  *)
(* waits in share(), unless make_weak() of that very subscription has      *)
(* given up the last reference: its owner can then not give the event back. *)
DeletionEnds ==
    (deleter # None /\ \A s \in Asyncs : deleter = s => pc[s] = "release")
        ~> loop = "deleted"

(* Dropping a subscription, or the loop, comes to an end. *)
CallsReturn == DropReturns /\ DeletionEnds

(* An event is received, or the subscription or the loop is on its way out. *)
EventArrives ==
    \A s \in Asyncs : \A i \in 1 .. MaxPosts :
        (Live(s) /\ since[s] < i /\ i <= Len(sent) /\ sent[i] = <<Wanted, i>>)
            ~> (\/ \E k \in 1 .. Len(got[s]) : got[s][k] = <<Wanted, i>>
                \/ ~ Live(s) \/ refs = {})
=============================================================================
