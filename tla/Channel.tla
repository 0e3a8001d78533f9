------------------------------- MODULE Channel -------------------------------
(***************************************************************************)
(* The zero-copy rendezvous of src/src/private/zerocopy.rs.                *)
(*                                                                         *)
(* A producer thread lends a mutable reference that lives on its own stack *)
(* (share) and sleeps until the receiver gives it back (done).  Everything *)
(* happens under one mutex; a thread that cannot go on sleeps on the       *)
(* condition variable blocking_notify, or, in an asynchronous receiver, on *)
(* the notification notify_full.  A step of this module is one critical    *)
(* section: from taking the mutex, or waking up with it, to releasing it   *)
(* or falling asleep.                                                      *)
(*                                                                         *)
(* The reference a producer lends is identified with the producer: it      *)
(* points into that producer's stack frame, which exists exactly while the *)
(* producer is inside share().                                             *)
(***************************************************************************)
EXTENDS Naturals, FiniteSets

CONSTANTS
    Producers,  \* threads that own an Arc<Channel>
    Guards,     \* the producers whose Arc is wrapped in a QuitOnDrop
    Receiver,   \* the thread that owns the Receiver
    None        \* no reference

ASSUME ThreadsAssumption ==
    /\ Producers # {}
    /\ Guards \subseteq Producers
    /\ Receiver \notin Producers
    /\ None \notin Producers

Threads == Producers \union {Receiver}

ControlPoints == {"idle", "offer", "hand", "quit",
                  "get", "aget", "await", "using", "gone"}

VARIABLES
    state,      \* tag of the State<T> behind the mutex
    lent,       \* the reference in State::Data, None for the other tags
    notified,   \* notify_full has been notified and not yet consumed
    waiting,    \* threads asleep on blocking_notify
    pc,         \* control point of every thread
    using,      \* the reference get_shared*() returned, while it is borrowed
    handled     \* history: the producer's last datum has been passed to done()

vars == <<state, lent, notified, waiting, pc, using, handled>>

(* A producer owns an Arc until it drops its handle, the receiver upgrades *)
(* its Weak for the duration of get_shared*().                             *)
Holds(t) == IF t = Receiver THEN pc[t] \in {"get", "aget", "await"}
                            ELSE pc[t] # "gone"

Freed == \A t \in Threads : ~ Holds(t)

(* Asleep threads re-take the mutex after notify_all. *)
Awake(t) == t \notin waiting

Init ==
    /\ state = "Empty"
    /\ lent = None
    /\ notified = FALSE
    /\ waiting = {}
    /\ pc = [t \in Threads |-> "idle"]
    /\ using = None
    /\ handled = [p \in Producers |-> FALSE]

(* What Channel::drop, run by whoever gives up the last Arc, makes of s:   *)
(* set(State::Quit) waits in its first loop for as long as it finds Data.  *)
AfterRelease(t, s) ==
    IF (\A u \in Threads \ {t} : ~ Holds(u)) /\ s # "Data" THEN "Quit" ELSE s

(* &mut self: the receiver makes one call at a time, and none while the    *)
(* reference an earlier call returned is still borrowed.                   *)
Outside == pc[Receiver] \in {"idle", "using"}

-----------------------------------------------------------------------------
(* Variants of the operations below with a bug, each of which breaks one   *)
(* of the properties at the end of the module.                             *)

(* set_and_notify() publishes a null pointer. *)
OfferNull(p) ==
    /\ pc[p] = "offer"
    /\ Awake(p)
    /\ state = "Empty"
    /\ state' = "Data"
    /\ notified' = TRUE
    /\ waiting' = {p}
    /\ pc' = [pc EXCEPT ![p] = "hand"]
    /\ UNCHANGED <<lent, using, handled>>

(* share() without the second loop of set(). *)
ReturnEarly(p) ==
    /\ pc[p] = "hand"
    /\ pc' = [pc EXCEPT ![p] = "idle"]
    /\ UNCHANGED <<state, lent, notified, waiting, using, handled>>

(* QuitOnDrop::drop stores Quit without waiting for the Data to go. *)
QuitAtOnce(p) ==
    /\ pc[p] = "quit"
    /\ state' = "Quit"
    /\ lent' = None
    /\ notified' = TRUE
    /\ waiting' = {}
    /\ pc' = [pc EXCEPT ![p] = "gone"]
    /\ UNCHANGED <<using, handled>>

(* done() without notify_all(). *)
DoneSilent ==
    /\ Outside
    /\ IF state = "Data" /\ ~ Freed
       THEN /\ state' = "Empty"
            /\ lent' = None
            /\ handled' = [handled EXCEPT ![lent] = TRUE]
       ELSE UNCHANGED <<state, lent, handled>>
    /\ pc' = [pc EXCEPT ![Receiver] = "idle"]
    /\ using' = None
    /\ UNCHANGED <<waiting, notified>>

(* Receiver::drop without notify_all(). *)
DropReceiverSilent ==
    /\ Outside
    /\ IF Freed
       THEN UNCHANGED <<state, lent>>
       ELSE /\ state' = "Quit"
            /\ lent' = None
    /\ pc' = [pc EXCEPT ![Receiver] = "gone"]
    /\ using' = None
    /\ UNCHANGED <<waiting, notified, handled>>

-----------------------------------------------------------------------------
(* The sending side: share(), QuitOnDrop::drop, the last Arc. *)

(* share(): entering the first loop of set(State::Data(data)). *)
Share(p) ==
    /\ pc[p] = "idle"
    /\ pc' = [pc EXCEPT ![p] = "offer"]
    /\ handled' = [handled EXCEPT ![p] = FALSE]
    /\ UNCHANGED <<state, lent, notified, waiting, using>>

(* First loop, Empty: publish the reference, wake everybody; the second    *)
(* loop finds its own Data under the same lock and falls asleep at once.   *)
Offer(p) ==
    /\ pc[p] = "offer"
    /\ Awake(p)
    /\ state = "Empty"
    /\ state' = "Data"
    /\ lent' = p
    /\ notified' = TRUE
    /\ waiting' = {p}
    /\ pc' = [pc EXCEPT ![p] = "hand"]
    /\ UNCHANGED <<using, handled>>

(* First loop, Quit: share() returns false. *)
Refused(p) ==
    /\ pc[p] = "offer"
    /\ Awake(p)
    /\ state = "Quit"
    /\ pc' = [pc EXCEPT ![p] = "idle"]
    /\ UNCHANGED <<state, lent, notified, waiting, using, handled>>

(* Either loop, Data: sleep on the condition variable. *)
Sleep(p) ==
    /\ pc[p] \in {"offer", "hand", "quit"}
    /\ Awake(p)
    /\ state = "Data"
    /\ waiting' = waiting \union {p}
    /\ UNCHANGED <<state, lent, notified, pc, using, handled>>

(* Second loop, Empty or Quit: share() returns true, its stack frame dies. *)
Return(p) ==
    /\ pc[p] = "hand"
    /\ Awake(p)
    /\ state # "Data"
    /\ pc' = [pc EXCEPT ![p] = "idle"]
    /\ UNCHANGED <<state, lent, notified, waiting, using, handled>>

(* A bare Arc is dropped. *)
DropArc(p) ==
    /\ pc[p] = "idle"
    /\ p \notin Guards
    /\ state' = AfterRelease(p, state)
    /\ pc' = [pc EXCEPT ![p] = "gone"]
    /\ UNCHANGED <<lent, notified, waiting, using, handled>>

(* QuitOnDrop::drop enters set(State::Quit). *)
DropGuard(p) ==
    /\ pc[p] = "idle"
    /\ p \in Guards
    /\ pc' = [pc EXCEPT ![p] = "quit"]
    /\ UNCHANGED <<state, lent, notified, waiting, using, handled>>

(* set(State::Quit) gets through its first loop: Empty is replaced and     *)
(* everybody is woken, Quit is left alone; then the Arc inside goes.       *)
Quit(p) ==
    /\ pc[p] = "quit"
    /\ Awake(p)
    /\ state # "Data"
    /\ state' = "Quit"
    /\ notified' = (notified \/ state = "Empty")
    /\ waiting' = IF state = "Empty" THEN {} ELSE waiting
    /\ pc' = [pc EXCEPT ![p] = "gone"]
    /\ UNCHANGED <<lent, using, handled>>

-----------------------------------------------------------------------------
(* The receiving side. *)

(* get_shared(), get_shared_async(): Weak::upgrade succeeds. When it does  *)
(* not (Freed), both return None and nothing changes.                      *)
Get(entry) ==
    /\ Outside
    /\ ~ Freed
    /\ pc' = [pc EXCEPT ![Receiver] = entry]
    /\ using' = None
    /\ UNCHANGED <<state, lent, notified, waiting, handled>>

(* Either variant, Data: the pointer is returned and the Arc released. *)
Got ==
    /\ pc[Receiver] \in {"get", "aget"}
    /\ Awake(Receiver)
    /\ state = "Data"
    /\ using' = lent
    /\ state' = AfterRelease(Receiver, state)
    /\ pc' = [pc EXCEPT ![Receiver] = "using"]
    /\ UNCHANGED <<lent, notified, waiting, handled>>

(* Either variant, Quit: None is returned and the Arc released. *)
GotQuit ==
    /\ pc[Receiver] \in {"get", "aget"}
    /\ Awake(Receiver)
    /\ state = "Quit"
    /\ pc' = [pc EXCEPT ![Receiver] = "idle"]
    /\ UNCHANGED <<state, lent, notified, waiting, using, handled>>

(* get_shared(), Empty: sleep on the condition variable. *)
GetSleep ==
    /\ pc[Receiver] = "get"
    /\ Awake(Receiver)
    /\ state = "Empty"
    /\ waiting' = waiting \union {Receiver}
    /\ UNCHANGED <<state, lent, notified, pc, using, handled>>

(* get_shared_async(), Empty: unlock, then await notify_full. *)
GetAwait ==
    /\ pc[Receiver] = "aget"
    /\ state = "Empty"
    /\ pc' = [pc EXCEPT ![Receiver] = "await"]
    /\ UNCHANGED <<state, lent, notified, waiting, using, handled>>

(* notify_full.wait() completes and consumes the notification. *)
Notified ==
    /\ pc[Receiver] = "await"
    /\ notified
    /\ notified' = FALSE
    /\ pc' = [pc EXCEPT ![Receiver] = "aget"]
    /\ UNCHANGED <<state, lent, waiting, using, handled>>

(* The future of get_shared_async() is dropped at its await point. *)
Cancel ==
    /\ pc[Receiver] = "await"
    /\ state' = AfterRelease(Receiver, state)
    /\ pc' = [pc EXCEPT ![Receiver] = "idle"]
    /\ UNCHANGED <<lent, notified, waiting, using, handled>>

(* done(): gives the reference back. A no-op when there is no Data; legal  *)
(* also for Data the receiver has not looked at.                           *)
Done ==
    /\ Outside
    /\ IF state = "Data" /\ ~ Freed
       THEN /\ state' = "Empty"
            /\ lent' = None
            /\ waiting' = {}
            /\ handled' = [handled EXCEPT ![lent] = TRUE]
       ELSE UNCHANGED <<state, lent, waiting, handled>>
    /\ pc' = [pc EXCEPT ![Receiver] = "idle"]
    /\ using' = None
    /\ UNCHANGED notified

(* Receiver::drop. notify_full is left alone: no one else awaits it. *)
DropReceiver ==
    /\ Outside
    /\ IF Freed
       THEN UNCHANGED <<state, lent, waiting>>
       ELSE /\ state' = "Quit"
            /\ lent' = None
            /\ waiting' = {}
    /\ pc' = [pc EXCEPT ![Receiver] = "gone"]
    /\ using' = None
    /\ UNCHANGED <<notified, handled>>

(* pthread_cond_wait may return without a notification. *)
SpuriousWakeup(t) ==
    /\ t \in waiting
    /\ waiting' = waiting \ {t}
    /\ UNCHANGED <<state, lent, notified, pc, using, handled>>

-----------------------------------------------------------------------------
ProducerStep(p) ==
    \/ Offer(p) \/ Refused(p) \/ Sleep(p) \/ Return(p) \/ Quit(p)

ReceiverStep == Got \/ GotQuit \/ GetSleep \/ GetAwait \/ Notified

Next ==
    \/ \E p \in Producers :
          Share(p) \/ ProducerStep(p) \/ DropArc(p) \/ DropGuard(p)
    \/ \E entry \in {"get", "aget"} : Get(entry)
    \/ ReceiverStep \/ Cancel \/ Done \/ DropReceiver
    \/ \E t \in Threads : SpuriousWakeup(t)

Spec == Init /\ [][Next]_vars

(* Fairness: the scheduler runs every thread that can go on; the receiving *)
(* application keeps calling get_shared*() and does not for ever forget to *)
(* call done() on what it got, or else drops the Receiver. Nothing forces  *)
(* a producer to share or to drop its handle.                              *)
Serve == (\E entry \in {"get", "aget"} : Get(entry)) \/ DropReceiver

Finish == pc[Receiver] = "using" /\ (Done \/ DropReceiver)

Fairness ==
    /\ \A p \in Producers : WF_vars(ProducerStep(p))
    /\ WF_vars(ReceiverStep)
    /\ WF_vars(Serve)
    /\ SF_vars(Finish)

FairSpec == Spec /\ Fairness

-----------------------------------------------------------------------------
(* Properties *)

(* The values the variables take. Of the tags of State<T> only Data has a  *)
(* pointer.                                                                *)
TypeOK ==
    /\ state \in {"Empty", "Data", "Quit"}
    /\ lent \in Producers \union {None}
    /\ notified \in BOOLEAN
    /\ waiting \subseteq Threads
    /\ pc \in [Threads -> ControlPoints]
    /\ state = "Data" <=> lent # None
    /\ using \in Producers \union {None}
    /\ handled \in [Producers -> BOOLEAN]

(* What the SAFETY comments of zerocopy.rs claim: while the receiver uses  *)
(* a reference, the stack frame it points into belongs to a producer that  *)
(* is still inside share(), and it is that producer's Data that is shared. *)
LentWhileUsed ==
    using # None =>
        /\ pc[using] = "hand"
        /\ state = "Data"
        /\ lent = using

(* No lost wake-up, on either of the two mechanisms: whoever sleeps on the *)
(* condition variable has nothing to do in the present state, and whoever  *)
(* awaits notify_full in vain will find nothing but Empty.                 *)
NoLostWakeup ==
    /\ \A t \in waiting :
          state = IF t = Receiver THEN "Empty" ELSE "Data"
    /\ pc[Receiver] = "await" /\ ~ notified => state = "Empty"

(* Channel::drop runs set(State::Quit), which sleeps while it finds Data.  *)
(* It never does: when the last Arc goes, no reference is on loan.         *)
LastDropNeverBlocks == Freed => state = "Quit"

(* share() returns true only if done() was called on this very datum or    *)
(* the receiver has been dropped.                                          *)
ReturnJustified ==
    [][\A p \in Producers :
          pc[p] = "hand" /\ pc'[p] # "hand"
              => handled[p] \/ pc[Receiver] = "gone"]_vars

(* The channel is an implementation of Loan: a datum is on loan while its  *)
(* owner is in the second loop of set().                                   *)
Promise == INSTANCE Loan WITH
    Owners <- Producers,
    out <- {p \in Producers : pc[p] = "hand"},
    user <- using

ImplementsLoan == Promise!Spec

(* A call of share() comes back, unless other producers keep taking the    *)
(* turn for ever.                                                          *)
ShareReturns ==
    \A p \in Producers :
        \/ []<>(pc[p] \notin {"offer", "hand"})
        \/ []<><<\E q \in Producers \ {p} : Offer(q)>>_vars

(* With a QuitOnDrop among the handles, a receiver does not wait for ever  *)
(* on a channel all of whose handles are gone.                             *)
QuitReachesReceiver ==
    Guards # {} =>
        ((\A p \in Producers : pc[p] = "gone")
            ~> pc[Receiver] \notin {"get", "aget", "await"})

(* Nobody waits for ever: share() returns unless other producers keep      *)
(* taking the turn, and the QuitOnDrop reaches a receiver that waits when  *)
(* the last handle goes (zerocopy.rs, set() and QuitOnDrop::drop()).       *)
CallsReturn == ShareReturns /\ QuitReachesReceiver

(* zerocopy.rs:153: share() "Returns `true` if the data has been processed *)
(* by a receiver, and `false` if the channel was closed".                  *)
TrueMeansProcessed ==
    [][\A p \in Producers : Return(p) => handled[p]]_vars

(* zerocopy.rs:151: share() "will block until the receiver has processed   *)
(* the data, or the channel is closed", for "multiple threads" (line 6).   *)
BlocksUntilProcessed ==
    \A p \in Producers : (pc[p] = "hand" /\ handled[p]) ~> pc[p] # "hand"
=============================================================================
