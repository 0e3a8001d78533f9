--------------------------- MODULE EventLoopProofs ---------------------------
(***************************************************************************)
(* Proofs about EventLoop, for any number of owners and subscriptions, any *)
(* length of the queue and any number of events. ClosureAlive follows from *)
(* where the owner of a registered handler can be; EventAlive from the     *)
(* mutex of the loop, under which a handler runs; InOrder from Delivered,  *)
(* which says that a receiver has every event that was dispatched to it,   *)
(* or that the loop still has it in hand.                                  *)
(***************************************************************************)
EXTENDS EventLoop, TLAPS

(* How many events the loop has begun to dispatch. *)
Dispatched == Len(sent) - Len(queue)

(* Events are numbered, and the queue is the end of what was sent.         *)
Numbered ==
    /\ \A i \in 1 .. Len(sent) : sent[i][2] = i
    /\ Len(queue) <= Len(sent)
    /\ \A j \in 1 .. Len(queue) : queue[j] = sent[Dispatched + j]

(* A handler is called for the event in hand, and only then. *)
UnderMutex ==
    /\ event # None =>
        loop = "open" /\ Dispatched > 0 /\ event = sent[Dispatched]
    /\ event = None => todo = {} /\ cur = None
    /\ cur # None => cur \in registered /\ cur \notin todo

(* Whoever deletes the loop held the last reference. *)
LastReference ==
    /\ deleter # None => refs = {}
    /\ loop = "deleted" => deleter # None /\ registered = {}

(* Where the owner of a registered handler is, and who holds a reference.  *)
RegisteredAt ==
    \A s \in Subs :
        /\ s \in registered => pc[s] # "none"
        /\ s \in weak => pc[s] # "none"
        /\ s \in Subs \ weak /\ pc[s] \in {"live", "recv", "drop", "unregister"}
            => s \in refs
        /\ s \in registered \ weak =>
            pc[s] \in {"live", "recv", "drop", "unregister"}

(* The channel of a receiver. *)
Lending ==
    \A s \in Asyncs :
        /\ chan[s] = "Data" => cur = s
        /\ given[s] # None =>
            chan[s] = "Data" /\ pc[s] = "live" /\ given[s] = event

(* The loop still has its event to deliver to s. *)
InHand(s) ==
    /\ event # None
    /\ s \in todo \/ (cur = s /\ chan[s] = "Data" /\ given[s] = None)

(* What recv() has returned was dispatched, and before what is in hand.    *)
Received ==
    \A s \in Asyncs :
        /\ pc[s] = "none" => got[s] = <<>>
        /\ since[s] <= Dispatched
        /\ InHand(s) => since[s] < Dispatched
        /\ \A k \in 1 .. Len(got[s]) :
            /\ got[s][k][2] <= Dispatched
            /\ InHand(s) => got[s][k][2] < Dispatched

(* What was dispatched since s subscribed has arrived, or is in hand.      *)
Delivered ==
    \A s \in Asyncs :
        s \in registered /\ chan[s] # "Quit" =>
            \A i \in since[s] + 1 .. Dispatched :
                sent[i][1] = Wanted =>
                    \/ \E j \in 1 .. Len(got[s]) : got[s][j] = sent[i]
                    \/ i = Dispatched /\ InHand(s)

IInv ==
    /\ TypeOK /\ Numbered /\ UnderMutex /\ LastReference /\ RegisteredAt
    /\ Lending /\ Received /\ Delivered /\ InOrder

Core == TypeOK /\ Numbered /\ UnderMutex /\ LastReference /\ RegisteredAt /\ Lending

-----------------------------------------------------------------------------
LEMMA InitIInv == Init => IInv
<1> SUFFICES ASSUME Init PROVE IInv
  OBVIOUS
<1> USE EventLoopAssumption DEF Init
<1>1. TypeOK
  BY DEF TypeOK, Subs
<1>2. Numbered
  BY DEF Numbered, Dispatched
<1>3. UnderMutex /\ LastReference /\ RegisteredAt /\ Lending
  BY DEF UnderMutex, LastReference, RegisteredAt, Lending, Subs
<1>4. \A s \in Asyncs : got[s] = <<>> /\ since[s] = 0
  BY DEF Subs
<1>5. Dispatched = 0 /\ event = None /\ registered = {}
  BY DEF Dispatched
<1>6. Received /\ Delivered /\ InOrder
  BY <1>4, <1>5 DEF Received, Delivered, InOrder, InHand
<1> QED
  BY <1>1, <1>2, <1>3, <1>6 DEF IInv

(* The task of the loop. *)
LEMMA LoopKeepsCore == ASSUME Core, LoopNext PROVE Core'
<1> USE EventLoopAssumption
<1> USE DEF Core, TypeOK, Numbered, UnderMutex, LastReference, RegisteredAt,
            Lending, Dispatched, Subs, loopVars, asyncVars
<1>1. CASE Dispatch
  BY <1>1, SMTT(30) DEF Dispatch, MutexFree
<1>2. CASE \E s \in Subs : Call(s)
  BY <1>2 DEF Call
<1>3. CASE Return
  BY <1>3 DEF Return
<1>4. CASE EndDispatch
  BY <1>4 DEF EndDispatch
<1> QED
  BY <1>1, <1>2, <1>3, <1>4 DEF LoopNext

(* The owners of the loop. *)
LEMMA OwnerKeepsCore == ASSUME Core, OwnerNext PROVE Core'
<1> USE EventLoopAssumption
<1> USE DEF Core, TypeOK, Numbered, UnderMutex, LastReference, RegisteredAt,
            Lending, Dispatched, Subs, loopVars, asyncVars
<1>1. CASE Delete
  BY <1>1 DEF Delete, MutexFree
<1>2. ASSUME NEW c \in Owners, DropLoop(c) PROVE Core'
  BY <1>2 DEF DropLoop, Unref
<1>3. ASSUME NEW c \in Owners, NEW source \in {Wanted, Other}, Post(c, source)
      PROVE  Core'
  <2> DEFINE n == Len(sent) + 1
             e == <<source, n>>
  <2>1. refs # {} /\ n \in 1 .. MaxPosts /\ e \in Events /\ e[2] = n
    BY <1>3, SMTT(30) DEF Post, Events
  <2>2. /\ sent' = Append(sent, e) /\ queue' = Append(queue, e)
        /\ Len(queue) < QueueSize
        /\ UNCHANGED <<loop, refs, weak, registered, event, todo, cur, pc,
                       deleter, chan, given, got, since>>
    BY <1>3 DEF Post
  <2> HIDE DEF e
  <2>3. /\ sent' \in Seq(Events) /\ Len(sent') = n /\ sent'[n] = e
        /\ \A i \in 1 .. Len(sent) : sent'[i] = sent[i]
    BY <2>1, <2>2
  <2>4. /\ queue' \in Seq(Events) /\ Len(queue') = Len(queue) + 1
        /\ queue'[Len(queue) + 1] = e
        /\ \A i \in 1 .. Len(queue) : queue'[i] = queue[i]
    BY <2>1, <2>2
  <2>5. Dispatched' = Dispatched
    BY <2>3, <2>4
  <2>6. Numbered'
    <3>1. \A j \in 1 .. Len(queue') : queue'[j] = sent'[Dispatched' + j]
      <4> SUFFICES ASSUME NEW j \in 1 .. Len(queue')
                   PROVE  queue'[j] = sent'[Dispatched + j]
        BY <2>5
      <4>1. CASE j = Len(queue) + 1
        BY <4>1, <2>3, <2>4
      <4>2. CASE j \in 1 .. Len(queue)
        <5>1. Dispatched + j \in 1 .. Len(sent)
          BY <4>2
        <5> QED
          BY <4>2, <5>1, <2>3, <2>4
      <4> QED
        BY <4>1, <4>2, <2>4
    <3>2. \A i \in 1 .. Len(sent') : sent'[i][2] = i
      <4> SUFFICES ASSUME NEW i \in 1 .. Len(sent') PROVE sent'[i][2] = i
        OBVIOUS
      <4>1. CASE i = n
        BY <4>1, <2>1, <2>3
      <4>2. CASE i \in 1 .. Len(sent)
        BY <4>2, <2>3
      <4> QED
        BY <4>1, <4>2, <2>3
    <3> QED
      BY <3>1, <3>2, <2>3, <2>4
  <2>7. UnderMutex'
    BY <2>2, <2>3, <2>5
  <2>8. TypeOK'
    BY <2>2, <2>4
  <2>9. LastReference' /\ RegisteredAt' /\ Lending'
    BY <2>2
  <2> QED
    BY <2>6, <2>7, <2>8, <2>9
<1> QED
  BY <1>1, <1>2, <1>3 DEF OwnerNext

(* The owners of the subscriptions. *)
LEMMA SubKeepsCore == ASSUME Core, NEW s \in Subs, SubNext(s) PROVE Core'
<1> USE EventLoopAssumption
<1> USE DEF Core, TypeOK, Numbered, UnderMutex, LastReference, RegisteredAt,
            Lending, Dispatched, Subs, loopVars, asyncVars, NotDeleting
<1>1. CASE Subscribe(s)
  BY <1>1 DEF Subscribe, MutexFree
<1>2. CASE MakeWeak(s)
  BY <1>2 DEF MakeWeak, Unref
<1>3. CASE Drop(s)
  <2>1. CASE s \in Asyncs
    <3>1. /\ pc' = [pc EXCEPT ![s] = "drop"] /\ pc[s] = "live"
          /\ chan' = [chan EXCEPT ![s] = "Quit"]
          /\ given' = [given EXCEPT ![s] = None]
          /\ UNCHANGED <<loop, refs, weak, registered, queue, event, todo, cur,
                         deleter, got, sent, since>>
      BY <1>3, <2>1 DEF Drop
    <3>2. TypeOK' /\ Numbered' /\ UnderMutex' /\ LastReference'
      BY <2>1, <3>1
    <3>3. RegisteredAt' /\ Lending'
      BY <2>1, <3>1
    <3> QED
      BY <3>2, <3>3
  <2>2. CASE s \notin Asyncs
    BY <1>3, <2>2 DEF Drop
  <2> QED
    BY <2>1, <2>2
<1>4. CASE Upgrade(s)
  <2>1. CASE s \in weak /\ refs = {}
    BY <1>4, <2>1 DEF Upgrade
  <2>2. CASE ~ (s \in weak /\ refs = {})
    <3>1. /\ refs # {} /\ refs' = refs \union {s}
          /\ pc' = [pc EXCEPT ![s] = "unregister"]
          /\ UNCHANGED <<loop, weak, registered, queue, event, todo, cur,
                         deleter, chan, given, got, sent, since>>
      BY <1>4, <2>2 DEF Upgrade
    <3>2. TypeOK' /\ Numbered' /\ UnderMutex' /\ LastReference'
      BY <3>1
    <3>3. RegisteredAt' /\ Lending'
      BY <1>4, <3>1 DEF Upgrade
    <3> QED
      BY <3>2, <3>3
  <2> QED
    BY <2>1, <2>2
<1>5. CASE Unregister(s)
  BY <1>5 DEF Unregister, Unref, MutexFree
<1>6. CASE Free(s)
  BY <1>6 DEF Free
<1>7. CASE s \in Asyncs /\ Recv(s)
  BY <1>7 DEF Recv
<1>8. CASE s \in Asyncs /\ Take(s)
  <2>1. cur = s /\ event # None /\ event \in Events /\ given[s] = None
    BY <1>8 DEF Take
  <2>2. CASE event[1] = Wanted
    <3>1. /\ given' = [given EXCEPT ![s] = event]
          /\ pc' = [pc EXCEPT ![s] = "live"]
          /\ UNCHANGED <<loop, refs, weak, registered, queue, event, todo, cur,
                         chan, deleter, sent, since>>
      BY <1>8, <2>2 DEF Take
    <3>2. got' \in [Asyncs -> Seq(Events)]
      <4>1. got' = [got EXCEPT ![s] = Append(got[s], event)]
        BY <1>8, <2>2 DEF Take
      <4>2. Append(got[s], event) \in Seq(Events)
        BY <1>8, <2>1
      <4> QED
        BY <4>1, <4>2
    <3>3. TypeOK' /\ Numbered' /\ UnderMutex' /\ LastReference'
      BY <2>1, <3>1, <3>2
    <3>4. RegisteredAt' /\ Lending'
      BY <1>8, <2>1, <3>1 DEF Take
    <3> QED
      BY <3>3, <3>4
  <2>3. CASE event[1] # Wanted
    <3>1. /\ chan' = [chan EXCEPT ![s] = "Empty"]
          /\ UNCHANGED <<loop, refs, weak, registered, queue, event, todo, cur,
                         pc, deleter, given, got, sent, since>>
      BY <1>8, <2>3 DEF Take
    <3>2. TypeOK' /\ Numbered' /\ UnderMutex' /\ LastReference'
             /\ RegisteredAt'
      BY <3>1
    <3>3. Lending'
      BY <1>8, <2>1, <3>1
    <3> QED
      BY <3>2, <3>3
  <2> QED
    BY <2>2, <2>3
<1>9. CASE s \in Asyncs /\ Cancel(s)
  BY <1>9 DEF Cancel
<1> QED
  BY <1>1, <1>2, <1>3, <1>4, <1>5, <1>6, <1>7, <1>8, <1>9 DEF SubNext, DropNext

-----------------------------------------------------------------------------
History == Received /\ Delivered /\ InOrder

(* What is in hand for s is the event that is dispatched. *)
LEMMA HandFacts ==
    ASSUME Core
    PROVE  /\ Dispatched \in Nat /\ Dispatched <= Len(sent) /\ Len(sent) \in Nat
           /\ \A i \in 1 .. Dispatched : i \in 1 .. Len(sent)
           /\ \A s \in Asyncs : InHand(s) => event # None
           /\ \A s \in Asyncs : got[s] \in Seq(Events) /\ since[s] \in Nat
  BY DEF Core, Numbered, TypeOK, Dispatched, InHand, Subs

(* A step that dispatches, delivers and receives nothing. *)
LEMMA QuietStep ==
    ASSUME Core, History,
           UNCHANGED <<sent, queue, event, todo, cur, chan, given, got, since>>,
           registered' \subseteq registered,
           \A s \in Subs : pc'[s] = "none" => pc[s] = "none"
    PROVE  History'
<1>1. Dispatched' = Dispatched /\ \A s \in Asyncs : InHand(s)' <=> InHand(s)
  BY DEF Dispatched, InHand
<1>2. Received'
  BY <1>1 DEF History, Received, Subs
<1>3. Delivered'
  BY <1>1 DEF History, Delivered
<1>4. InOrder'
  BY <1>1 DEF History, InOrder
<1> QED
  BY <1>2, <1>3, <1>4 DEF History

LEMMA DispatchKeepsHistory ==
    ASSUME Core, Core', History, Dispatch PROVE History'
<1>1. /\ Dispatched' = Dispatched + 1 /\ event = None /\ event' # None
      /\ todo' = registered /\ todo = {} /\ cur = None
      /\ UNCHANGED <<sent, registered, cur, chan, given, got, since, pc>>
  <2>1. /\ event = None /\ todo' = registered /\ todo = {} /\ cur = None
        /\ UNCHANGED <<sent, registered, cur, chan, given, got, since, pc>>
    BY DEF Dispatch, MutexFree, Core, UnderMutex, asyncVars
  <2>2. queue \in Seq(Events) /\ queue # <<>> /\ Len(sent) \in Nat
    BY DEF Dispatch, Core, TypeOK, Numbered
  <2>3. event' # None
    BY <2>2, EventLoopAssumption DEF Dispatch
  <2>4. Dispatched' = Dispatched + 1
    BY <2>1, <2>2 DEF Dispatch, Dispatched
  <2> QED
    BY <2>1, <2>3, <2>4
<1>2. \A s \in Asyncs : ~ InHand(s) /\ (InHand(s)' <=> s \in registered)
  BY <1>1, EventLoopAssumption DEF InHand, Subs
<1>3. Received'
  <2>1. \A s \in Asyncs : \A k \in 1 .. Len(got[s]) :
            got[s][k][2] <= Dispatched /\ got[s][k][2] \in Nat
    BY HandFacts DEF History, Received, Events
  <2>2. \A s \in Asyncs : \A k \in 1 .. Len(got[s]) :
            got[s][k][2] < Dispatched' /\ got[s][k][2] <= Dispatched'
    BY <1>1, <2>1, HandFacts
  <2> QED
    BY <1>1, <1>2, <2>1, <2>2, HandFacts DEF History, Received
<1>4. Delivered'
  <2> SUFFICES ASSUME NEW s \in Asyncs, s \in registered, chan[s] # "Quit",
                      NEW i \in since[s] + 1 .. Dispatched', sent[i][1] = Wanted
               PROVE  \/ \E j \in 1 .. Len(got[s]) : got[s][j] = sent[i]
                      \/ i = Dispatched'
    BY <1>1, <1>2 DEF History, Delivered
  <2>1. CASE i = Dispatched'
    BY <2>1
  <2>2. CASE i \in since[s] + 1 .. Dispatched
    BY <1>2, <2>2 DEF History, Delivered
  <2> QED
    BY <1>1, <2>1, <2>2, HandFacts DEF History, Delivered
<1>5. InOrder'
  BY <1>1 DEF History, InOrder
<1> QED
  BY <1>3, <1>4, <1>5 DEF History

LEMMA CallKeepsHistory ==
    ASSUME Core, History, NEW c \in Subs, Call(c) PROVE History'
<1>1. /\ Dispatched' = Dispatched /\ event # None /\ cur = None /\ cur' = c
      /\ c \in todo /\ todo' = todo \ {c}
      /\ UNCHANGED <<sent, event, registered, given, got, since, pc>>
  BY DEF Call, Core, UnderMutex, Dispatched
<1>2. \A s \in Asyncs : chan[s] # "Data" /\ given[s] = None
  BY <1>1, EventLoopAssumption DEF Core, Lending, TypeOK, Subs
<1>3. \A s \in Asyncs : /\ chan'[s] = "Quit" <=> chan[s] = "Quit"
                        /\ s # c => chan'[s] = chan[s]
                        /\ s = c /\ chan[s] # "Quit" => chan'[s] = "Data"
  BY <1>1, <1>2 DEF Call, Core, TypeOK
<1>4. \A s \in Asyncs : /\ InHand(s)' => InHand(s)
                        /\ InHand(s) /\ chan[s] # "Quit" => InHand(s)'
  BY <1>1, <1>2, <1>3 DEF InHand
<1>5. Received'
  BY <1>1, <1>4 DEF History, Received
<1>6. Delivered'
  BY <1>1, <1>3, <1>4 DEF History, Delivered
<1>7. InOrder'
  BY <1>1 DEF History, InOrder
<1> QED
  BY <1>5, <1>6, <1>7 DEF History

LEMMA ReturnKeepsHistory ==
    ASSUME Core, History, Return \/ EndDispatch PROVE History'
<1>1. /\ Dispatched' = Dispatched
      /\ UNCHANGED <<sent, todo, registered, chan, given, got, since, pc>>
  BY DEF Return, EndDispatch, Dispatched, asyncVars
<1>2. \A s \in Asyncs : InHand(s)' <=> InHand(s)
  BY EventLoopAssumption
  DEF InHand, Return, EndDispatch, asyncVars, Core, TypeOK, Lending, Subs
<1>3. Received'
  BY <1>1, <1>2 DEF History, Received
<1>4. Delivered'
  BY <1>1, <1>2 DEF History, Delivered
<1>5. InOrder'
  BY <1>1 DEF History, InOrder
<1> QED
  BY <1>3, <1>4, <1>5 DEF History

LEMMA PostKeepsHistory ==
    ASSUME Core, Core', History,
           NEW c \in Owners, NEW source \in {Wanted, Other}, Post(c, source)
    PROVE  History'
<1>1. /\ Dispatched' = Dispatched
      /\ UNCHANGED <<event, todo, cur, registered, chan, given, got, since, pc>>
  BY DEF Post, Core, TypeOK, Numbered, Dispatched, loopVars, asyncVars
<1>2. /\ \A i \in 1 .. Len(sent) : sent'[i] = sent[i]
  BY DEF Post, Core, Numbered, TypeOK, Events
<1>3. \A s \in Asyncs : InHand(s)' <=> InHand(s)
  BY <1>1 DEF InHand
<1>4. Received'
  BY <1>1, <1>3 DEF History, Received
<1>5. Delivered'
  BY <1>1, <1>2, <1>3, HandFacts DEF History, Delivered
<1>6. InOrder'
  <2> SUFFICES ASSUME NEW s \in Asyncs, NEW k \in 1 .. Len(got[s])
               PROVE  /\ got[s][k] = sent'[got[s][k][2]]
                      /\ \A i \in since[s] + 1 .. got[s][k][2] :
                            sent'[i][1] = Wanted =>
                                \E j \in 1 .. Len(got[s]) : got[s][j] = sent'[i]
    BY <1>1 DEF History, InOrder
  <2>1. got[s][k][2] \in 1 .. Len(sent)
    BY HandFacts DEF History, Received, InOrder, Events, Delivered
  <2>2. \A i \in since[s] + 1 .. got[s][k][2] : i \in 1 .. Len(sent)
    BY <2>1, HandFacts
  <2> QED
    BY <1>2, <2>1, <2>2 DEF History, InOrder
<1> QED
  BY <1>4, <1>5, <1>6 DEF History

LEMMA DeleteKeepsHistory == ASSUME Core, History, Delete PROVE History'
<1>1. /\ registered' = {} /\ Dispatched' >= Dispatched /\ event = None
      /\ UNCHANGED <<sent, event, todo, cur, chan, given, got, since, pc>>
  BY DEF Delete, Core, TypeOK, Numbered, Dispatched, loopVars, asyncVars,
         MutexFree
<1>2. \A s \in Asyncs : ~ InHand(s)'
  BY <1>1 DEF InHand
<1>3. Received'
  BY <1>1, <1>2, HandFacts, SMTT(30) DEF History, Received, Events, Dispatched, Delete
<1>4. Delivered'
  BY <1>1 DEF History, Delivered
<1>5. InOrder'
  BY <1>1 DEF History, InOrder
<1> QED
  BY <1>3, <1>4, <1>5 DEF History

LEMMA SubscribeKeepsHistory ==
    ASSUME Core, Core', History, NEW c \in Subs, Subscribe(c) PROVE History'
<1>1. /\ Dispatched' = Dispatched /\ since' = [since EXCEPT ![c] = Dispatched]
      /\ event = None /\ registered' = registered \union {c} /\ pc[c] = "none"
      /\ pc' = [pc EXCEPT ![c] = "live"]
      /\ UNCHANGED <<sent, event, todo, cur, chan, given, got>>
  BY DEF Subscribe, Dispatched, loopVars, asyncVars, MutexFree
<1>2. \A s \in Asyncs : ~ InHand(s) /\ ~ InHand(s)'
  BY <1>1 DEF InHand
<1>3. Received'
  BY <1>1, <1>2 DEF History, Received, Core, TypeOK
<1>4. ASSUME NEW s \in Asyncs, s # c
      PROVE  since'[s] = since[s] /\ (s \in registered' <=> s \in registered)
  BY <1>1, <1>4 DEF Core, TypeOK, Subs
<1>5. c \in Asyncs => got[c] = <<>> /\ since'[c] = Dispatched
  BY <1>1 DEF History, Received, Subs, Core, TypeOK
<1>6. Delivered'
  <2>1. ASSUME NEW s \in Asyncs, s # c
        PROVE  s \in registered' /\ chan'[s] # "Quit" =>
                    \A i \in since'[s] + 1 .. Dispatched' :
                        sent'[i][1] = Wanted =>
                            \/ \E j \in 1 .. Len(got'[s]) : got'[s][j] = sent'[i]
                            \/ i = Dispatched' /\ InHand(s)'
    BY <1>1, <1>2, <1>4, <2>1 DEF History, Delivered
  <2>2. c \in Asyncs => since'[c] + 1 .. Dispatched' = {}
    BY <1>1, <1>5, HandFacts
  <2> QED
    BY <2>1, <2>2 DEF Delivered
<1>7. InOrder'
  <2>1. ASSUME NEW s \in Asyncs, s # c, NEW k \in 1 .. Len(got[s])
        PROVE  /\ got[s][k][1] = Wanted /\ got[s][k][2] > since'[s]
               /\ got[s][k] = sent[got[s][k][2]]
               /\ \A j \in 1 .. k - 1 : got[s][j][2] < got[s][k][2]
               /\ \A i \in since'[s] + 1 .. got[s][k][2] :
                    sent[i][1] = Wanted =>
                        \E j \in 1 .. Len(got[s]) : got[s][j] = sent[i]
    BY <1>4, <2>1 DEF History, InOrder
  <2>2. c \in Asyncs => 1 .. Len(got[c]) = {}
    BY <1>5
  <2> QED
    BY <1>1, <2>1, <2>2 DEF InOrder
<1> QED
  BY <1>3, <1>6, <1>7 DEF History

(* The receiver gives back what it was given, or is dropped. *)
LEMMA GiveBackKeepsHistory ==
    ASSUME Core, History, NEW c \in Subs, Drop(c) \/ (c \in Asyncs /\ Recv(c))
    PROVE  History'
<1>1. /\ Dispatched' = Dispatched
      /\ \A s \in Subs : pc'[s] = "none" => pc[s] = "none"
      /\ UNCHANGED <<sent, event, todo, cur, registered, got, since>>
  BY DEF Drop, Recv, Dispatched, loopVars, Core, TypeOK
<1>2. ASSUME NEW s \in Asyncs
      PROVE  /\ InHand(s)' => InHand(s)
             /\ InHand(s) /\ chan'[s] # "Quit" => InHand(s)'
             /\ chan'[s] # "Quit" => chan[s] # "Quit"
  <2>1. CASE c \in Asyncs /\ Recv(c)
    BY <1>1, <2>1 DEF Recv, InHand, Core, TypeOK, Lending
  <2>2. CASE Drop(c)
    BY <1>1, <2>2 DEF Drop, InHand, Core, TypeOK, Lending
  <2> QED
    BY <2>1, <2>2
<1>3. Received'
  BY <1>1, <1>2 DEF History, Received, Subs
<1>4. Delivered'
  BY <1>1, <1>2 DEF History, Delivered
<1>5. InOrder'
  BY <1>1 DEF History, InOrder
<1> QED
  BY <1>3, <1>4, <1>5 DEF History

LEMMA TakeKeepsHistory ==
    ASSUME Core, History, NEW c \in Asyncs, Take(c) PROVE History'
<1>1. /\ cur = c /\ event # None /\ event \in Events /\ given[c] = None
      /\ event = sent[Dispatched] /\ chan[c] = "Data" /\ InHand(c)
      /\ c \in registered /\ c \notin todo /\ Dispatched > 0 /\ pc[c] = "recv"
  BY EventLoopAssumption
  DEF Take, Core, TypeOK, Lending, UnderMutex, InHand, Subs
<1>2. event[2] = Dispatched
  BY <1>1, HandFacts DEF Core, Numbered
<1>3. /\ Dispatched' = Dispatched
      /\ UNCHANGED <<sent, event, todo, cur, registered, since>>
      /\ \A s \in Subs : pc'[s] = "none" => pc[s] = "none"
  BY DEF Take, Dispatched, loopVars, Core, TypeOK
<1>4. \A s \in Asyncs \ {c} : got'[s] = got[s] /\ chan'[s] = chan[s] /\ given'[s] = given[s]
  BY DEF Take, Core, TypeOK
<1>5. \A s \in Asyncs \ {c} : InHand(s)' <=> InHand(s)
  BY <1>3, <1>4 DEF InHand
<1>6. ~ InHand(c)'
  BY <1>1, <1>3 DEF InHand, Take, Core, TypeOK
<1>7. CASE event[1] # Wanted
  <2>1. got' = got /\ chan'[c] = "Empty"
    BY <1>7 DEF Take, Core, TypeOK
  <2>2. Received'
    BY <1>3, <1>5, <1>6, <2>1 DEF History, Received, Subs
  <2>3. Delivered'
    BY <1>1, <1>3, <1>4, <1>5, <1>6, <1>7, <2>1 DEF History, Delivered
  <2>4. InOrder'
    BY <1>3, <2>1 DEF History, InOrder
  <2> QED
    BY <2>2, <2>3, <2>4 DEF History
<1>8. CASE event[1] = Wanted
  <2> DEFINE n == Len(got[c]) + 1
  <2>1. /\ got'[c] = Append(got[c], event) /\ got'[c] \in Seq(Events)
        /\ Len(got'[c]) = n /\ got'[c][n] = event /\ n \in Nat
        /\ \A k \in 1 .. Len(got[c]) : got'[c][k] = got[c][k]
        /\ chan'[c] = "Data"
    <3>1. got' = [got EXCEPT ![c] = Append(got[c], event)] /\ chan' = chan
      BY <1>8 DEF Take
    <3>2. got[c] \in Seq(Events) /\ got'[c] = Append(got[c], event)
      BY <3>1, HandFacts DEF Core, TypeOK
    <3> QED
      BY <1>1, <3>1, <3>2
  <2>2. \A k \in 1 .. n : k = n \/ k \in 1 .. Len(got[c])
    BY <2>1
  <2>3. \A k \in 1 .. Len(got[c]) :
            got[c][k][2] \in Nat /\ got[c][k][2] < Dispatched
    BY <1>1, HandFacts DEF History, Received, Events
  <2>4. pc'[c] # "none"
    BY <1>1, <1>3 DEF Subs
  <2>5. Received'
    <3>1. ASSUME NEW k \in 1 .. n PROVE got'[c][k][2] <= Dispatched
      BY <1>2, <2>1, <2>2, <2>3, HandFacts
    <3> QED
      BY <1>3, <1>4, <1>5, <1>6, <2>1, <2>4, <3>1 DEF History, Received, Subs
  <2>6. \A i \in since[c] + 1 .. Dispatched :
            sent[i][1] = Wanted => \E j \in 1 .. n : got'[c][j] = sent[i]
    <3> SUFFICES ASSUME NEW i \in since[c] + 1 .. Dispatched, sent[i][1] = Wanted
                 PROVE  \E j \in 1 .. n : got'[c][j] = sent[i]
      OBVIOUS
    <3>1. CASE i = Dispatched
      BY <1>1, <2>1, <3>1
    <3>2. CASE i # Dispatched
      <4>1. PICK j \in 1 .. Len(got[c]) : got[c][j] = sent[i]
        BY <1>1, <3>2 DEF History, Delivered
      <4>2. j \in 1 .. n /\ got'[c][j] = sent[i]
        BY <2>1, <4>1
      <4> QED
        BY <4>2
    <3> QED
      BY <3>1, <3>2
  <2>7. Delivered'
    <3> SUFFICES ASSUME NEW s \in Asyncs, s \in registered, chan'[s] # "Quit",
                        NEW i \in since[s] + 1 .. Dispatched, sent[i][1] = Wanted
                 PROVE  \/ \E j \in 1 .. Len(got'[s]) : got'[s][j] = sent[i]
                        \/ i = Dispatched /\ InHand(s)'
      BY <1>3 DEF Delivered
    <3>1. CASE s = c
      BY <2>1, <2>6, <3>1
    <3>2. CASE s # c
      BY <1>4, <1>5, <3>2 DEF History, Delivered
    <3> QED
      BY <3>1, <3>2
  <2>8. InOrder'
    <3>1. ASSUME NEW s \in Asyncs \ {c}, NEW k \in 1 .. Len(got[s])
          PROVE  /\ got[s][k][1] = Wanted /\ got[s][k][2] > since[s]
                 /\ got[s][k] = sent[got[s][k][2]]
                 /\ \A j \in 1 .. k - 1 : got[s][j][2] < got[s][k][2]
                 /\ \A i \in since[s] + 1 .. got[s][k][2] :
                        sent[i][1] = Wanted =>
                            \E j \in 1 .. Len(got[s]) : got[s][j] = sent[i]
      BY DEF History, InOrder
    <3>2. ASSUME NEW k \in 1 .. n
          PROVE  /\ got'[c][k][1] = Wanted /\ got'[c][k][2] > since[c]
                 /\ got'[c][k] = sent[got'[c][k][2]]
                 /\ \A j \in 1 .. k - 1 : got'[c][j][2] < got'[c][k][2]
                 /\ \A i \in since[c] + 1 .. got'[c][k][2] :
                        sent[i][1] = Wanted =>
                            \E j \in 1 .. n : got'[c][j] = sent[i]
      <4>1. CASE k = n
        <5>1. since[c] < Dispatched
          BY <1>1 DEF History, Received
        <5>2. \A j \in 1 .. k - 1 : got'[c][j][2] < Dispatched
          BY <4>1, <2>1, <2>3
        <5> QED
          BY <1>1, <1>2, <1>8, <2>1, <2>6, <4>1, <5>1, <5>2
      <4>2. CASE k \in 1 .. Len(got[c])
        <5>1. /\ got[c][k][1] = Wanted /\ got[c][k][2] > since[c]
              /\ got[c][k] = sent[got[c][k][2]]
              /\ \A j \in 1 .. k - 1 : got[c][j][2] < got[c][k][2]
          BY <4>2 DEF History, InOrder
        <5>2. got[c][k][2] \in Nat /\ got[c][k][2] < Dispatched
          BY <2>3, <4>2
        <5>3. \A j \in 1 .. k - 1 : j \in 1 .. Len(got[c])
          BY <4>2
        <5>4. \A i \in since[c] + 1 .. got[c][k][2] : i \in since[c] + 1 .. Dispatched
          BY <5>2, HandFacts DEF History, Delivered
        <5> QED
          BY <2>1, <2>6, <4>2, <5>1, <5>2, <5>3, <5>4
      <4> QED
        BY <2>2, <4>1, <4>2
    <3>3. since' = since /\ sent' = sent /\ Len(got'[c]) = n
      BY <1>3, <2>1
    <3> SUFFICES ASSUME NEW s \in Asyncs, NEW k \in 1 .. Len(got'[s])
                 PROVE  /\ got'[s][k][1] = Wanted /\ got'[s][k][2] > since[s]
                        /\ got'[s][k] = sent[got'[s][k][2]]
                        /\ \A j \in 1 .. k - 1 : got'[s][j][2] < got'[s][k][2]
                        /\ \A i \in since[s] + 1 .. got'[s][k][2] :
                              sent[i][1] = Wanted =>
                                \E j \in 1 .. Len(got'[s]) : got'[s][j] = sent[i]
      BY <3>3 DEF InOrder
    <3>4. CASE s = c
      BY <3>2, <3>3, <3>4
    <3>5. CASE s # c
      BY <1>4, <3>1, <3>5
    <3> QED
      BY <3>4, <3>5
  <2> QED
    BY <2>5, <2>7, <2>8 DEF History
<1> QED
  BY <1>7, <1>8

-----------------------------------------------------------------------------
LEMMA StepKeepsCore == Core /\ [Next]_vars => Core'
<1>1. ASSUME Core, UNCHANGED vars PROVE Core'
  BY <1>1
  DEF vars, loopVars, asyncVars, Core, TypeOK, Numbered, UnderMutex, Dispatched,
      LastReference, RegisteredAt, Lending
<1> QED
  BY <1>1, LoopKeepsCore, OwnerKeepsCore, SubKeepsCore DEF Next

LEMMA SubKeepsHistory ==
    ASSUME Core, Core', History, NEW s \in Subs, SubNext(s) PROVE History'
<1>1. CASE MakeWeak(s)
  BY <1>1, QuietStep DEF MakeWeak, loopVars, asyncVars
<1>2. CASE Upgrade(s) \/ Free(s) \/ Cancel(s)
  <2>1. \A t \in Subs : pc'[t] = "none" => pc[t] = "none"
    BY <1>2 DEF Upgrade, Free, Cancel, Core, TypeOK
  <2> QED
    BY <1>2, <2>1, QuietStep DEF Upgrade, Free, Cancel, loopVars, asyncVars
<1>3. CASE Unregister(s)
  <2>1. \A t \in Subs : pc'[t] = "none" => pc[t] = "none"
    BY <1>3 DEF Unregister, Core, TypeOK
  <2> QED
    BY <1>3, <2>1, QuietStep DEF Unregister, loopVars, asyncVars
<1>4. CASE Subscribe(s)
  BY <1>4, SubscribeKeepsHistory
<1>5. CASE Drop(s) \/ (s \in Asyncs /\ Recv(s))
  BY <1>5, GiveBackKeepsHistory
<1>6. CASE s \in Asyncs /\ Take(s)
  BY <1>6, TakeKeepsHistory
<1> QED
  BY <1>1, <1>2, <1>3, <1>4, <1>5, <1>6 DEF SubNext, DropNext

LEMMA StepKeepsHistory == Core /\ Core' /\ History /\ [Next]_vars => History'
<1> SUFFICES ASSUME Core, Core', History, [Next]_vars PROVE History'
  OBVIOUS
<1>1. CASE UNCHANGED vars
  BY <1>1, QuietStep DEF vars, loopVars, asyncVars
<1>2. CASE LoopNext
  BY <1>2, DispatchKeepsHistory, CallKeepsHistory, ReturnKeepsHistory
  DEF LoopNext
<1>3. CASE OwnerNext
  <2>1. ASSUME NEW c \in Owners, DropLoop(c) PROVE History'
    BY <2>1, QuietStep DEF DropLoop, loopVars, asyncVars
  <2> QED
    BY <1>3, <2>1, DeleteKeepsHistory, PostKeepsHistory DEF OwnerNext
<1> QED
  BY <1>1, <1>2, <1>3, SubKeepsHistory DEF Next

(* In every reachable state the inductive invariant holds. *)
THEOREM Invariance == Spec => []IInv
<1>1. IInv <=> Core /\ History
  BY DEF IInv, Core, History
<1> QED
  BY <1>1, InitIInv, StepKeepsCore, StepKeepsHistory, PTL DEF Spec

(* The state of eventloop.rs, and the histories, keep to their types. *)
THEOREM TypeCorrect == Spec => []TypeOK
  BY Invariance, PTL DEF IInv

(* The loop calls no closure that has been freed, unless make_weak() has   *)
(* left the subscription without a reference to the loop.                  *)
THEOREM ClosureSafety == Spec => []ClosureAlive
<1>1. ASSUME IInv PROVE ClosureAlive
  <2>1. /\ todo \subseteq registered
        /\ cur # None => cur \in registered
        /\ \A s \in Subs : s \in registered \ weak => pc[s] # "gone"
    BY <1>1 DEF IInv, TypeOK, UnderMutex, RegisteredAt
  <2>2. \A s \in Subs : s # None
    BY EventLoopAssumption
  <2> QED
    BY <2>1, <2>2 DEF ClosureAlive
<1> QED
  BY <1>1, Invariance, PTL

(* What recv() has returned is alive until it is given back, and recv()    *)
(* returns the events of its source in order, every one once: the reason   *)
(* why subscribe_async() may make the lifetime of an event 'static.        *)
THEOREM RecvSafety == Spec => []RecvIsSound
<1>1. IInv => RecvIsSound
  BY DEF IInv, Lending, RecvIsSound, EventAlive
<1> QED
  BY <1>1, Invariance, PTL
=============================================================================
