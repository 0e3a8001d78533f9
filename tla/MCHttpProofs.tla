----------------------------- MODULE MCHttpProofs -----------------------------
(***************************************************************************)
(* Proofs about HTTP and WebSockets, for any number of servers, sessions,  *)
(* threads, calls and data. What MCHttp does is, seen from one of its      *)
(* parts, a behaviour of that part: for each part an inductive invariant   *)
(* is proved of its specification, and the theorems at the end put         *)
(* together what these imply.                                              *)
(***************************************************************************)
EXTENDS MCHttp, Sequences, FiniteSetTheorems, SequenceTheorems, TLAPS

-----------------------------------------------------------------------------
(* The composition runs its components. *)
LEMMA Components ==
    Spec => /\ Httpd!Spec /\ Sender!Spec /\ Request!Spec
            /\ Client!Spec /\ Ws!Spec /\ Secure!Spec
<1>1. Init => /\ Httpd!Init /\ Sender!Init /\ Request!Init
              /\ Client!Init /\ Ws!Init /\ Secure!Init
  BY DEF Init
<1>2. [Next]_vars => [Httpd!Next]_(Httpd!vars)
  BY DEF Next, vars, serverVars, Httpd!vars
<1>3. [Next]_vars => [Sender!Next]_(Sender!vars)
  BY DEF Next, vars, senderVars, Sender!vars
<1>4. [Next]_vars => [Request!Next]_(Request!vars)
  BY DEF Next, vars, requestVars, Request!vars
<1>5. [Next]_vars => [Client!Next]_(Client!vars)
  BY DEF Next, vars, clientVars, Client!vars
<1>6. [Next]_vars => [Ws!Next]_(Ws!vars)
  BY DEF Next, vars, wsVars, Ws!vars
<1>7. [Next]_vars => [Secure!Next]_(Secure!vars)
  BY DEF Next, vars, tlsVars, Secure!vars
<1> QED
  BY <1>1, <1>2, <1>3, <1>4, <1>5, <1>6, <1>7, PTL
  DEF Spec, Httpd!Spec, Sender!Spec, Request!Spec, Client!Spec, Ws!Spec,
  Secure!Spec

-----------------------------------------------------------------------------
(* The server, for any number of servers. What an address means changes    *)
(* hands with the C server, but while a server has sessions nobody else    *)
(* has its address, and CLOSE_HANDLERS has either no entry for it or one   *)
(* with all of its handlers.                                               *)

(* A server that is up has a C server, and its address for itself.         *)
HttpdOwned ==
    /\ \A s \in Servers :
          serverPc[s] \in {"started", "up", "stopping"} => sd[s] \in httpd
    /\ \A s, u \in Servers :
          /\ serverPc[s] \in {"started", "up", "stopping"}
          /\ serverPc[u] \in {"started", "up", "stopping"}
          /\ sd[s] = sd[u]
          => s = u

(* Handlers are registered while the server is up.                         *)
HttpdRegistered ==
    /\ \A s \in Servers : uris[s] # 0 => serverPc[s] = "up"
    /\ \A s \in Servers : pushing[s] => serverPc[s] = "up" /\ uris[s] # 0
    /\ \A s \in Servers : \A n \in 1 .. uris[s] :
          sd[s] \in DOMAIN registry /\ ~ (pushing[s] /\ n = uris[s]) =>
              <<s, n>> \in registry[sd[s]]

(* Close handlers are of servers that are not down, under their address.   *)
HttpdListed ==
    \A a \in DOMAIN registry : \A h \in registry[a] :
        sd[h[1]] = a /\ serverPc[h[1]] \in {"up", "stopping", "stopped"}

(* Who is owed a call will be found.                                       *)
HttpdOwed ==
    \A x \in owed :
        /\ x \in Addresses \X Fds \X Httpd!Handlers
        /\ <<x[1], x[2]>> \in sessions
        /\ sd[x[3][1]] = x[1] /\ serverPc[x[3][1]] \in {"up", "stopping"}
        /\ x[1] \in DOMAIN registry => x[3] \in registry[x[1]]

HttpdIInv ==
    /\ Httpd!TypeOK /\ HttpdOwned /\ HttpdRegistered /\ HttpdListed /\ HttpdOwed

LEMMA HttpdInitIInv == ASSUME Httpd!ServerAssumption, Httpd!Init PROVE HttpdIInv
<1>1. Httpd!TypeOK
  <2>1. uris \in [Servers -> 0 .. MaxHandlers]
    BY DEF Httpd!ServerAssumption, Httpd!Init
  <2> QED
    BY <2>1 DEF Httpd!Init, Httpd!TypeOK, Httpd!States
<1>2. HttpdOwned /\ HttpdRegistered /\ HttpdListed /\ HttpdOwed
  BY DEF Httpd!Init, HttpdOwned, HttpdRegistered, HttpdListed, HttpdOwed
<1> QED
  BY <1>1, <1>2 DEF HttpdIInv

(* What the owners do. *)
LEMMA HttpdOwnerKeepsIInv ==
    ASSUME Httpd!ServerAssumption, HttpdIInv, NEW s \in Servers,
           \/ Httpd!Start(s) \/ Httpd!Insert(s) \/ Httpd!RegisterUri(s)
           \/ Httpd!PushCloseHandler(s) \/ Httpd!Unregister(s)
           \/ Httpd!HttpdStop(s) \/ Httpd!Remove(s)
    PROVE  HttpdIInv'
<1> USE DEF HttpdIInv, HttpdOwned, HttpdRegistered, HttpdListed, HttpdOwed,
            Httpd!ServerAssumption, Httpd!TypeOK, Httpd!Handlers, Httpd!States
<1>1. CASE Httpd!Start(s)
  BY <1>1 DEF Httpd!Start
<1>2. CASE Httpd!Insert(s)
  BY <1>2 DEF Httpd!Insert
<1>3. CASE Httpd!RegisterUri(s)
  BY <1>3 DEF Httpd!RegisterUri
<1>4. CASE Httpd!PushCloseHandler(s)
  <2>1. CASE sd[s] \notin DOMAIN registry
    BY <1>4, <2>1 DEF Httpd!PushCloseHandler
  <2>2. CASE sd[s] \in DOMAIN registry
    <3> DEFINE h == <<s, uris[s]>>
    <3>1. h \in Httpd!Handlers /\ serverPc[s] = "up"
      BY <1>4 DEF Httpd!PushCloseHandler
    <3>2. /\ registry' = [registry EXCEPT ![sd[s]] = @ \union {h}]
          /\ pushing' = [pushing EXCEPT ![s] = FALSE]
          /\ UNCHANGED <<serverPc, sd, httpd, uris, sessions, owed, panicked>>
      BY <1>4, <2>2 DEF Httpd!PushCloseHandler
    <3>3. Httpd!TypeOK'
      BY <2>2, <3>1, <3>2
    <3>4. HttpdRegistered'
      BY <2>2, <3>2
    <3>5. HttpdOwned' /\ HttpdListed' /\ HttpdOwed'
      BY <2>2, <3>1, <3>2
    <3> QED
      BY <3>3, <3>4, <3>5
  <2> QED
    BY <2>1, <2>2
<1>5. CASE Httpd!Unregister(s)
  BY <1>5 DEF Httpd!Unregister
<1>6. CASE Httpd!HttpdStop(s)
  BY <1>6 DEF Httpd!HttpdStop
<1>7. CASE Httpd!Remove(s)
  BY <1>7 DEF Httpd!Remove, Httpd!Restrict
<1> QED
  BY <1>1, <1>2, <1>3, <1>4, <1>5, <1>6, <1>7

(* What the task of a C server does. *)
LEMMA HttpdTaskKeepsIInv ==
    ASSUME Httpd!ServerAssumption, HttpdIInv,
           \/ \E s \in Servers, n \in 1 .. MaxHandlers : Httpd!Serve(s, n)
           \/ \E a \in Addresses : Httpd!Accept(a)
           \/ \E a \in Addresses, f \in Fds : Httpd!CloseFn(a, f)
    PROVE  HttpdIInv'
<1> USE DEF HttpdIInv, HttpdOwned, HttpdRegistered, HttpdListed, HttpdOwed,
            Httpd!ServerAssumption, Httpd!TypeOK, Httpd!Handlers, Httpd!States
<1>1. ASSUME NEW s \in Servers, NEW n \in 1 .. MaxHandlers, Httpd!Serve(s, n)
      PROVE  HttpdIInv'
  BY <1>1 DEF Httpd!Serve
<1>2. ASSUME NEW a \in Addresses, Httpd!Accept(a) PROVE HttpdIInv'
  BY <1>2 DEF Httpd!Accept
<1>3. ASSUME NEW a \in Addresses, NEW f \in Fds, Httpd!CloseFn(a, f)
      PROVE  HttpdIInv'
  BY <1>3 DEF Httpd!CloseFn
<1> QED
  BY <1>1, <1>2, <1>3

LEMMA HttpdStepKeepsIInv ==
    ASSUME Httpd!ServerAssumption, HttpdIInv, [Httpd!Next]_(Httpd!vars)
    PROVE  HttpdIInv'
<1>1. CASE UNCHANGED Httpd!vars
  BY <1>1 DEF Httpd!vars, HttpdIInv, HttpdOwned, HttpdRegistered, HttpdListed,
              HttpdOwed, Httpd!TypeOK
<1> QED
  BY <1>1, HttpdOwnerKeepsIInv, HttpdTaskKeepsIInv DEF Httpd!Next

LEMMA HttpdIInvIsSafe ==
    HttpdIInv => Httpd!TypeOK /\ Httpd!HandlersAreTold /\ Httpd!NothingLeftBehind
<1> SUFFICES ASSUME HttpdIInv
             PROVE  Httpd!HandlersAreTold /\ Httpd!NothingLeftBehind
  BY DEF HttpdIInv
<1>1. Httpd!HandlersAreTold
  BY DEF HttpdIInv, HttpdOwed, Httpd!HandlersAreTold
<1>2. Httpd!NothingLeftBehind
  BY DEF HttpdIInv, HttpdRegistered, HttpdListed, Httpd!NothingLeftBehind
<1> QED
  BY <1>1, <1>2

(* In every reachable state the inductive invariant holds.                 *)
THEOREM HttpdInvariance ==
    ASSUME Httpd!ServerAssumption PROVE Httpd!Spec => []HttpdIInv
<1>1. Httpd!Init => HttpdIInv
  BY HttpdInitIInv
<1>2. HttpdIInv /\ [Httpd!Next]_(Httpd!vars) => HttpdIInv'
  BY HttpdStepKeepsIInv
<1> QED
  BY <1>1, <1>2, PTL DEF Httpd!Spec

-----------------------------------------------------------------------------
(* The detached senders. A session has at most one flag, which is closed   *)
(* with it, and sessions and flags are never used again: so the flag of a  *)
(* sender tells whether the socket still has the session of the sender.    *)

(* The sessions that have no flag yet. *)
Flagless == {f \in Fds : conn[f] # Sender!Absent /\ entry[f] = Sender!Absent}

SenderCount == IsFiniteSet(Flagless) /\ flags + Cardinality(Flagless) <= accepted

SenderEntries ==
    /\ \A f \in Fds : entry[f] # Sender!Absent =>
          conn[f] # Sender!Absent /\ entry[f] \notin closed
    /\ \A f, g \in Fds : entry[f] # Sender!Absent /\ entry[f] = entry[g] => f = g

SenderKnows ==
    \A t \in Threads : sender[t] # Sender!NoSender =>
        IF sender[t].flag \in closed
        THEN conn[sender[t].fd] # sender[t].session
        ELSE /\ conn[sender[t].fd] = sender[t].session
             /\ entry[sender[t].fd] = sender[t].flag

(* Whoever has work in the queue has it once and waits for its answer. *)
SenderQueue ==
    /\ \A t \in Threads : senderPc[t] # "idle" => sender[t] # Sender!NoSender
    /\ \A t \in Threads : senderPc[t] = "open" => answer[t] = "none"
    /\ \A k \in 1 .. Len(work) : work[k] # "stop" =>
          senderPc[work[k]] = "waiting" /\ answer[work[k]] = "none"
    /\ \A k, l \in 1 .. Len(work) : work[k] # "stop" /\ work[k] = work[l] => k = l

SenderIInv ==
    /\ Sender!TypeOK /\ SenderCount /\ SenderEntries /\ SenderKnows /\ SenderQueue
    /\ Sender!FramesReachTheirSession /\ Sender!OkMeansSent

LEMMA SenderInitIInv ==
    ASSUME Sender!SenderAssumption, Sender!Init PROVE SenderIInv
<1> USE DEF Sender!Init, Sender!Absent
<1>1. Sender!TypeOK
  <2>1. 0 \in 0 .. MaxSessions /\ 0 \in 0 .. 0
    BY DEF Sender!SenderAssumption
  <2>2. /\ conn \in [Fds -> 0 .. accepted] /\ entry \in [Fds -> 0 .. flags]
        /\ senderSent \in [Threads -> 0 .. accepted]
    BY <2>1
  <2> QED
    BY <2>1, <2>2 DEF Sender!TypeOK, Sender!NoSender
<1>2. Flagless = {}
  BY DEF Flagless
<1>3. SenderCount
  BY <1>2, FS_EmptySet DEF SenderCount
<1> QED
  BY <1>1, <1>3 DEF SenderIInv, SenderEntries, SenderKnows, SenderQueue,
     Sender!FramesReachTheirSession, Sender!OkMeansSent

(* The numbers of sessions and flags grow. *)
LEMMA SenderNumbersGrow ==
    ASSUME Sender!SenderAssumption, Sender!TypeOK,
           NEW a \in Nat, NEW n \in Nat, accepted <= a, flags <= n
    PROVE  /\ conn \in [Fds -> 0 .. a] /\ senderSent \in [Threads -> 0 .. a]
           /\ entry \in [Fds -> 0 .. n] /\ closed \subseteq 1 .. n
           /\ sender \in [Threads -> {Sender!NoSender} \union
                            [fd : Fds, flag : 1 .. n, session : 1 .. a]]
<1>1. 0 .. accepted \subseteq 0 .. a /\ 1 .. accepted \subseteq 1 .. a
  BY DEF Sender!SenderAssumption, Sender!TypeOK
<1>2. 0 .. flags \subseteq 0 .. n /\ 1 .. flags \subseteq 1 .. n
  BY DEF Sender!SenderAssumption, Sender!TypeOK
<1>3. [fd : Fds, flag : 1 .. flags, session : 1 .. accepted]
        \subseteq [fd : Fds, flag : 1 .. n, session : 1 .. a]
  BY <1>1, <1>2
<1> QED
  BY <1>1, <1>2, <1>3 DEF Sender!TypeOK

(* A session comes. *)
LEMMA SenderAcceptKeepsIInv ==
    ASSUME Sender!SenderAssumption, SenderIInv, NEW f \in Fds, Sender!Accept(f)
    PROVE  SenderIInv'
<1> USE DEF Sender!Absent
<1>1. /\ conn[f] = 0 /\ accepted' = accepted + 1 /\ accepted' \in 1 .. MaxSessions
      /\ conn' = [conn EXCEPT ![f] = accepted']
      /\ UNCHANGED <<entry, flags, closed, sender, senderPc, answer, work, server,
                     senderSent>>
  BY DEF Sender!Accept, SenderIInv, Sender!TypeOK, Sender!SenderAssumption
<1>2. Sender!TypeOK'
  <2>1. flags \in Nat /\ accepted' \in Nat /\ accepted <= accepted'
    BY <1>1 DEF SenderIInv, Sender!TypeOK, Sender!SenderAssumption
  <2>2. /\ conn \in [Fds -> 0 .. accepted'] /\ senderSent \in [Threads -> 0 .. accepted']
        /\ sender \in [Threads -> {Sender!NoSender} \union
                         [fd : Fds, flag : 1 .. flags, session : 1 .. accepted']]
    BY <2>1, SenderNumbersGrow DEF SenderIInv
  <2> QED
    BY <1>1, <2>1, <2>2 DEF SenderIInv, Sender!TypeOK
<1>3. SenderCount'
  <2>1. entry[f] = 0
    BY <1>1 DEF SenderIInv, SenderEntries
  <2>2. Flagless' = Flagless \union {f} /\ f \notin Flagless
    BY <1>1, <2>1 DEF Flagless, SenderIInv, Sender!TypeOK
  <2>3. IsFiniteSet(Flagless') /\ Cardinality(Flagless') = Cardinality(Flagless) + 1
    BY <2>2, FS_AddElement DEF SenderIInv, SenderCount
  <2>4. Cardinality(Flagless) \in Nat
    BY FS_CardinalityType DEF SenderIInv, SenderCount
  <2> QED
    BY <1>1, <2>3, <2>4 DEF SenderIInv, SenderCount, Sender!TypeOK,
       Sender!SenderAssumption
<1>4. SenderEntries' /\ SenderKnows'
  BY <1>1 DEF SenderIInv, SenderEntries, SenderKnows, Sender!TypeOK,
     Sender!NoSender
<1>5. SenderQueue' /\ Sender!FramesReachTheirSession' /\ Sender!OkMeansSent'
  BY <1>1 DEF SenderIInv, SenderQueue, Sender!FramesReachTheirSession,
     Sender!OkMeansSent
<1> QED
  BY <1>2, <1>3, <1>4, <1>5 DEF SenderIInv

(* A session goes. *)
LEMMA SenderCloseKeepsIInv ==
    ASSUME Sender!SenderAssumption, SenderIInv, NEW f \in Fds, Sender!Close(f)
    PROVE  SenderIInv'
<1> USE DEF Sender!Absent
<1>1. /\ conn[f] # 0
      /\ closed' = IF entry[f] # 0 THEN closed \union {entry[f]} ELSE closed
      /\ entry' = [entry EXCEPT ![f] = 0] /\ conn' = [conn EXCEPT ![f] = 0]
      /\ UNCHANGED <<accepted, flags, sender, senderPc, answer, work, server,
                     senderSent>>
  BY DEF Sender!Close
<1>2. Sender!TypeOK'
  <2>1. entry[f] # 0 => entry[f] \in 1 .. flags
    BY DEF SenderIInv, Sender!TypeOK, Sender!SenderAssumption
  <2>2. closed' \subseteq 1 .. flags
    BY <1>1, <2>1 DEF SenderIInv, Sender!TypeOK
  <2>3. 0 \in 0 .. flags /\ 0 \in 0 .. accepted
    BY DEF SenderIInv, Sender!TypeOK, Sender!SenderAssumption
  <2> QED
    BY <1>1, <2>2, <2>3 DEF SenderIInv, Sender!TypeOK
<1>3. SenderCount'
  <2>1. Flagless' = Flagless \ {f}
    BY <1>1 DEF Flagless, SenderIInv, Sender!TypeOK
  <2>2. IsFiniteSet(Flagless') /\ Cardinality(Flagless') <= Cardinality(Flagless)
    BY <2>1, FS_Subset DEF SenderIInv, SenderCount
  <2>3. Cardinality(Flagless) \in Nat /\ Cardinality(Flagless') \in Nat
    BY <2>2, FS_CardinalityType DEF SenderIInv, SenderCount
  <2> QED
    BY <1>1, <2>2, <2>3 DEF SenderIInv, SenderCount, Sender!TypeOK,
       Sender!SenderAssumption
<1>4. SenderEntries'
  BY <1>1 DEF SenderIInv, SenderEntries, Sender!TypeOK
<1>5. SenderKnows'
  BY <1>1 DEF SenderIInv, SenderEntries, SenderKnows, Sender!TypeOK,
     Sender!NoSender
<1>6. SenderQueue' /\ Sender!FramesReachTheirSession' /\ Sender!OkMeansSent'
  BY <1>1 DEF SenderIInv, SenderQueue, Sender!FramesReachTheirSession,
     Sender!OkMeansSent
<1> QED
  BY <1>2, <1>3, <1>4, <1>5, <1>6 DEF SenderIInv

(* A handler makes a sender, with a flag if the session has none. *)
LEMMA SenderCreateKeepsIInv ==
    ASSUME Sender!SenderAssumption, SenderIInv, NEW f \in Fds, NEW t \in Threads,
           Sender!CreateDetachedSender(f, t)
    PROVE  SenderIInv'
<1> DEFINE new == IF entry[f] = 0 THEN flags + 1 ELSE entry[f]
<1> USE DEF Sender!Absent
<1>1. /\ conn[f] # 0 /\ senderPc[t] = "idle"
      /\ flags' = IF entry[f] = 0 THEN flags + 1 ELSE flags
      /\ entry' = [entry EXCEPT ![f] = new]
      /\ sender' = [sender EXCEPT ![t] = [fd |-> f, flag |-> new, session |-> conn[f]]]
      /\ senderSent' = [senderSent EXCEPT ![t] = 0]
      /\ answer' = [answer EXCEPT ![t] = "none"]
      /\ UNCHANGED <<conn, accepted, closed, senderPc, work, server>>
  BY DEF Sender!CreateDetachedSender, SenderIInv, Sender!TypeOK
<1>2. conn[f] \in 1 .. accepted /\ entry[f] \in 0 .. flags /\ flags \in Nat
      /\ accepted \in Nat /\ accepted <= MaxSessions /\ MaxSessions \in Nat
      /\ closed \subseteq 1 .. flags
  BY <1>1 DEF SenderIInv, Sender!TypeOK, Sender!SenderAssumption
<1>3. flags' \in Nat /\ flags <= flags' /\ new \in 1 .. flags' /\ new \notin closed
  <2>1. CASE entry[f] = 0
    BY <1>1, <1>2, <2>1
  <2>2. CASE entry[f] # 0
    BY <1>1, <1>2, <2>2 DEF SenderIInv, SenderEntries
  <2> QED
    BY <2>1, <2>2
<1>4. SenderCount'
  <2>1. CASE entry[f] = 0
    <3>1. f \in Flagless /\ Flagless' = Flagless \ {f}
      BY <1>1, <1>2, <1>3, <2>1 DEF Flagless, SenderIInv, Sender!TypeOK
    <3>2. IsFiniteSet(Flagless') /\ Cardinality(Flagless') = Cardinality(Flagless) - 1
      BY <3>1, FS_RemoveElement DEF SenderIInv, SenderCount
    <3>3. Cardinality(Flagless) \in Nat /\ Cardinality(Flagless') \in Nat
      BY <3>2, FS_CardinalityType DEF SenderIInv, SenderCount
    <3> QED
      BY <1>1, <1>2, <2>1, <3>2, <3>3 DEF SenderIInv, SenderCount
  <2>2. CASE entry[f] # 0
    <3>1. Flagless' = Flagless
      BY <1>1, <1>2, <2>2 DEF Flagless, SenderIInv, Sender!TypeOK
    <3> QED
      BY <1>1, <2>2, <3>1 DEF SenderIInv, SenderCount
  <2> QED
    BY <2>1, <2>2
<1>5. Sender!TypeOK'
  <2>1. Cardinality(Flagless') \in Nat
    BY <1>4, FS_CardinalityType DEF SenderCount
  <2>2. flags' \in 0 .. MaxSessions
    BY <1>1, <1>2, <1>3, <1>4, <2>1 DEF SenderCount
  <2>3. /\ conn \in [Fds -> 0 .. accepted] /\ senderSent \in [Threads -> 0 .. accepted]
        /\ entry \in [Fds -> 0 .. flags'] /\ closed \subseteq 1 .. flags'
        /\ sender \in [Threads -> {Sender!NoSender} \union
                         [fd : Fds, flag : 1 .. flags', session : 1 .. accepted]]
    BY <1>2, <1>3, SenderNumbersGrow DEF SenderIInv
  <2>4. 0 \in 0 .. accepted /\ new \in 0 .. flags'
    BY <1>2, <1>3
  <2>5. [fd |-> f, flag |-> new, session |-> conn[f]]
           \in [fd : Fds, flag : 1 .. flags', session : 1 .. accepted]
    BY <1>2, <1>3
  <2>6. /\ entry' \in [Fds -> 0 .. flags'] /\ senderSent' \in [Threads -> 0 .. accepted]
        /\ answer' \in [Threads -> {"none", "ok", "error"}]
        /\ sender' \in [Threads -> {Sender!NoSender} \union
                         [fd : Fds, flag : 1 .. flags', session : 1 .. accepted]]
    <3> HIDE DEF new
    <3> QED
      BY <1>1, <2>3, <2>4, <2>5 DEF SenderIInv, Sender!TypeOK
  <2> QED
    BY <1>1, <2>2, <2>3, <2>6 DEF SenderIInv, Sender!TypeOK
<1>6. SenderEntries'
  <2>1. \A g \in Fds : g # f => entry[g] # new \/ entry[g] = 0
    BY <1>2 DEF SenderIInv, SenderEntries, Sender!TypeOK
  <2>2. new # 0
    BY <1>2, <1>3
  <2> HIDE DEF new
  <2> QED
    BY <1>1, <1>2, <1>3, <2>1, <2>2 DEF SenderIInv, SenderEntries, Sender!TypeOK
<1>7. SenderKnows'
  <2>1. \A u \in Threads : u # t /\ sender[u] # Sender!NoSender =>
           sender[u].flag # 0 /\ sender[u].fd \in Fds
    BY DEF SenderIInv, Sender!TypeOK
  <2>2. entry'[f] = new
    BY <1>1 DEF SenderIInv, Sender!TypeOK
  <2>3. sender'[t] = [fd |-> f, flag |-> new, session |-> conn[f]]
    BY <1>1 DEF SenderIInv, Sender!TypeOK
  <2>4. \A g \in Fds : entry[g] # 0 => entry'[g] = entry[g]
    BY <1>1 DEF SenderIInv, Sender!TypeOK
  <2>5. \A u \in Threads : u # t => sender'[u] = sender[u]
    BY <1>1 DEF SenderIInv, Sender!TypeOK
  <2> HIDE DEF new
  <2>6. ASSUME NEW u \in Threads, sender'[u] # Sender!NoSender
        PROVE  IF sender'[u].flag \in closed
               THEN conn[sender'[u].fd] # sender'[u].session
               ELSE /\ conn[sender'[u].fd] = sender'[u].session
                    /\ entry'[sender'[u].fd] = sender'[u].flag
    <3>1. CASE u = t
      BY <1>3, <2>2, <2>3, <3>1
    <3>2. CASE u # t
      BY <2>1, <2>4, <2>5, <2>6, <3>2 DEF SenderIInv, SenderKnows
    <3> QED
      BY <3>1, <3>2
  <2>7. Sender!NoSender' = Sender!NoSender
    BY DEF Sender!NoSender
  <2> QED
    BY <1>1, <2>6, <2>7 DEF SenderKnows
<1>8. SenderQueue'
  <2>1. sender'[t] # Sender!NoSender
    BY <1>1, <1>2, <1>3 DEF SenderIInv, Sender!TypeOK, Sender!NoSender
  <2>2. \A u \in Threads : u # t => sender'[u] = sender[u] /\ answer'[u] = answer[u]
    BY <1>1 DEF SenderIInv, Sender!TypeOK
  <2>3. answer'[t] = "none" /\ senderPc' = senderPc /\ work' = work
    BY <1>1 DEF SenderIInv, Sender!TypeOK
  <2>4. \A k \in 1 .. Len(work) : work[k] # "stop" => work[k] \in Threads
    BY DEF SenderIInv, Sender!TypeOK
  <2>5. Sender!NoSender' = Sender!NoSender
    BY DEF Sender!NoSender
  <2> QED
    BY <2>1, <2>2, <2>3, <2>4, <2>5 DEF SenderIInv, SenderQueue
<1>9. Sender!FramesReachTheirSession' /\ Sender!OkMeansSent'
  <2> HIDE DEF new
  <2> QED
    BY <1>1 DEF SenderIInv, Sender!FramesReachTheirSession, Sender!OkMeansSent,
       Sender!TypeOK
<1> QED
  BY <1>4, <1>5, <1>6, <1>7, <1>8, <1>9 DEF SenderIInv

(* The work of a send(). *)
LEMMA SenderEnqueueKeepsIInv ==
    ASSUME Sender!SenderAssumption, SenderIInv, NEW t \in Threads, Sender!Enqueue(t)
    PROVE  SenderIInv'
<1> DEFINE open == sender[t].flag \notin closed
<1> USE DEF Sender!Absent
<1>1. /\ work # <<>> /\ Head(work) = t
      /\ \/ /\ open /\ conn[sender[t].fd] # 0
            /\ senderSent' = [senderSent EXCEPT ![t] = conn[sender[t].fd]]
            /\ answer' = [answer EXCEPT ![t] = "ok"]
         \/ /\ senderSent' = [senderSent EXCEPT ![t] = 0]
            /\ answer' = [answer EXCEPT ![t] = "error"]
      /\ work' = Tail(work)
      /\ UNCHANGED <<conn, accepted, entry, flags, closed, sender, senderPc, server>>
  BY DEF Sender!Enqueue
<1>2. work \in Seq(Threads \union {"stop"}) /\ work[1] = t /\ t # "stop"
      /\ Len(work) \in Nat /\ 1 \in 1 .. Len(work)
  BY <1>1 DEF SenderIInv, Sender!TypeOK, Sender!SenderAssumption
<1>3. senderPc[t] = "waiting" /\ sender[t] # Sender!NoSender
  BY <1>2 DEF SenderIInv, SenderQueue
<1>4. sender[t].fd \in Fds /\ sender[t].session # 0
      /\ (open => conn[sender[t].fd] = sender[t].session)
  BY <1>3 DEF SenderIInv, SenderKnows, Sender!TypeOK
<1>5. Sender!TypeOK'
  <2>1. /\ 0 \in 0 .. accepted /\ conn[sender[t].fd] \in 0 .. accepted
    BY <1>4 DEF SenderIInv, Sender!TypeOK, Sender!SenderAssumption
  <2>2. work' \in Seq(Threads \union {"stop"})
    BY <1>1, <1>2
  <2>3. /\ \E n \in 0 .. accepted : senderSent' = [senderSent EXCEPT ![t] = n]
        /\ \E a \in {"ok", "error"} : answer' = [answer EXCEPT ![t] = a]
    BY <1>1, <2>1
  <2>4. /\ senderSent' \in [Threads -> 0 .. accepted]
        /\ answer' \in [Threads -> {"none", "ok", "error"}]
    BY <2>3 DEF SenderIInv, Sender!TypeOK
  <2> QED
    BY <1>1, <2>2, <2>4 DEF SenderIInv, Sender!TypeOK
<1>6. SenderCount' /\ SenderEntries' /\ SenderKnows'
  BY <1>1 DEF SenderIInv, SenderCount, SenderEntries, SenderKnows, Flagless,
     Sender!NoSender
<1>7. SenderQueue'
  <2>1. Len(work') = Len(work) - 1
        /\ \A k \in 1 .. Len(work') : work'[k] = work[k + 1] /\ k + 1 \in 1 .. Len(work)
    BY <1>1, <1>2
  <2>2. \A k \in 1 .. Len(work') : work'[k] # t
    BY <1>2, <2>1 DEF SenderIInv, SenderQueue
  <2>3. \A u \in Threads : u # t => answer'[u] = answer[u]
    <3>1. \E a \in {"ok", "error"} : answer' = [answer EXCEPT ![t] = a]
      BY <1>1
    <3> QED
      BY <3>1 DEF SenderIInv, Sender!TypeOK
  <2>4. \A k \in 1 .. Len(work') : work'[k] # "stop" =>
           senderPc[work'[k]] = "waiting" /\ answer'[work'[k]] = "none"
    <3>1. \A k \in 1 .. Len(work') : work'[k] # "stop" => work'[k] \in Threads
      BY <1>2, <2>1
    <3> QED
      BY <2>1, <2>2, <2>3, <3>1 DEF SenderIInv, SenderQueue
  <2>5. \A k, l \in 1 .. Len(work') : work'[k] # "stop" /\ work'[k] = work'[l] => k = l
    <3> SUFFICES ASSUME NEW k \in 1 .. Len(work'), NEW l \in 1 .. Len(work'),
                        work'[k] # "stop", work'[k] = work'[l]
                 PROVE  k = l
      OBVIOUS
    <3>1. k + 1 = l + 1
      BY <2>1 DEF SenderIInv, SenderQueue
    <3> QED
      BY <3>1, <1>2, <2>1
  <2>6. \A u \in Threads : senderPc[u] = "open" => answer'[u] = "none"
    BY <1>3, <2>3 DEF SenderIInv, SenderQueue
  <2> QED
    BY <1>1, <2>4, <2>5, <2>6 DEF SenderIInv, SenderQueue, Sender!NoSender
<1>8. Sender!FramesReachTheirSession' /\ Sender!OkMeansSent'
  BY <1>1, <1>4 DEF SenderIInv, Sender!FramesReachTheirSession,
     Sender!OkMeansSent,
     Sender!TypeOK
<1> QED
  BY <1>5, <1>6, <1>7, <1>8 DEF SenderIInv

(* The server is stopped. *)
LEMMA SenderShutdownKeepsIInv ==
    ASSUME Sender!SenderAssumption, SenderIInv, Sender!Stop \/ Sender!Shutdown
    PROVE  SenderIInv'
<1>1. /\ work' = Append(work, "stop") \/ work' = <<>>
      /\ server' \in {"running", "stopping", "stopped"}
      /\ UNCHANGED <<conn, accepted, entry, flags, closed, sender, senderPc, answer,
                     senderSent>>
  BY DEF Sender!Stop, Sender!Shutdown
<1>2. work \in Seq(Threads \union {"stop"})
  BY DEF SenderIInv, Sender!TypeOK
<1>3. Sender!TypeOK'
  <2>1. work' \in Seq(Threads \union {"stop"})
    <3>1. /\ Append(work, "stop") \in Seq(Threads \union {"stop"})
          /\ <<>> \in Seq(Threads \union {"stop"})
      BY <1>2
    <3> QED
      BY <1>1, <3>1
  <2> QED
    BY <1>1, <2>1 DEF SenderIInv, Sender!TypeOK, Sender!NoSender
<1>4. SenderCount' /\ SenderEntries' /\ SenderKnows'
      /\ Sender!FramesReachTheirSession' /\ Sender!OkMeansSent'
  BY <1>1 DEF SenderIInv, SenderCount, SenderEntries, SenderKnows, Flagless,
     Sender!NoSender, Sender!FramesReachTheirSession, Sender!OkMeansSent
<1>5. \A k \in 1 .. Len(work') : work'[k] # "stop" =>
         k \in 1 .. Len(work) /\ work'[k] = work[k]
  BY <1>1, <1>2
<1>6. SenderQueue'
  BY <1>1, <1>5 DEF SenderIInv, SenderQueue, Sender!NoSender
<1> QED
  BY <1>3, <1>4, <1>6 DEF SenderIInv

(* The steps of send(). *)
LEMMA SenderSendKeepsIInv ==
    ASSUME Sender!SenderAssumption, SenderIInv, NEW t \in Threads,
           \/ Sender!Check(t) \/ Sender!Refuse(t) \/ Sender!QueueWork(t)
           \/ Sender!QueueWorkFails(t) \/ Sender!Return(t)
    PROVE  SenderIInv'
<1> USE DEF Sender!Absent
<1>1. UNCHANGED <<conn, accepted, entry, flags, closed, sender, server>>
  BY DEF Sender!Check, Sender!Refuse, Sender!QueueWork, Sender!QueueWorkFails,
     Sender!Return
<1>2. work \in Seq(Threads \union {"stop"}) /\ t # "stop"
  BY DEF SenderIInv, Sender!TypeOK, Sender!SenderAssumption
<1>3. SenderCount' /\ SenderEntries' /\ SenderKnows'
  BY <1>1 DEF SenderIInv, SenderCount, SenderEntries, SenderKnows, Flagless,
     Sender!NoSender
<1>4. Sender!TypeOK'
  <2>1. 0 \in 0 .. accepted /\ Append(work, t) \in Seq(Threads \union {"stop"})
    BY <1>2 DEF SenderIInv, Sender!TypeOK, Sender!SenderAssumption
  <2>2. work' \in Seq(Threads \union {"stop"})
    BY <1>2, <2>1 DEF Sender!Check, Sender!Refuse, Sender!QueueWork,
       Sender!QueueWorkFails, Sender!Return
  <2>3. senderPc' \in [Threads -> {"idle", "open", "waiting"}]
    BY DEF SenderIInv, Sender!TypeOK, Sender!Check, Sender!Refuse,
       Sender!QueueWork, Sender!QueueWorkFails, Sender!Return
  <2>4. /\ answer' \in [Threads -> {"none", "ok", "error"}]
        /\ senderSent' \in [Threads -> 0 .. accepted]
    <3>1. \/ answer' = answer /\ senderSent' = senderSent
          \/ /\ answer' = [answer EXCEPT ![t] = "none"]
             /\ senderSent' = [senderSent EXCEPT ![t] = 0]
          \/ /\ answer' = [answer EXCEPT ![t] = "error"]
             /\ senderSent' \in {senderSent, [senderSent EXCEPT ![t] = 0]}
      BY DEF Sender!Check, Sender!Refuse, Sender!QueueWork,
         Sender!QueueWorkFails, Sender!Return
    <3> QED
      BY <2>1, <3>1, ZenonT(60) DEF SenderIInv, Sender!TypeOK
  <2> QED
    BY <1>1, <2>2, <2>3, <2>4 DEF SenderIInv, Sender!TypeOK, Sender!NoSender
<1>5. CASE Sender!Check(t)
  <2>1. /\ senderPc[t] = "idle" /\ sender[t] # Sender!NoSender
        /\ senderPc' = [senderPc EXCEPT ![t] = "open"]
        /\ answer' = [answer EXCEPT ![t] = "none"]
        /\ senderSent' = [senderSent EXCEPT ![t] = 0] /\ work' = work
    BY <1>5 DEF Sender!Check
  <2>2. SenderQueue'
    BY <1>1, <1>2, <2>1 DEF SenderIInv, SenderQueue, Sender!NoSender,
       Sender!TypeOK
  <2>3. Sender!FramesReachTheirSession' /\ Sender!OkMeansSent'
    BY <1>1, <2>1 DEF SenderIInv, Sender!FramesReachTheirSession,
       Sender!OkMeansSent,
       Sender!TypeOK
  <2> QED
    BY <1>3, <1>4, <2>2, <2>3 DEF SenderIInv
<1>6. CASE Sender!QueueWork(t)
  <2>1. /\ senderPc[t] = "open" /\ work' = Append(work, t)
        /\ senderPc' = [senderPc EXCEPT ![t] = "waiting"]
        /\ answer' = answer /\ senderSent' = senderSent
    BY <1>6 DEF Sender!QueueWork
  <2>2. answer[t] = "none" /\ \A k \in 1 .. Len(work) : work[k] # t
    BY <1>2, <2>1 DEF SenderIInv, SenderQueue
  <2>3. /\ Len(work) \in Nat /\ Len(work') = Len(work) + 1
        /\ work'[Len(work) + 1] = t /\ \A k \in 1 .. Len(work) : work'[k] = work[k]
    BY <1>2, <2>1
  <2>4. senderPc'[t] = "waiting" /\ \A u : u # t => senderPc'[u] = senderPc[u]
    BY <2>1 DEF SenderIInv, Sender!TypeOK
  <2>5. \A k \in 1 .. Len(work') : k = Len(work) + 1 \/ k \in 1 .. Len(work)
    BY <2>3
  <2>6. \A k \in 1 .. Len(work') : work'[k] # "stop" =>
           senderPc'[work'[k]] = "waiting" /\ answer'[work'[k]] = "none"
    BY <2>1, <2>2, <2>3, <2>4, <2>5 DEF SenderIInv, SenderQueue
  <2>7. \A k, l \in 1 .. Len(work') : work'[k] # "stop" /\ work'[k] = work'[l] => k = l
    BY <2>2, <2>3, <2>5 DEF SenderIInv, SenderQueue
  <2>8. SenderQueue'
    BY <1>1, <2>1, <2>4, <2>6, <2>7 DEF SenderIInv, SenderQueue, Sender!NoSender
  <2>9. Sender!FramesReachTheirSession' /\ Sender!OkMeansSent'
    BY <1>1, <2>1 DEF SenderIInv, Sender!FramesReachTheirSession,
       Sender!OkMeansSent
  <2> QED
    BY <1>3, <1>4, <2>8, <2>9 DEF SenderIInv
<1>7. CASE Sender!Return(t)
  <2>1. /\ answer[t] # "none" /\ senderPc' = [senderPc EXCEPT ![t] = "idle"]
        /\ answer' = answer /\ senderSent' = senderSent /\ work' = work
    BY <1>7 DEF Sender!Return
  <2>2. SenderQueue'
    BY <1>1, <2>1 DEF SenderIInv, SenderQueue, Sender!NoSender, Sender!TypeOK
  <2>3. Sender!FramesReachTheirSession' /\ Sender!OkMeansSent'
    BY <1>1, <2>1 DEF SenderIInv, Sender!FramesReachTheirSession,
       Sender!OkMeansSent
  <2> QED
    BY <1>3, <1>4, <2>2, <2>3 DEF SenderIInv
<1>8. CASE Sender!Refuse(t)
  <2>1. /\ senderPc[t] = "idle" /\ senderPc' = senderPc /\ work' = work
        /\ answer' = [answer EXCEPT ![t] = "error"]
        /\ senderSent' = [senderSent EXCEPT ![t] = 0]
    BY <1>8 DEF Sender!Refuse
  <2>2. SenderQueue'
    <3>1. \A k \in 1 .. Len(work) : work[k] # t
      BY <1>2, <2>1 DEF SenderIInv, SenderQueue
    <3>2. \A u : u # t => answer'[u] = answer[u]
      BY <2>1 DEF SenderIInv, Sender!TypeOK
    <3> QED
      BY <1>1, <2>1, <3>1, <3>2 DEF SenderIInv, SenderQueue, Sender!NoSender
  <2>3. Sender!FramesReachTheirSession' /\ Sender!OkMeansSent'
    BY <1>1, <2>1 DEF SenderIInv, Sender!FramesReachTheirSession,
       Sender!OkMeansSent, Sender!TypeOK
  <2> QED
    BY <1>3, <1>4, <2>2, <2>3 DEF SenderIInv
<1>9. CASE Sender!QueueWorkFails(t)
  <2>1. /\ senderPc[t] = "open" /\ senderPc' = [senderPc EXCEPT ![t] = "idle"]
        /\ answer' = [answer EXCEPT ![t] = "error"]
        /\ senderSent' = senderSent /\ work' = work
    BY <1>9 DEF Sender!QueueWorkFails
  <2>2. SenderQueue'
    BY <1>1, <1>2, <2>1 DEF SenderIInv, SenderQueue, Sender!NoSender,
       Sender!TypeOK
  <2>3. answer[t] = "none"
    BY <2>1 DEF SenderIInv, SenderQueue
  <2>4. Sender!FramesReachTheirSession' /\ Sender!OkMeansSent'
    BY <1>1, <2>1, <2>3 DEF SenderIInv, Sender!FramesReachTheirSession,
       Sender!OkMeansSent, Sender!TypeOK
  <2> QED
    BY <1>3, <1>4, <2>2, <2>4 DEF SenderIInv
<1> QED
  BY <1>5, <1>6, <1>7, <1>8, <1>9

LEMMA SenderStepKeepsIInv ==
    ASSUME Sender!SenderAssumption, SenderIInv, [Sender!Next]_senderVars
    PROVE  SenderIInv'
<1>1. CASE \E f \in Fds : Sender!Accept(f)
  BY <1>1, SenderAcceptKeepsIInv
<1>2. CASE \E f \in Fds : Sender!Close(f)
  BY <1>2, SenderCloseKeepsIInv
<1>3. CASE \E f \in Fds, t \in Threads : Sender!CreateDetachedSender(f, t)
  BY <1>3, SenderCreateKeepsIInv
<1>4. CASE \E t \in Threads : Sender!Enqueue(t)
  BY <1>4, SenderEnqueueKeepsIInv
<1>5. CASE \E t \in Threads :
              \/ Sender!Check(t) \/ Sender!Refuse(t) \/ Sender!QueueWork(t)
              \/ Sender!QueueWorkFails(t) \/ Sender!Return(t)
  BY <1>5, SenderSendKeepsIInv
<1>6. CASE Sender!Stop \/ Sender!Shutdown
  BY <1>6, SenderShutdownKeepsIInv
<1>7. CASE UNCHANGED senderVars
  BY <1>7 DEF senderVars, SenderIInv, Sender!TypeOK, SenderCount, SenderEntries,
     SenderKnows, SenderQueue, Flagless, Sender!NoSender,
     Sender!FramesReachTheirSession, Sender!OkMeansSent
<1> QED
  BY <1>1, <1>2, <1>3, <1>4, <1>5, <1>6, <1>7 DEF Sender!Next

LEMMA SenderIInvIsSafe ==
    ASSUME SenderIInv
    PROVE  /\ Sender!TypeOK /\ Sender!FramesReachTheirSession
           /\ Sender!FlagTellsTheTruth /\ Sender!OkMeansSent
BY DEF SenderIInv, SenderKnows, Sender!FlagTellsTheTruth

LEMMA SenderInvariance ==
    ASSUME Sender!SenderAssumption PROVE Sender!Spec => []SenderIInv
<1>1. Sender!Init => SenderIInv
  BY SenderInitIInv
<1>2. SenderIInv /\ [Sender!Next]_Sender!vars => SenderIInv'
  BY SenderStepKeepsIInv DEF Sender!vars, senderVars
<1> QED
  BY <1>1, <1>2, PTL DEF Sender!Spec

-----------------------------------------------------------------------------
(* One request to the server. Unless a send has failed the first bytes go  *)
(* out when the strings are dropped, and not before; unless a call was     *)
(* refused the strings are those of all that C holds.                      *)

(* How far the response is. *)
RequestSentOnce ==
    /\ requestPc \in {"render", "rerender"} => phase = "response"
    /\ ~ failed =>
        /\ requestPc \notin {"failed", "rerender"}
        /\ requestSent = 0 \/ requestSent = 1
        /\ phase = "request" /\ requestPc # "done" => requestSent = 0 /\ kept = {}
        /\ phase = "response" => (kept = {} <=> requestSent = 1)
        /\ requestPc # "done" => ended = 0
        /\ requestPc = "done" => requestSent = 1 /\ ended = 1 /\ kept = {}

(* The handler that has failed too early is answered with an error. *)
RequestRefused ==
    refused /\ ~ failed =>
        \/ requestPc = "error" /\ phase = "request"
        \/ requestPc = "render" /\ status = Request!Error /\ requestSent = 0
        \/ /\ requestPc \in {"complete", "done"}
           /\ code = "error" /\ requestSent = 1

(* The strings of what C holds are kept until the first send. *)
RequestAlive ==
    ~ rejected =>
        /\ ~ dangling
        /\ phase = "request" => held = {} /\ status = Request!Fresh
        /\ kept # {} => (\A h \in held : h[1] \in kept) /\ status \in kept
        /\ phase = "response" /\ kept = {} => requestSent > 0

RequestIInv ==
    /\ Request!TypeOK /\ RequestSentOnce /\ RequestRefused /\ RequestAlive

LEMMA RequestInitIInv ==
    ASSUME Request!ConnectionAssumption, Request!Init PROVE RequestIInv
<1>1. Request!TypeOK
  <2>1. calls \in 0 .. MaxCalls /\ status \in Request!Fresh .. Request!Error
    BY DEF Request!ConnectionAssumption, Request!Init, Request!Fresh,
       Request!Error
  <2> QED
    BY <2>1 DEF Request!Init, Request!TypeOK
<1>2. RequestSentOnce /\ RequestRefused /\ RequestAlive
  BY DEF Request!Init, RequestSentOnce, RequestRefused, RequestAlive,
     Request!Fresh
<1> QED
  BY <1>1, <1>2 DEF RequestIInv

(* What a call of initiate_response() leaves.                              *)
LEMMA InitiateIsSafe ==
    ASSUME Request!ConnectionAssumption, RequestIInv, phase = "request",
           NEW call \in 1 .. Request!Error, NEW n \in 0 .. MaxHeaders,
           Request!Initiate(call, n)
    PROVE  /\ status' = call /\ kept' = {call} /\ phase' = "response"
           /\ held' \subseteq (1 .. Request!Error) \X (1 .. MaxHeaders)
           /\ ~ rejected => \A h \in held' : h[1] \in kept'
<1>1. held \subseteq (1 .. Request!Error) \X (1 .. MaxHeaders)
  BY DEF RequestIInv, Request!TypeOK
<1>2. 1 .. n \subseteq 1 .. MaxHeaders
  BY DEF Request!ConnectionAssumption
<1>3. held' = held \union {<<call, i>> : i \in 1 .. n}
  BY DEF Request!Initiate
<1>4. held' \subseteq (1 .. Request!Error) \X (1 .. MaxHeaders)
  BY <1>1, <1>2, <1>3
<1>5. ~ rejected => \A h \in held' : h[1] = call
  BY <1>3 DEF RequestIInv, RequestAlive
<1> QED
  BY <1>4, <1>5 DEF Request!Initiate

(* The strings of what is sent are there: the first bytes go out before    *)
(* they are dropped.                                                       *)
LEMMA SendIsSafe ==
    ASSUME RequestIInv, Request!SendHeaders,
           kept # {} \/ phase = "request" \/ requestSent = 0
    PROVE  /\ requestSent' = requestSent + 1 /\ requestSent' \in Nat
           /\ code' = IF status = Request!Error THEN "error" ELSE "handler"
           /\ dangling' \in BOOLEAN
           /\ ~ rejected => ~ dangling'
<1>1. requestSent' = requestSent + 1 /\ requestSent' \in Nat
  BY DEF RequestIInv, Request!TypeOK, Request!SendHeaders
<1>2. ASSUME ~ rejected PROVE ~ dangling'
  <2>1. ~ dangling
    BY <1>2 DEF RequestIInv, RequestAlive
  <2>2. (\A h \in held : h[1] \in kept) /\ status \in kept \union {Request!Fresh}
    BY <1>2 DEF RequestIInv, RequestAlive, Request!TypeOK
  <2>3. {h[1] : h \in held} \union {status} \subseteq kept \union {Request!Fresh}
    BY <2>2
  <2> QED
    BY <2>1, <2>3 DEF Request!SendHeaders
<1> QED
  BY <1>1, <1>2 DEF Request!SendHeaders

(* A chunk of an initiated response.                                       *)
LEMMA ChunkIsSafe ==
    ASSUME RequestIInv, phase = "response", Request!WriteChunk
    PROVE  /\ requestSent' \in Nat
           /\ kept' \in {kept, {}}
           /\ code' \in {"none", "handler", "error"}
           /\ dangling' \in BOOLEAN
           /\ failed' \in BOOLEAN
           /\ ~ rejected => ~ dangling' /\ (kept' = {} => requestSent' > 0)
           /\ ~ failed' =>
                /\ ~ failed /\ requestSent' = 1 /\ kept' = {}
                /\ requestSent # 0 => code' = code
                /\ requestSent = 0 /\ status = Request!Error => code' = "error"
<1>1. \/ kept' = {} /\ (failed' <=> failed) /\ Request!SendFirst
      \/ kept' = kept /\ failed'
  BY DEF Request!WriteChunk
<1>2. failed' \in BOOLEAN
  BY DEF Request!WriteChunk, RequestIInv, Request!TypeOK
<1>3. ~ rejected /\ kept = {} => requestSent > 0
  BY DEF RequestIInv, RequestAlive
<1>4. ~ failed => (requestSent = 0 \/ requestSent = 1)
  BY DEF RequestIInv, RequestSentOnce
<1>5. CASE Request!SendHeaders /\ requestSent = 0
  <2>1. /\ requestSent' = 1
        /\ code' = IF status = Request!Error THEN "error" ELSE "handler"
        /\ dangling' \in BOOLEAN
        /\ ~ rejected => ~ dangling'
    BY <1>5, SendIsSafe
  <2> QED
    BY <1>1, <1>2, <1>5, <2>1
<1>6. CASE Request!SendNothing
  <2>1. /\ requestSent' = requestSent /\ requestSent \in Nat
        /\ code' = code /\ code \in {"none", "handler", "error"}
    BY <1>6 DEF Request!SendNothing, RequestIInv, Request!TypeOK
  <2>2. /\ dangling' \in BOOLEAN
        /\ ~ rejected => ~ dangling'
    BY <1>6 DEF Request!SendNothing, RequestIInv, Request!TypeOK, RequestAlive
  <2>3. Request!SendFirst => requestSent # 0
    BY <2>1 DEF Request!SendFirst, Request!SendHeaders
  <2> QED
    BY <1>1, <1>2, <1>3, <1>4, <2>1, <2>2, <2>3
<1> QED
  BY <1>5, <1>6 DEF Request!WriteChunk, Request!SendFirst

(* What the handler does.                                                  *)
LEMMA RequestHandlerKeepsIInv ==
    ASSUME Request!ConnectionAssumption, RequestIInv,
           \/ Request!InitiateResponse \/ Request!InitiateFails
           \/ Request!Write \/ Request!HandlerReturns
    PROVE  RequestIInv'
<1> USE DEF RequestIInv, RequestSentOnce, RequestRefused, RequestAlive
<1>1. CASE Request!InitiateResponse
  <2>1. calls' \in 1 .. Request!Error /\ calls' \in 0 .. MaxCalls
    BY <1>1 DEF Request!InitiateResponse, Request!ConnectionAssumption,
                Request!TypeOK, Request!Error
  <2>2. PICK n \in 0 .. MaxHeaders : Request!Initiate(calls', n)
    BY <1>1 DEF Request!InitiateResponse
  <2>3. /\ status' = calls' /\ kept' = {calls'} /\ phase' = "response"
        /\ held' \subseteq (1 .. Request!Error) \X (1 .. MaxHeaders)
        /\ ~ rejected => \A h \in held' : h[1] \in kept'
    BY <1>1, <2>1, <2>2, InitiateIsSafe DEF Request!InitiateResponse
  <2>4. status' \in Request!Fresh .. Request!Error
    BY <2>1, <2>3 DEF Request!Fresh, Request!Error, Request!ConnectionAssumption
  <2>5. Request!TypeOK'
    BY <1>1, <2>1, <2>3, <2>4 DEF Request!InitiateResponse, Request!TypeOK
  <2>6. RequestSentOnce' /\ RequestRefused' /\ RequestAlive'
    BY <1>1, <2>3 DEF Request!InitiateResponse, Request!TypeOK
  <2> QED
    BY <2>5, <2>6
<1>2. CASE Request!InitiateFails
  <2>1. /\ calls' \in 1 .. Request!Error /\ calls' \in 0 .. MaxCalls
        /\ status' \in Request!Fresh .. Request!Error
    BY <1>2 DEF Request!InitiateFails, Request!ConnectionAssumption,
                Request!TypeOK, Request!Error, Request!Fresh
  <2>2. held' \subseteq (1 .. Request!Error) \X (1 .. MaxHeaders)
    BY <1>2, <2>1 DEF Request!InitiateFails, Request!TypeOK,
                      Request!ConnectionAssumption
  <2>3. Request!TypeOK'
    BY <1>2, <2>1, <2>2 DEF Request!InitiateFails, Request!TypeOK
  <2> QED
    BY <1>2, <2>3 DEF Request!InitiateFails, Request!TypeOK
<1>3. CASE Request!Write
  <2>1. Request!WriteChunk /\ phase = "response" /\ requestPc = "handler"
    BY <1>3 DEF Request!Write
  <2>2. UNCHANGED <<requestPc, phase, calls, status, held, ended, rejected,
                    refused>>
    BY <1>3 DEF Request!Write
  <2> QED
    BY <2>1, <2>2, ChunkIsSafe DEF Request!TypeOK
<1>4. CASE Request!HandlerReturns
  <2>1. /\ requestPc = "handler" /\ requestPc' \in {"complete", "error"}
        /\ refused' <=> requestPc' = "error" /\ phase = "request"
    BY <1>4 DEF Request!HandlerReturns
  <2>2. refused' \in BOOLEAN
    BY <1>4 DEF Request!HandlerReturns
  <2> QED
    BY <1>4, <2>1, <2>2 DEF Request!HandlerReturns, Request!TypeOK
<1> QED
  BY <1>1, <1>2, <1>3, <1>4

(* What follows the handler.                                               *)
LEMMA RequestErrorKeepsIInv ==
    ASSUME Request!ConnectionAssumption, RequestIInv,
           Request!HandleError \/ Request!HandleFailure
    PROVE  RequestIInv'
<1> USE DEF RequestIInv, RequestSentOnce, RequestRefused, RequestAlive
<1>1. UNCHANGED <<calls, requestSent, ended, code, dangling, failed, rejected,
                  refused>>
  BY DEF Request!HandleError, Request!HandleFailure
<1>2. Request!Render /\ requestPc \in {"error", "failed"}
  BY DEF Request!HandleError, Request!HandleFailure
<1>3. requestPc = "failed" => failed
  OBVIOUS
<1>4. CASE phase = "request"
  <2>1. Request!Initiate(Request!Error, 0)
    BY <1>2, <1>4 DEF Request!Render
  <2>2. /\ status' = Request!Error /\ kept' = {Request!Error}
        /\ phase' = "response"
        /\ held' \subseteq (1 .. Request!Error) \X (1 .. MaxHeaders)
        /\ ~ rejected => \A h \in held' : h[1] \in kept'
    BY <1>4, <2>1, InitiateIsSafe DEF Request!ConnectionAssumption,
       Request!Error
  <2>3. requestPc' = IF requestPc = "error" THEN "render" ELSE "rerender"
    BY <1>2, <1>4 DEF Request!Render
  <2>4. Request!Error \in 1 .. Request!Error
        /\ Request!Error \in Request!Fresh .. Request!Error
    BY DEF Request!ConnectionAssumption, Request!Error, Request!Fresh
  <2>5. Request!TypeOK'
    BY <1>1, <1>2, <2>2, <2>3, <2>4 DEF Request!TypeOK
  <2> QED
    BY <1>1, <1>2, <1>3, <1>4, <2>2, <2>3, <2>5
<1>5. CASE phase # "request"
  <2>1. UNCHANGED <<phase, kept, status, held>>
    BY <1>2, <1>5 DEF Request!Render
  <2>2. requestPc' = IF requestPc = "error" THEN "complete" ELSE "done"
    BY <1>2, <1>5 DEF Request!Render
  <2>3. Request!TypeOK'
    BY <1>1, <1>2, <2>1, <2>2 DEF Request!TypeOK
  <2>4. phase = "response"
    BY <1>5 DEF Request!TypeOK
  <2> QED
    BY <1>1, <1>2, <1>3, <2>1, <2>2, <2>3, <2>4
<1> QED
  BY <1>4, <1>5

LEMMA RequestEndKeepsIInv ==
    ASSUME Request!ConnectionAssumption, RequestIInv,
           Request!RenderBody \/ Request!Complete
    PROVE  RequestIInv'
<1> USE DEF RequestIInv, RequestSentOnce, RequestRefused, RequestAlive
<1>1. CASE Request!RenderBody
  <2>1. /\ Request!WriteChunk /\ requestPc \in {"render", "rerender"}
        /\ requestPc' = IF requestPc = "render" THEN "complete" ELSE "done"
        /\ UNCHANGED <<phase, calls, status, held, ended, rejected, refused>>
    BY <1>1 DEF Request!RenderBody
  <2>2. phase = "response"
    BY <2>1
  <2> QED
    BY <2>1, <2>2, ChunkIsSafe DEF Request!TypeOK
<1>2. CASE Request!Complete
  <2>1. /\ requestPc = "complete"
        /\ UNCHANGED <<phase, calls, status, held, rejected, refused>>
    BY <1>2 DEF Request!Complete
  <2>2. \/ /\ ended' = ended + 1 /\ kept' = {} /\ requestPc' = "done"
           /\ failed' <=> failed
           /\ (kept # {} \/ requestSent = 0) => Request!SendHeaders
        \/ failed' /\ requestPc' = "failed" /\ kept' = kept /\ ended' = ended
    BY <1>2 DEF Request!Complete, Request!SendFirst
  <2>3. failed' \in BOOLEAN
    BY <1>2 DEF Request!Complete, Request!TypeOK
  <2>a. ended' \in Nat /\ kept' \in {kept, {}} /\ requestPc' \in {"done", "failed"}
    BY <2>2 DEF Request!TypeOK
  <2>4. \/ Request!SendHeaders /\ (kept # {} \/ requestSent = 0)
        \/ Request!SendNothing
    BY <1>2 DEF Request!Complete, Request!SendFirst
  <2>5. CASE Request!SendHeaders /\ (kept # {} \/ requestSent = 0)
    <3>1. /\ requestSent' = requestSent + 1 /\ requestSent' \in Nat
          /\ code' = IF status = Request!Error THEN "error" ELSE "handler"
          /\ dangling' \in BOOLEAN
          /\ ~ rejected => ~ dangling'
      BY <2>5, SendIsSafe
    <3>2. Request!TypeOK'
      BY <2>1, <2>a, <2>3, <3>1 DEF Request!TypeOK
    <3>3. requestSent' > 0
      BY <3>1 DEF Request!TypeOK
    <3>4. ~ failed => requestSent = 0
      BY <2>5 DEF Request!TypeOK
    <3> HIDE DEF Request!TypeOK
    <3> QED
      BY <2>1, <2>2, <3>1, <3>2, <3>3, <3>4
  <2>6. CASE Request!SendNothing
    <3>1. UNCHANGED <<requestSent, code, dangling>>
      BY <2>6 DEF Request!SendNothing
    <3>2. Request!SendHeaders => requestSent' = requestSent + 1
      BY DEF Request!SendHeaders
    <3>3. ~ Request!SendHeaders
      BY <3>1, <3>2 DEF Request!TypeOK
    <3>4. Request!TypeOK'
      BY <2>1, <2>a, <2>3, <3>1 DEF Request!TypeOK
    <3>5. ~ failed' => ~ failed /\ requestSent = 1 /\ kept = {} /\ ended' = 1
                         /\ requestPc' = "done"
      BY <2>1, <2>2, <3>3 DEF Request!TypeOK
    <3>6. RequestSentOnce' /\ RequestRefused'
      BY <2>1, <2>a, <3>1, <3>5
    <3>7. RequestAlive'
      BY <2>1, <2>a, <2>2, <3>1, <3>3 DEF Request!TypeOK
    <3> QED
      BY <3>4, <3>6, <3>7
  <2> QED
    BY <2>4, <2>5, <2>6
<1> QED
  BY <1>1, <1>2

LEMMA RequestStepKeepsIInv ==
    ASSUME Request!ConnectionAssumption, RequestIInv, [Request!Next]_(Request!vars)
    PROVE  RequestIInv'
<1>1. CASE UNCHANGED Request!vars
  BY <1>1 DEF Request!vars, RequestIInv, Request!TypeOK, RequestSentOnce,
              RequestRefused, RequestAlive
<1> QED
  BY <1>1, RequestHandlerKeepsIInv, RequestErrorKeepsIInv, RequestEndKeepsIInv
  DEF Request!Next

LEMMA RequestIInvIsSafe ==
    ASSUME RequestIInv
    PROVE  /\ Request!TypeOK /\ Request!OneResponse /\ Request!ErrorIsAnswered
           /\ Request!HeadersAlive
<1>1. Request!OneResponse /\ Request!HeadersAlive
  BY DEF RequestIInv, RequestSentOnce, RequestAlive, Request!OneResponse,
         Request!HeadersAlive
<1>2. Request!ErrorIsAnswered
  BY DEF RequestIInv, RequestRefused, Request!ErrorIsAnswered
<1> QED
  BY <1>1, <1>2 DEF RequestIInv

(* In every reachable state the inductive invariant holds.                 *)
THEOREM RequestInvariance ==
    ASSUME Request!ConnectionAssumption PROVE Request!Spec => []RequestIInv
<1>1. Request!Init => RequestIInv
  BY RequestInitIInv
<1>2. RequestIInv /\ [Request!Next]_(Request!vars) => RequestIInv'
  BY RequestStepKeepsIInv
<1> QED
  BY <1>1, <1>2, PTL DEF Request!Spec

-----------------------------------------------------------------------------
(* The client connection. As long as redirects are followed for GET alone, *)
(* which has no chunked body, what initiate_response() flushes is the      *)
(* request that is on the wire.                                            *)

(* The response is awaited in the state Request; what came before is gone. *)
ClientAwaits ==
    clientPc # "idle" => state = "Request" /\ headers \subseteq {"this"} /\ length = "none"

ClientIInv ==
    /\ Client!TypeOK /\ ClientAwaits
    /\ Client!HeadersAreFresh /\ Client!HandlerIsScoped

(* A chunked request is ended before the response is awaited. *)
ClientEnded ==
    /\ state = "Request" => wire.framing = framing
    /\ state = "Request" /\ wire.ends > 0 => ~ rawBody /\ framing = "chunked"
    /\ clientPc # "idle" /\ ~ rawBody /\ framing = "chunked" => wire.ends > 0
    /\ follow => framing # "chunked"
    /\ clientPc = "redirect" => follow

LEMMA ClientInitIInv ==
    ASSUME Client!PoliciesAssumption, Client!Init PROVE ClientIInv /\ ClientEnded
<1>1. wire \in [method : {"GET", "POST"}, framing : {"none", "fixed", "chunked"},
               ends : 0 .. 2, broken : BOOLEAN]
  BY DEF Client!Init, Client!Request
<1>2. Client!TypeOK
  BY <1>1 DEF Client!Init, Client!TypeOK
<1> QED
  BY <1>2 DEF Client!Init, ClientIInv, ClientEnded, ClientAwaits,
              Client!HeadersAreFresh, Client!HandlerIsScoped

(* What the application does. *)
LEMMA ClientCallKeepsIInv ==
    ASSUME Client!PoliciesAssumption, ClientIInv,
           \/ \E method \in {"GET", "POST"} : \E fr \in Client!Framings(method) :
                Client!InitiateRequest(method, fr) \/ Client!OpenFails(method, fr)
           \/ Client!Write \/ Client!Flush \/ Client!FlushBreaks
           \/ Client!ContentLength \/ Client!Read
    PROVE  /\ ClientIInv'
           /\ "FollowAll" \notin Policies /\ ClientEnded => ClientEnded'
<1> USE DEF ClientIInv, ClientEnded, ClientAwaits, Client!TypeOK,
            Client!HeadersAreFresh, Client!HandlerIsScoped, Client!PoliciesAssumption
<1> DEFINE Both == ClientIInv' /\ ("FollowAll" \notin Policies /\ ClientEnded => ClientEnded')
<1>1. ASSUME NEW method \in {"GET", "POST"}, NEW fr \in Client!Framings(method),
             Client!InitiateRequest(method, fr)
      PROVE  Both
  <2>1. /\ framing' = fr /\ fr \in {"none", "fixed", "chunked"}
        /\ method = "GET" => fr # "chunked"
    BY <1>1 DEF Client!InitiateRequest, Client!Framings
  <2>2. /\ follow' \in BOOLEAN
        /\ follow' => policy = "FollowAll" \/ method = "GET"
    BY <1>1 DEF Client!InitiateRequest, Client!Follows
  <2>3. wire' = [method |-> method, framing |-> fr, ends |-> 0, broken |-> FALSE]
    BY <1>1 DEF Client!InitiateRequest, Client!Open, Client!Request
  <2>4. wire' \in [method : {"GET", "POST"}, framing : {"none", "fixed", "chunked"},
                   ends : 0 .. 2, broken : BOOLEAN]
    BY <2>1, <2>3
  <2>5. /\ length' \in {"none", "this", "before"}
        /\ headers' \subseteq {"this", "before"}
    BY <1>1 DEF Client!InitiateRequest, Client!Open, Client!Aged
  <2>6. /\ clientPc = "idle" /\ state' = "Request" /\ unread' \in BOOLEAN
        /\ UNCHANGED <<policy, rawBody, handler, clientPc>>
    BY <1>1 DEF Client!InitiateRequest
  <2>7. Client!TypeOK'
    BY <2>1, <2>2, <2>4, <2>5, <2>6
  <2>8. ClientAwaits' /\ Client!HeadersAreFresh' /\ Client!HandlerIsScoped'
    BY <2>6
  <2>9. "FollowAll" \notin Policies => ClientEnded'
    BY <2>1, <2>2, <2>3, <2>6
  <2> QED
    BY <2>7, <2>8, <2>9
<1>2. ASSUME NEW method \in {"GET", "POST"}, NEW fr \in Client!Framings(method),
             Client!OpenFails(method, fr)
      PROVE  Both
  BY <1>2 DEF Client!OpenFails, Client!Framings, Client!Follows
<1>3. CASE Client!Write
  BY <1>3 DEF Client!Write, Client!Chunks
<1>4. CASE Client!Flush
  BY <1>4 DEF Client!Flush, Client!Chunks, Client!ForgetHeaders
<1>5. CASE Client!FlushBreaks
  BY <1>5 DEF Client!FlushBreaks, Client!Chunks
<1>6. CASE Client!ContentLength
  BY <1>6 DEF Client!ContentLength
<1>7. CASE Client!Read
  BY <1>7 DEF Client!Read
<1> QED
  BY <1>1, <1>2, <1>3, <1>4, <1>5, <1>6, <1>7

(* What fetch_headers() does, and the handler it has called. *)
LEMMA ClientFetchKeepsIInv ==
    ASSUME Client!PoliciesAssumption, ClientIInv,
           \/ Client!Fetch \/ Client!OnHeader \/ Client!FetchFails
           \/ Client!Fetched \/ Client!FetchedRedirect \/ Client!Redirect
    PROVE  /\ ClientIInv'
           /\ ClientEnded => ClientEnded'
<1> USE DEF ClientIInv, ClientEnded, ClientAwaits, Client!TypeOK,
            Client!HeadersAreFresh, Client!HandlerIsScoped
<1>1. CASE Client!Fetch
  BY <1>1 DEF Client!Fetch
<1>2. CASE Client!OnHeader
  BY <1>2 DEF Client!OnHeader
<1>3. CASE Client!FetchFails
  BY <1>3 DEF Client!FetchFails
<1>4. CASE Client!Fetched
  BY <1>4 DEF Client!Fetched
<1>5. CASE Client!FetchedRedirect
  BY <1>5 DEF Client!FetchedRedirect
<1>6. CASE Client!Redirect
  <2>1. /\ clientPc = "redirect" /\ clientPc' \in {"idle", "fetch"}
        /\ UNCHANGED <<policy, rawBody, state, framing, follow, handler>>
        /\ unread' \in BOOLEAN
    BY <1>6 DEF Client!Redirect
  <2>2. CASE Client!Open("GET", framing) /\ headers' = {}
    <3>1. /\ wire' = [method |-> "GET", framing |-> framing, ends |-> 0,
                      broken |-> FALSE]
          /\ length' = "none"
      BY <2>1, <2>2 DEF Client!Open, Client!Request, Client!Aged
    <3>2. wire' \in [method : {"GET", "POST"}, framing : {"none", "fixed", "chunked"},
                     ends : 0 .. 2, broken : BOOLEAN]
      BY <3>1
    <3> QED
      BY <2>1, <2>2, <3>1, <3>2
  <2>3. CASE UNCHANGED <<wire, headers, length>> /\ clientPc' = "idle"
    BY <2>1, <2>3
  <2> QED
    BY <1>6, <2>2, <2>3 DEF Client!Redirect
<1> QED
  BY <1>1, <1>2, <1>3, <1>4, <1>5, <1>6

LEMMA ClientStepKeepsIInv ==
    ASSUME Client!PoliciesAssumption, ClientIInv, [Client!Next]_(Client!vars)
    PROVE  /\ ClientIInv'
           /\ "FollowAll" \notin Policies /\ ClientEnded => ClientEnded'
<1>1. CASE UNCHANGED Client!vars
  BY <1>1 DEF Client!vars, ClientIInv, ClientEnded, ClientAwaits, Client!TypeOK,
              Client!HeadersAreFresh, Client!HandlerIsScoped
<1> QED
  BY <1>1, ClientCallKeepsIInv, ClientFetchKeepsIInv DEF Client!Next

(* In every reachable state the inductive invariant holds.                 *)
THEOREM ClientInvariance ==
    ASSUME Client!PoliciesAssumption PROVE Client!Spec => []ClientIInv
<1>1. Client!Init => ClientIInv
  BY ClientInitIInv
<1>2. ClientIInv /\ [Client!Next]_(Client!vars) => ClientIInv'
  BY ClientStepKeepsIInv
<1> QED
  BY <1>1, <1>2, PTL DEF Client!Spec

(* Requests on the wire are complete, unless redirects are followed for    *)
(* every method, when one that is sent again may not be ended (client.rs). *)
THEOREM ClientCompleteness ==
    ASSUME Client!PoliciesAssumption, "FollowAll" \notin Policies
    PROVE  Client!Spec => []Client!RequestIsComplete
<1>1. Client!Init => ClientIInv /\ ClientEnded
  BY ClientInitIInv
<1>2. ClientIInv /\ ClientEnded /\ [Client!Next]_(Client!vars)
        => ClientIInv' /\ ClientEnded'
  BY ClientStepKeepsIInv
<1>3. ClientIInv /\ ClientEnded => Client!RequestIsComplete
  BY DEF ClientIInv, ClientEnded, ClientAwaits, Client!TypeOK,
         Client!RequestIsComplete
<1> QED
  BY <1>1, <1>2, <1>3, PTL DEF Client!Spec

-----------------------------------------------------------------------------
(* The WebSocket client. The mailbox holds what has been stored and not    *)
(* received, or what the reader holds; whoever empties it wakes everybody. *)
WsIInv ==
    /\ Ws!TypeOK /\ Ws!NoneOversleeps
    /\ reader = "holding" => message # Ws!Nothing /\ received # <<>>
    /\ reader = "holding" => message = received[Len(received)]
    /\ stored = IF message = Ws!Nothing \/ reader = "holding"
                THEN received ELSE Append(received, message)

LEMMA WsInitIInv == ASSUME Ws!ClientAssumption, Ws!Init PROVE WsIInv
<1>1. 0 \in 0 .. MaxEvents
  BY DEF Ws!ClientAssumption
<1> QED
  BY <1>1 DEF Ws!Init, WsIInv, Ws!TypeOK, Ws!NoneOversleeps, Ws!Nothing

LEMMA WsPostKeepsIInv ==
    ASSUME Ws!ClientAssumption, WsIInv, NEW p \in Posters,
           Ws!Arrive(p) \/ Ws!PostSleeps(p) \/ Ws!Store(p)
    PROVE  WsIInv'
<1> USE DEF WsIInv, Ws!TypeOK, Ws!NoneOversleeps, Ws!Nothing,
        Ws!ClientAssumption
<1>1. CASE Ws!Arrive(p)
  BY <1>1 DEF Ws!Arrive
<1>2. CASE Ws!PostSleeps(p)
  BY <1>2 DEF Ws!PostSleeps
<1>3. CASE Ws!Store(p)
  BY <1>3 DEF Ws!Store
<1> QED
  BY <1>1, <1>2, <1>3

LEMMA WsNextKeepsIInv ==
    ASSUME Ws!ClientAssumption, WsIInv,
           \/ Ws!CallNext \/ Ws!NextSleeps \/ Ws!NextReturns
           \/ Ws!NextReturnsNone \/ Ws!Release
           \/ Ws!SpuriousWakeup \/ Ws!Close \/ Ws!Destroy
    PROVE  WsIInv'
<1> USE DEF WsIInv, Ws!TypeOK, Ws!NoneOversleeps, Ws!Nothing,
        Ws!ClientAssumption
<1>1. CASE Ws!CallNext
  BY <1>1 DEF Ws!CallNext
<1>2. CASE Ws!NextSleeps
  BY <1>2 DEF Ws!NextSleeps
<1>3. CASE Ws!NextReturns
  <2>1. /\ reader = "waiting" /\ message \in 1 .. MaxEvents
        /\ received' = Append(received, message) /\ stored' = stored
        /\ UNCHANGED <<posting, client, arrived>>
    BY <1>3 DEF Ws!NextReturns
  <2>2. /\ received' \in Seq(1 .. MaxEvents) /\ received' # <<>>
        /\ received'[Len(received')] = message
    <3>1. received \in Seq(1 .. MaxEvents)
      OBVIOUS
    <3> HIDE DEF WsIInv, Ws!TypeOK, Ws!NoneOversleeps
    <3> QED
      BY <2>1, <3>1, SMTT(30)
  <2>3. stored' = received'
    BY <2>1
  <2>4. CASE message \in Malformed
    BY <1>3, <2>1, <2>2, <2>3, <2>4 DEF Ws!NextReturns
  <2>5. CASE message \notin Malformed
    BY <1>3, <2>1, <2>2, <2>3, <2>5 DEF Ws!NextReturns
  <2> QED
    BY <2>4, <2>5
<1>4. CASE Ws!Release
  BY <1>4 DEF Ws!Release
<1>5. CASE Ws!SpuriousWakeup
  BY <1>5 DEF Ws!SpuriousWakeup
<1>6. CASE Ws!Close
  BY <1>6 DEF Ws!Close
<1>7. CASE Ws!Destroy
  BY <1>7 DEF Ws!Destroy
<1>8. CASE Ws!NextReturnsNone
  BY <1>8 DEF Ws!NextReturnsNone
<1> QED
  BY <1>1, <1>2, <1>3, <1>4, <1>5, <1>6, <1>7, <1>8

LEMMA WsIInvIsSafe ==
    ASSUME WsIInv
    PROVE  Ws!TypeOK /\ Ws!EachOnceInOrder /\ Ws!HeldStays /\ Ws!NoneOversleeps
<1>1. Ws!HeldStays
  BY DEF WsIInv, Ws!HeldStays, Ws!Last
<1>2. received \in Seq(1 .. MaxEvents) /\ stored \in Seq(1 .. MaxEvents)
  BY DEF WsIInv, Ws!TypeOK
<1>3. stored = received \/ stored = Append(received, message)
  BY DEF WsIInv
<1>4. Ws!EachOnceInOrder
  BY <1>2, <1>3 DEF Ws!EachOnceInOrder, Ws!IsPrefix
<1> QED
  BY <1>1, <1>4 DEF WsIInv

(* In every reachable state the inductive invariant holds.                 *)
THEOREM WsInvariance == ASSUME Ws!ClientAssumption PROVE Ws!Spec => []WsIInv
<1>1. Ws!Init => WsIInv
  BY WsInitIInv
<1>2. WsIInv /\ [Ws!Next]_(Ws!vars) => WsIInv'
  <2> SUFFICES ASSUME WsIInv, [Ws!Next]_(Ws!vars) PROVE WsIInv'
    OBVIOUS
  <2>1. CASE UNCHANGED Ws!vars
    BY <2>1 DEF Ws!vars, WsIInv, Ws!TypeOK, Ws!NoneOversleeps
  <2> QED
    BY <2>1, WsPostKeepsIInv, WsNextKeepsIInv DEF Ws!Next
<1> QED
  BY <1>1, <1>2, PTL DEF Ws!Spec

-----------------------------------------------------------------------------
(* TLS. The numbers that were sent, that C has encrypted and that          *)
(* write_all() has still to write follow each other; a client's buffers    *)
(* last as long as the handshake; who drops the session has it for itself.         *)

TlsData ==
    /\ \A i \in 1 .. Len(tlsWire) : tlsWire[i] = i
    /\ \A i \in 1 .. Len(buf) : buf[i] = written + i
    /\ \A i \in 1 .. Len(pend) : pend[i] = written + i
    /\ written = Len(tlsWire) /\ Len(pend) <= Len(buf)
    /\ written + Len(buf) <= MaxData
    /\ wr = "idle" => pend = <<>>

TlsDropped ==
    session = "dropped" => owner = "tls" /\ neg = "idle" /\ rd = "idle" /\ wr = "idle"

TlsIInv ==
    /\ Secure!TypeOK /\ Secure!BufsAreHeld /\ TlsDropped
    /\ incoming + tlsRead <= MaxData
    /\ TlsData

(* The types that the steps below need. *)
LEMMA TlsTypes ==
    ASSUME Secure!TlsAssumption, Secure!TypeOK
    PROVE  /\ MaxData \in Nat /\ MaxFlights \in Nat
           /\ flights \in 0 .. MaxFlights
           /\ written \in 0 .. MaxData /\ written \in Nat
           /\ incoming \in 0 .. MaxData /\ tlsRead \in 0 .. MaxData
           /\ buf \in Seq(1 .. MaxData) /\ Len(buf) \in Nat
           /\ pend \in Seq(1 .. MaxData) /\ Len(pend) \in Nat
           /\ tlsWire \in Seq(1 .. MaxData) /\ Len(tlsWire) \in Nat
<1>1. MaxData \in Nat /\ MaxFlights \in Nat
  BY DEF Secure!TlsAssumption
<1>2. buf \in Seq(1 .. MaxData) /\ pend \in Seq(1 .. MaxData)
      /\ tlsWire \in Seq(1 .. MaxData)
  BY DEF Secure!TypeOK
<1>3. written \in 0 .. MaxData /\ incoming \in 0 .. MaxData
      /\ tlsRead \in 0 .. MaxData /\ flights \in 0 .. MaxFlights
  BY DEF Secure!TypeOK
<1>4. written \in Nat
  BY <1>1, <1>3
<1>5. Len(buf) \in Nat /\ Len(pend) \in Nat /\ Len(tlsWire) \in Nat
  BY <1>2
<1> QED
  BY <1>1, <1>2, <1>3, <1>4, <1>5

LEMMA TlsInitIInv == ASSUME Secure!TlsAssumption, Secure!Init PROVE TlsIInv
<1>1. MaxData \in Nat /\ MaxFlights \in Nat /\ None \notin Protocols
  BY DEF Secure!TlsAssumption
<1>2. Secure!TypeOK
  <2>1. 0 \in 0 .. MaxData /\ 0 \in 0 .. MaxFlights /\ <<>> \in Seq(1 .. MaxData)
    BY <1>1
  <2> QED
    BY <2>1 DEF Secure!Init, Secure!TypeOK
<1>3. TlsData
  BY <1>1 DEF Secure!Init, TlsData
<1> QED
  BY <1>1, <1>2, <1>3 DEF Secure!Init, TlsIInv, Secure!BufsAreHeld, TlsDropped

(* What does not touch the data leaves them in their order. *)
LEMMA TlsDataStay ==
    ASSUME TlsData, UNCHANGED <<buf, pend, tlsWire, written>>, wr' = "idle" => wr = "idle"
    PROVE  TlsData'
BY DEF TlsData

(* A connection is made, and its handshake. *)
LEMMA TlsHandshakeKeepsIInv ==
    ASSUME Secure!TlsAssumption, TlsIInv,
           \/ \E o \in {"socket", "tls"} : Secure!New(o)
           \/ \E s \in {"client", "server"} : Secure!Negotiate(s)
           \/ Secure!Negotiation \/ Secure!NegotiateFails
    PROVE  TlsIInv'
<1> USE DEF Secure!handshake, Secure!writing, Secure!reading, Secure!socket
<1>1. MaxData \in Nat /\ MaxFlights \in Nat
  BY DEF Secure!TlsAssumption
<1>2. UNCHANGED <<buf, pend, tlsWire, written, wr, rd, tlsRead, room, eof>>
  BY DEF Secure!New, Secure!Negotiate, Secure!Negotiation,
     Secure!NegotiateFails,
     Secure!Flight, Secure!PollNegotiate, Secure!Wants, Secure!Negotiated
<1>3. TlsData'
  BY <1>2, TlsDataStay DEF TlsIInv
<1>4. ASSUME incoming' = incoming,
             /\ session' \in {"none", "connecting", "connected", "failed", "dropped"}
             /\ owner' \in {"nobody", "socket", "tls"}
             /\ side' \in {"none", "client", "server"} /\ flights' \in 0 .. MaxFlights
             /\ alpn' \in (Protocols \ LongNames) \union {None} /\ bufs' \in BOOLEAN
             /\ neg' \in {"idle", "polling", "readable", "writable",
                          "asleep readable", "asleep writable"},
             Secure!BufsAreHeld', session' = "dropped" => FALSE
      PROVE  TlsIInv'
  BY <1>2, <1>3, <1>4 DEF TlsIInv, Secure!TypeOK, TlsDropped
<1>5. CASE \E o \in {"socket", "tls"} : Secure!New(o)
  BY <1>4, <1>5 DEF Secure!New, TlsIInv, Secure!TypeOK, Secure!BufsAreHeld
<1>6. CASE \E s \in {"client", "server"} : Secure!Negotiate(s)
  BY <1>4, <1>6 DEF Secure!Negotiate, Secure!Convert, TlsIInv, Secure!TypeOK,
     Secure!BufsAreHeld
<1>7. CASE Secure!Flight
  <2>1. /\ neg = "polling" /\ flights > 0 /\ flights' = flights - 1
        /\ incoming' = IF incoming > 0 THEN incoming - 1 ELSE 0
        /\ UNCHANGED <<session, owner, side, bufs, alpn, neg>>
    BY <1>7 DEF Secure!Flight
  <2>2. incoming \in 0 .. MaxData /\ tlsRead \in 0 .. MaxData
        /\ flights \in 0 .. MaxFlights /\ incoming + tlsRead <= MaxData
    BY TlsTypes DEF TlsIInv
  <2>3. flights' \in 0 .. MaxFlights /\ incoming' \in 0 .. MaxData
        /\ incoming' + tlsRead <= MaxData
    BY <1>1, <2>1, <2>2
  <2>4. Secure!TypeOK'
    BY <1>2, <2>1, <2>3 DEF TlsIInv, Secure!TypeOK
  <2>5. Secure!BufsAreHeld' /\ TlsDropped'
    BY <1>2, <2>1 DEF TlsIInv, Secure!BufsAreHeld, TlsDropped
  <2> QED
    BY <1>2, <1>3, <2>3, <2>4, <2>5 DEF TlsIInv
<1>8. CASE \E direction \in {"readable", "writable"} : Secure!Wants(direction)
  <2>1. /\ neg # "idle" /\ neg' \in {"readable", "writable"} /\ incoming' = incoming
        /\ UNCHANGED <<session, owner, side, bufs, flights, alpn>>
    BY <1>8 DEF Secure!Wants
  <2> QED
    BY <1>4, <2>1 DEF TlsIInv, Secure!TypeOK, Secure!BufsAreHeld
<1>9. CASE \E protocol \in Protocols \union {None} : Secure!Negotiated(protocol)
  BY <1>4, <1>9 DEF Secure!Negotiated, Secure!Extract, TlsIInv, Secure!TypeOK,
     Secure!BufsAreHeld
<1>10. CASE Secure!PollNegotiate
  BY <1>4, <1>10 DEF Secure!PollNegotiate, TlsIInv, Secure!TypeOK,
     Secure!BufsAreHeld
<1>11. CASE Secure!NegotiateFails
  BY <1>4, <1>11 DEF Secure!NegotiateFails, TlsIInv, Secure!TypeOK,
     Secure!BufsAreHeld
<1> QED
  BY <1>5, <1>6, <1>7, <1>8, <1>9, <1>10, <1>11 DEF Secure!Negotiation

(* Reads, and what comes. *)
LEMMA TlsReadKeepsIInv ==
    ASSUME Secure!TlsAssumption, TlsIInv,
           \/ Secure!Read \/ Secure!ReadRaw \/ Secure!PollRead \/ Secure!CancelRead
           \/ Secure!PeerSends
    PROVE  TlsIInv'
<1> USE DEF Secure!handshake, Secure!writing, Secure!reading, Secure!socket
<1>1. MaxData \in Nat
  BY DEF Secure!TlsAssumption
<1>2. UNCHANGED <<session, owner, side, bufs, flights, alpn, buf, pend, tlsWire, written,
                  wr, room>>
  BY DEF Secure!Read, Secure!ReadRaw, Secure!PollRead, Secure!CancelRead,
     Secure!PeerSends
<1>3. TlsData'
  BY <1>2, TlsDataStay DEF TlsIInv
<1>4. incoming \in 0 .. MaxData /\ tlsRead \in 0 .. MaxData
      /\ incoming + tlsRead <= MaxData
  BY TlsTypes DEF TlsIInv
<1>5. incoming' \in 0 .. MaxData /\ tlsRead' \in 0 .. MaxData
      /\ incoming' + tlsRead' <= MaxData
  <2>1. CASE incoming' = incoming /\ tlsRead' = tlsRead
    BY <1>4, <2>1
  <2>2. CASE \E n \in 1 .. incoming : incoming' = incoming - n /\ tlsRead' = tlsRead + n
    BY <1>1, <1>4, <2>2
  <2>3. CASE incoming + tlsRead < MaxData /\ incoming' = incoming + 1
             /\ tlsRead' = tlsRead
    BY <1>1, <1>4, <2>3
  <2> QED
    BY <2>1, <2>2, <2>3 DEF Secure!Read, Secure!ReadRaw, Secure!PollRead,
       Secure!CancelRead, Secure!PeerSends
<1>6. /\ rd' \in {"idle", "polling", "readable", "asleep"}
      /\ session = "dropped" => rd' = "idle"
  <2>1. rd \in {"idle", "polling", "readable", "asleep"}
        /\ (session = "dropped" => rd = "idle")
    BY DEF TlsIInv, Secure!TypeOK, TlsDropped
  <2>2. CASE Secure!Read
    BY <2>1, <2>2 DEF Secure!Read
  <2>3. CASE Secure!ReadRaw
    BY <2>1, <2>3 DEF Secure!ReadRaw
  <2>4. CASE Secure!PollRead
    BY <2>1, <2>4 DEF Secure!PollRead
  <2>5. CASE Secure!CancelRead
    BY <2>1, <2>5 DEF Secure!CancelRead
  <2>6. CASE Secure!PeerSends
    BY <2>1, <2>6 DEF Secure!PeerSends
  <2> QED
    BY <2>2, <2>3, <2>4, <2>5, <2>6
<1>7. neg' = neg \/ (neg = "asleep readable" /\ neg' = "polling")
  <2>1. CASE Secure!PeerSends
    BY <2>1 DEF Secure!PeerSends
  <2>2. CASE Secure!Read \/ Secure!ReadRaw \/ Secure!PollRead \/ Secure!CancelRead
    BY <2>2 DEF Secure!Read, Secure!ReadRaw, Secure!PollRead, Secure!CancelRead
  <2> QED
    BY <2>1, <2>2
<1>8. eof' \in BOOLEAN
  BY DEF TlsIInv, Secure!TypeOK, Secure!Read, Secure!ReadRaw, Secure!PollRead,
     Secure!CancelRead, Secure!PeerSends
<1> QED
  BY <1>2, <1>3, <1>5, <1>6, <1>7, <1>8, ZenonT(60)
  DEF TlsIInv, Secure!TypeOK, Secure!BufsAreHeld, TlsDropped

(* A write_all() begins. *)
LEMMA TlsWriteAllKeepsIInv ==
    ASSUME Secure!TlsAssumption, TlsIInv, NEW n \in 1 .. 2, Secure!WriteAll(n)
    PROVE  TlsIInv'
<1> USE DEF Secure!handshake, Secure!writing, Secure!reading, Secure!socket
<1>1. /\ session = "connected" /\ wr = "idle" /\ written + n <= MaxData
      /\ buf' = [i \in 1 .. n |-> written + i] /\ wr' = "polling"
      /\ UNCHANGED <<session, owner, side, bufs, flights, alpn, neg, pend, tlsWire,
                     written, rd, tlsRead, incoming, room, eof>>
  BY DEF Secure!WriteAll
<1>2. MaxData \in Nat /\ written \in Nat /\ n \in Nat
  BY TlsTypes DEF TlsIInv
<1>3. buf' \in Seq(1 .. MaxData) /\ Len(buf') = n
  <2>1. buf' \in [1 .. n -> 1 .. MaxData]
    BY <1>1, <1>2
  <2>2. buf' \in Seq(1 .. MaxData)
    BY <1>2, <2>1, SeqDef
  <2> QED
    BY <1>2, <2>1, <2>2, LenProperties
<1>4. TlsData'
  <2>1. pend = <<>> /\ Len(pend) = 0
    BY <1>1 DEF TlsIInv, TlsData
  <2> QED
    BY <1>1, <1>2, <1>3, <2>1 DEF TlsIInv, TlsData
<1> QED
  BY <1>1, <1>3, <1>4 DEF TlsIInv, Secure!TypeOK, Secure!BufsAreHeld, TlsDropped

(* What C sends: the data that are next, but not more than there are. *)
LEMMA TlsFlushed ==
    ASSUME Secure!TlsAssumption, Secure!TypeOK, TlsData, NEW n \in 1 .. Len(buf)
    PROVE  /\ Secure!Flushed(n) \in Seq(1 .. MaxData)
           /\ Len(Secure!Flushed(n)) <= Len(buf)
           /\ \A i \in 1 .. Len(Secure!Flushed(n)) : Secure!Flushed(n)[i] = written + i
<1>1. buf \in Seq(1 .. MaxData) /\ pend \in Seq(1 .. MaxData) /\ Len(buf) \in Nat
      /\ n \in Nat /\ n <= Len(buf)
  BY TlsTypes
<1>2. CASE pend # <<>>
  BY <1>1, <1>2 DEF Secure!Flushed, TlsData
<1>3. CASE pend = <<>>
  <2>1. \A i \in 1 .. n : i \in 1 .. Len(buf) /\ buf[i] \in 1 .. MaxData
    <3>1. 1 .. n \subseteq 1 .. Len(buf)
      BY <1>1
    <3> QED
      BY <1>1, <3>1, ElementOfSeq
  <2>2. /\ SubSeq(buf, 1, n) \in Seq(1 .. MaxData) /\ Len(SubSeq(buf, 1, n)) = n
        /\ \A i \in 1 .. n : SubSeq(buf, 1, n)[i] = buf[i]
    BY <1>1, <2>1, SubSeqProperties
  <2> QED
    BY <1>1, <1>3, <2>1, <2>2 DEF Secure!Flushed, TlsData
<1> QED
  BY <1>2, <1>3

(* C sends them, or encrypts them and would block. *)
LEMMA TlsWriteKeepsIInv ==
    ASSUME Secure!TlsAssumption, TlsIInv, Secure!Write
    PROVE  TlsIInv'
<1> USE DEF Secure!handshake, Secure!writing, Secure!reading, Secure!socket
<1>1. MaxData \in Nat /\ written \in Nat /\ buf \in Seq(1 .. MaxData)
      /\ tlsWire \in Seq(1 .. MaxData) /\ pend \in Seq(1 .. MaxData)
      /\ Len(buf) \in Nat /\ Len(tlsWire) \in Nat
  BY TlsTypes DEF TlsIInv
<1>2. PICK n \in 1 .. Len(buf) : Secure!WriteRaw(n)
  BY DEF Secure!Write
<1> DEFINE f == Secure!Flushed(n)
<1>3. /\ f \in Seq(1 .. MaxData) /\ Len(f) <= Len(buf) /\ Len(f) \in Nat
      /\ \A i \in 1 .. Len(f) : f[i] = written + i
  BY <1>1, TlsFlushed DEF TlsIInv
<1>4. wr = "polling"
      /\ UNCHANGED <<session, owner, side, bufs, flights, alpn, neg, rd, tlsRead, incoming,
                     eof>>
  BY DEF Secure!Write
<1>5. session # "dropped"
  BY <1>4 DEF TlsIInv, TlsDropped
<1>6. CASE room
  <2>1. /\ tlsWire' = tlsWire \o f /\ pend' = <<>> /\ written' = written + Len(f)
        /\ buf' = SubSeq(buf, Len(f) + 1, Len(buf)) /\ wr' \in {"idle", "polling"}
        /\ room' \in BOOLEAN
    BY <1>2, <1>6 DEF Secure!WriteRaw
  <2> HIDE DEF f
  <2>2. /\ tlsWire' \in Seq(1 .. MaxData) /\ Len(tlsWire') = Len(tlsWire) + Len(f)
        /\ \A i \in 1 .. Len(tlsWire) + Len(f) :
              tlsWire'[i] = IF i <= Len(tlsWire) THEN tlsWire[i] ELSE f[i - Len(tlsWire)]
    BY <1>1, <1>3, <2>1, ConcatProperties
  <2>3. \A i \in 1 .. Len(tlsWire') : tlsWire'[i] = i
    <3>1. \A i \in 1 .. Len(tlsWire) : tlsWire[i] = i
      BY DEF TlsIInv, TlsData
    <3>2. written = Len(tlsWire)
      BY DEF TlsIInv, TlsData
    <3>3. ASSUME NEW i \in 1 .. Len(tlsWire')
          PROVE  tlsWire'[i] = i
      <4>1. /\ i \in Nat /\ i \in 1 .. Len(tlsWire) + Len(f)
            /\ tlsWire'[i] = IF i <= Len(tlsWire) THEN tlsWire[i]
                                                   ELSE f[i - Len(tlsWire)]
        BY <1>1, <1>3, <2>2, <3>3
      <4>2. CASE i <= Len(tlsWire)
        <5>1. i \in 1 .. Len(tlsWire)
          BY <1>1, <4>1, <4>2
        <5> QED
          BY <3>1, <4>1, <4>2, <5>1
      <4>3. CASE i > Len(tlsWire)
        <5>1. i - Len(tlsWire) \in 1 .. Len(f)
          BY <1>1, <1>3, <4>1, <4>3
        <5>2. f[i - Len(tlsWire)] = Len(tlsWire) + (i - Len(tlsWire))
          BY <1>3, <3>2, <5>1
        <5>3. tlsWire'[i] = f[i - Len(tlsWire)]
          BY <1>1, <4>1, <4>3
        <5> QED
          BY <1>1, <4>1, <5>2, <5>3, SMTT(30)
      <4> QED
        BY <1>1, <4>1, <4>2, <4>3
    <3> QED
      BY <3>3
  <2>4. \A i \in Len(f) + 1 .. Len(buf) : buf[i] \in 1 .. MaxData
    BY <1>1, <1>3, ElementOfSeq, SMTT(30)
  <2>5. /\ buf' \in Seq(1 .. MaxData) /\ Len(buf') = Len(buf) - Len(f)
        /\ \A i \in 1 .. Len(buf) - Len(f) : buf'[i] = buf[Len(f) + i]
    <3>1. Len(f) + 1 \in Int /\ Len(buf) \in Int
      BY <1>1, <1>3
    <3>2. /\ SubSeq(buf, Len(f) + 1, Len(buf)) \in Seq(1 .. MaxData)
          /\ Len(SubSeq(buf, Len(f) + 1, Len(buf))) =
                IF Len(f) + 1 <= Len(buf) THEN Len(buf) - (Len(f) + 1) + 1 ELSE 0
          /\ \A i \in 1 .. Len(buf) - (Len(f) + 1) + 1 :
                SubSeq(buf, Len(f) + 1, Len(buf))[i] = buf[Len(f) + 1 + i - 1]
      BY <2>4, <3>1, SubSeqProperties
    <3> QED
      BY <1>1, <1>3, <2>1, <3>2
  <2>6. \A i \in 1 .. Len(buf') : buf'[i] = written' + i
    BY <1>1, <1>3, <2>1, <2>5 DEF TlsIInv, TlsData
  <2>7. written' = Len(tlsWire') /\ written' + Len(buf') <= MaxData
        /\ written' \in 0 .. MaxData
    <3>1. written = Len(tlsWire) /\ written + Len(buf) <= MaxData
      BY DEF TlsIInv, TlsData
    <3>2. written' = written + Len(f) /\ Len(tlsWire') = Len(tlsWire) + Len(f)
          /\ Len(buf') = Len(buf) - Len(f)
      BY <2>1, <2>2, <2>5
    <3>3. Len(f) \in Nat /\ Len(f) <= Len(buf)
      BY <1>3
    <3> QED
      BY <1>1, <3>1, <3>2, <3>3
  <2>8. TlsData'
    <3>1. Len(pend') = 0 /\ Len(buf') \in Nat
      BY <1>1, <1>3, <2>1, <2>5
    <3>2. (\A i \in 1 .. Len(pend) : pend[i] = written + i)'
      BY <3>1
    <3>3. (Len(pend) <= Len(buf))' /\ (wr = "idle" => pend = <<>>)'
      BY <2>1, <3>1
    <3> HIDE DEF Secure!handshake, Secure!writing, Secure!reading, Secure!socket
    <3> QED
      BY <2>3, <2>6, <2>7, <3>2, <3>3, Zenon DEF TlsData
  <2> QED
    <3>1. Secure!TypeOK'
      <4>1. /\ pend' \in Seq(1 .. MaxData)
            /\ buf' \in Seq(1 .. MaxData) /\ tlsWire' \in Seq(1 .. MaxData)
            /\ written' \in 0 .. MaxData
        BY <2>1, <2>2, <2>5, <2>7
      <4>2. wr' \in {"idle", "polling", "writable", "asleep"} /\ room' \in BOOLEAN
        BY <2>1
      <4> QED
        BY <1>4, <4>1, <4>2, ZenonT(60) DEF TlsIInv, Secure!TypeOK
    <3>2. Secure!BufsAreHeld' /\ TlsDropped'
      BY <1>4, <1>5 DEF TlsIInv, Secure!BufsAreHeld, TlsDropped
    <3>3. incoming' + tlsRead' <= MaxData
      BY <1>4 DEF TlsIInv
    <3> QED
      BY <2>8, <3>1, <3>2, <3>3 DEF TlsIInv
<1>7. CASE ~ room
  <2>1. pend' = f /\ wr' = "writable" /\ UNCHANGED <<tlsWire, written, buf, room>>
    BY <1>2, <1>7 DEF Secure!WriteRaw
  <2> HIDE DEF f
  <2>2. TlsData'
    BY <1>1, <1>3, <2>1 DEF TlsIInv, TlsData
  <2> QED
    BY <1>3, <1>4, <1>5, <2>1, <2>2, ZenonT(60) DEF TlsIInv, Secure!TypeOK,
       Secure!BufsAreHeld, TlsDropped
<1> QED
  BY <1>6, <1>7

(* The socket has room again; the session ends. *)
LEMMA TlsRoomKeepsIInv ==
    ASSUME Secure!TlsAssumption, TlsIInv, Secure!PollWrite \/ Secure!PeerReads
    PROVE  TlsIInv'
<1> USE DEF Secure!handshake, Secure!writing, Secure!reading, Secure!socket
<1>1. UNCHANGED <<session, owner, side, bufs, flights, alpn, buf, pend, tlsWire, written,
                  rd, tlsRead, incoming, eof>>
  BY DEF Secure!PollWrite, Secure!PeerReads
<1>2. /\ wr' \in {"idle", "polling", "writable", "asleep"}
      /\ wr' = "idle" => wr = "idle"
      /\ wr = "idle" => wr' = "idle"
  <2>1. wr \in {"idle", "polling", "writable", "asleep"}
    BY DEF TlsIInv, Secure!TypeOK
  <2> QED
    BY <2>1 DEF Secure!PollWrite, Secure!PeerReads
<1>3. neg' = neg \/ (neg = "asleep writable" /\ neg' = "polling")
  <2>1. CASE Secure!PeerReads
    BY <2>1 DEF Secure!PeerReads
  <2>2. CASE Secure!PollWrite
    BY <2>2 DEF Secure!PollWrite
  <2> QED
    BY <2>1, <2>2
<1>4. room' \in BOOLEAN
  BY DEF TlsIInv, Secure!TypeOK, Secure!PollWrite, Secure!PeerReads
<1>5. TlsData'
  BY <1>1, <1>2, TlsDataStay DEF TlsIInv
<1> QED
  BY <1>1, <1>2, <1>3, <1>4, <1>5, ZenonT(60) DEF TlsIInv, Secure!TypeOK,
     Secure!BufsAreHeld,
     TlsDropped

LEMMA TlsDropKeepsIInv ==
    ASSUME Secure!TlsAssumption, TlsIInv, Secure!Drop \/ Secure!ConnDestroy
    PROVE  TlsIInv'
<1> USE DEF Secure!handshake, Secure!writing, Secure!reading, Secure!socket
<1>1. CASE Secure!Drop
  <2>1. /\ neg = "idle" /\ rd = "idle" /\ wr = "idle"
        /\ owner' = "tls" /\ session' = "dropped"
        /\ UNCHANGED <<side, bufs, flights, alpn, neg, wr, buf, pend, tlsWire, written, rd,
                       tlsRead, incoming, room, eof>>
    BY <1>1 DEF Secure!Drop, Secure!Release
  <2>2. TlsData'
    BY <2>1, TlsDataStay DEF TlsIInv
  <2> QED
    BY <2>1, <2>2 DEF TlsIInv, Secure!TypeOK, Secure!BufsAreHeld, TlsDropped
<1>2. CASE Secure!ConnDestroy
  <2>1. MaxData \in Nat
    BY DEF Secure!TlsAssumption
  <2>2. /\ session = "dropped" /\ session' = "none" /\ owner' = "nobody" /\ side' = "none"
        /\ buf' = <<>> /\ pend' = <<>> /\ tlsWire' = <<>> /\ written' = 0
        /\ incoming' = 0 /\ tlsRead' = 0 /\ room' = TRUE /\ eof' = FALSE
        /\ UNCHANGED <<bufs, flights, alpn, neg, rd, wr>>
    BY <1>2 DEF Secure!ConnDestroy
  <2>3. TlsData'
    BY <2>1, <2>2 DEF TlsData
  <2>4. 0 \in 0 .. MaxData /\ <<>> \in Seq(1 .. MaxData)
    BY <2>1
  <2>5. neg' = "idle"
    BY <2>2 DEF TlsIInv, TlsDropped
  <2>6. Secure!TypeOK'
    BY <2>2, <2>4 DEF TlsIInv, Secure!TypeOK
  <2>7. Secure!BufsAreHeld' /\ TlsDropped'
    BY <2>2, <2>5 DEF Secure!BufsAreHeld, TlsDropped
  <2> QED
    BY <2>1, <2>2, <2>3, <2>6, <2>7 DEF TlsIInv
<1> QED
  BY <1>1, <1>2

LEMMA TlsStepKeepsIInv ==
    ASSUME Secure!TlsAssumption, TlsIInv, [Secure!Next]_(Secure!vars)
    PROVE  TlsIInv'
<1>1. CASE UNCHANGED Secure!vars
  <2>1. Secure!TypeOK' <=> Secure!TypeOK
    BY <1>1 DEF Secure!vars, Secure!TypeOK
  <2>2. (Secure!BufsAreHeld' <=> Secure!BufsAreHeld) /\ (TlsDropped' <=> TlsDropped)
    BY <1>1 DEF Secure!vars, Secure!BufsAreHeld, TlsDropped
  <2>3. (TlsData' <=> TlsData) /\ incoming' = incoming /\ tlsRead' = tlsRead
    BY <1>1 DEF Secure!vars, TlsData
  <2> QED
    BY <2>1, <2>2, <2>3 DEF TlsIInv
<1> QED
  BY <1>1, TlsHandshakeKeepsIInv, TlsReadKeepsIInv, TlsWriteAllKeepsIInv,
     TlsWriteKeepsIInv, TlsRoomKeepsIInv, TlsDropKeepsIInv DEF Secure!Next

LEMMA TlsIInvIsSafe ==
    ASSUME Secure!TlsAssumption, TlsIInv
    PROVE  /\ Secure!TypeOK /\ Secure!BufsAreHeld /\ Secure!ClosedOnce
           /\ Secure!WireIsInOrder
<1>1. Secure!ClosedOnce
  BY DEF TlsIInv, TlsDropped, Secure!ClosedOnce
<1>2. tlsWire \o pend = Secure!Upto(Len(tlsWire) + Len(pend))
  <2>1. tlsWire \in Seq(1 .. MaxData) /\ pend \in Seq(1 .. MaxData)
        /\ Len(tlsWire) \in Nat /\ Len(pend) \in Nat
    BY TlsTypes DEF TlsIInv
  <2>2. /\ tlsWire \o pend \in Seq(1 .. MaxData)
        /\ Len(tlsWire \o pend) = Len(tlsWire) + Len(pend)
        /\ \A i \in 1 .. Len(tlsWire) + Len(pend) : (tlsWire \o pend)[i] =
              IF i <= Len(tlsWire) THEN tlsWire[i] ELSE pend[i - Len(tlsWire)]
    BY <2>1, ConcatProperties
  <2>3. \A i \in 1 .. Len(tlsWire) + Len(pend) : (tlsWire \o pend)[i] = i
    <3>1. /\ \A i \in 1 .. Len(tlsWire) : tlsWire[i] = i
          /\ \A i \in 1 .. Len(pend) : pend[i] = Len(tlsWire) + i
      BY DEF TlsIInv, TlsData
    <3> QED
      BY <2>1, <2>2, <3>1
  <2>4. tlsWire \o pend \in [1 .. Len(tlsWire) + Len(pend) -> 1 .. MaxData]
    BY <2>2, LenProperties
  <2> QED
    BY <2>3, <2>4 DEF Secure!Upto
<1> QED
  BY <1>1, <1>2 DEF TlsIInv, TlsData, Secure!WireIsInOrder

LEMMA TlsInvariance ==
    ASSUME Secure!TlsAssumption PROVE Secure!Spec => []TlsIInv
<1>1. Secure!Init => TlsIInv
  BY TlsInitIInv
<1>2. TlsIInv /\ [Secure!Next]_(Secure!vars) => TlsIInv'
  BY TlsStepKeepsIInv
<1> QED
  BY <1>1, <1>2, PTL DEF Secure!Spec

-----------------------------------------------------------------------------
(* What is proved of the composition. *)

(* Every reachable state has the types of the model. *)
THEOREM TypeCorrect == Spec => []TypeOK
<1>1. Httpd!Spec => []Httpd!TypeOK
  BY Assumptions, HttpdInvariance, HttpdIInvIsSafe, PTL
<1>2. Sender!Spec => []Sender!TypeOK
  <2>1. SenderIInv => Sender!TypeOK
    BY DEF SenderIInv
  <2> QED
    BY <2>1, Assumptions, SenderInvariance, PTL
<1>3. Request!Spec => []Request!TypeOK
  <2>1. RequestIInv => Request!TypeOK
    BY DEF RequestIInv
  <2> QED
    BY <2>1, Assumptions, RequestInvariance, PTL
<1>4. Client!Spec => []Client!TypeOK
  <2>1. ClientIInv => Client!TypeOK
    BY DEF ClientIInv
  <2> QED
    BY <2>1, Assumptions, ClientInvariance, PTL
<1>5. Ws!Spec => []Ws!TypeOK
  <2>1. WsIInv => Ws!TypeOK
    BY DEF WsIInv
  <2> QED
    BY <2>1, Assumptions, WsInvariance, PTL
<1>6. Secure!Spec => []Secure!TypeOK
  <2>1. TlsIInv => Secure!TypeOK
    BY DEF TlsIInv
  <2> QED
    BY <2>1, Assumptions, TlsInvariance, PTL
<1> QED
  BY <1>1, <1>2, <1>3, <1>4, <1>5, <1>6, Components, PTL DEF TypeOK

(* A WebSocket handler that has seen a session is told of its end, and a   *)
(* server that is down leaves no handler behind (server.rs).               *)
THEOREM HandlerSafety == Spec => []HandlersAreTold
<1>1. Httpd!Spec => []HandlersAreTold
  <2>1. HttpdIInv => HandlersAreTold
    BY HttpdIInvIsSafe DEF HandlersAreTold
  <2> QED
    BY <2>1, Assumptions, HttpdInvariance, PTL
<1> QED
  BY <1>1, Components, PTL

(* A frame goes to the session its sender was made for, the flag of the    *)
(* sender tells whether that session is open, and send() returns Ok if and *)
(* only if the frame was sent (server.rs).                                 *)
THEOREM FrameSafety == Spec => []FramesReachTheirSession
<1>1. Sender!Spec => []FramesReachTheirSession
  <2>1. SenderIInv => FramesReachTheirSession
    BY SenderIInvIsSafe DEF FramesReachTheirSession
  <2> QED
    BY <2>1, Assumptions, SenderInvariance, PTL
<1> QED
  BY <1>1, Components, PTL

(* A request has one response, whose strings are alive until it is sent    *)
(* (http/server.rs); the client's header() tells of the last response, and *)
(* C knows of its handler only while headers are fetched (http/client.rs); *)
(* a TLS handshake of a client has the buffers C reads, and a session is   *)
(* closed once (tls.rs).                                                   *)
THEOREM ResponseSafety ==
    Spec => [](/\ Request!OneResponse /\ Request!ErrorIsAnswered
               /\ Request!HeadersAlive
               /\ Client!HeadersAreFresh /\ Client!HandlerIsScoped
               /\ Secure!BufsAreHeld /\ Secure!ClosedOnce)
<1>1. Request!Spec =>
        [](Request!OneResponse /\ Request!ErrorIsAnswered /\ Request!HeadersAlive)
  <2>1. RequestIInv =>
          Request!OneResponse /\ Request!ErrorIsAnswered /\ Request!HeadersAlive
    BY RequestIInvIsSafe
  <2> QED
    BY <2>1, Assumptions, RequestInvariance, PTL
<1>2. Client!Spec => [](Client!HeadersAreFresh /\ Client!HandlerIsScoped)
  <2>1. ClientIInv => Client!HeadersAreFresh /\ Client!HandlerIsScoped
    BY DEF ClientIInv
  <2> QED
    BY <2>1, Assumptions, ClientInvariance, PTL
<1>3. Secure!Spec => [](Secure!BufsAreHeld /\ Secure!ClosedOnce)
  <2>1. TlsIInv => Secure!BufsAreHeld /\ Secure!ClosedOnce
    BY Assumptions, TlsIInvIsSafe
  <2> QED
    BY <2>1, Assumptions, TlsInvariance, PTL
<1> QED
  BY <1>1, <1>2, <1>3, Components, PTL

(* Exchanges of the server, the client and TLS are whole (server.rs,       *)
(* client.rs, tls.rs). The client: unless redirects are followed for every *)
(* method, when a request that is sent again may not be ended. TLS: of the *)
(* buffers of a handshake, those of a client.                              *)
THEOREM ExchangeSafety ==
    ASSUME "FollowAll" \notin Policies PROVE Spec => []ExchangeIsComplete
<1>1. Client!Spec => []Client!RequestIsComplete
  BY Assumptions, ClientCompleteness
<1> QED
  BY <1>1, ResponseSafety, Components, PTL DEF ExchangeIsComplete

(* The WebSocket client's next() returns every event once and in order,    *)
(* nobody replaces an event that someone holds or sleeps through what it   *)
(* waits for (ws/client.rs), and TLS sends what was written once and in    *)
(* order (tls.rs).                                                         *)
THEOREM OrderSafety == Spec => []EachOnceInOrder
<1>1. Ws!Spec => [](Ws!EachOnceInOrder /\ Ws!HeldStays /\ Ws!NoneOversleeps)
  <2>1. WsIInv => Ws!EachOnceInOrder /\ Ws!HeldStays /\ Ws!NoneOversleeps
    BY WsIInvIsSafe
  <2> QED
    BY <2>1, Assumptions, WsInvariance, PTL
<1>2. Secure!Spec => []Secure!WireIsInOrder
  <2>1. TlsIInv => Secure!WireIsInOrder
    BY Assumptions, TlsIInvIsSafe
  <2> QED
    BY <2>1, Assumptions, TlsInvariance, PTL
<1> QED
  BY <1>1, <1>2, Components, PTL DEF EachOnceInOrder
=============================================================================
