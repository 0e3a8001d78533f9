---------------------------- MODULE HttpWsSender ----------------------------
(***************************************************************************)
(* EspHttpWsDetachedSender in src/src/http/server.rs: threads send frames   *)
(* to the sessions of a WebSocket server by queueing work for the task of  *)
(* the C server, and sleep until it is done. A session is known by its fd,  *)
(* which a later session may get again; the flag in OPEN_SESSIONS tells    *)
(* the senders of the one from those of the other.                         *)
(***************************************************************************)
EXTENDS Naturals, Sequences, FiniteSets

CONSTANTS
    Threads,        \* the threads that send
    Fds,            \* the sockets
    MaxSessions     \* bound: the number of sessions

(* What the constants are required to be. *)
SenderAssumption == MaxSessions \in Nat /\ "stop" \notin Threads

Absent == 0

Sessions == 1 .. MaxSessions

VARIABLES
    conn,       \* the session on each socket
    accepted,   \* the number of sessions so far
    entry,      \* OPEN_SESSIONS: the flag of each fd, Absent if it has none
    flags,      \* the number of flags so far
    closed,     \* the flags that are set
    sender,     \* the EspHttpWsDetachedSender of each thread
    pc,         \* where the thread is in send()
    answer,     \* error_code of the request of each thread
    work,       \* the queue of the C server, "stop" for its shutdown
    server,     \* the task of the C server
    sent        \* history: which session got the last frame of each thread

vars == <<conn, accepted, entry, flags, closed, sender, pc, answer, work,
          server, sent>>

NoSender == [fd |-> Absent, flag |-> Absent, session |-> Absent]

Init ==
    /\ conn = [f \in Fds |-> Absent]
    /\ accepted = 0
    /\ entry = [f \in Fds |-> Absent]
    /\ flags = 0
    /\ closed = {}
    /\ sender = [t \in Threads |-> NoSender]
    /\ pc = [t \in Threads |-> "idle"]
    /\ answer = [t \in Threads |-> "none"]
    /\ work = <<>>
    /\ server = "running"
    /\ sent = [t \in Threads |-> Absent]

-----------------------------------------------------------------------------
(* Variants with a bug. *)

(* enqueue() does not look at the flag again. *)
EnqueueUnchecked(t) ==
    LET s == sender[t]
    IN  /\ server # "stopped" /\ work # <<>> /\ Head(work) = t
        /\ sent' = [sent EXCEPT ![t] = conn[s.fd]]
        /\ answer' = [answer EXCEPT ![t] = IF conn[s.fd] = Absent THEN "error" ELSE "ok"]
        /\ work' = Tail(work)
        /\ UNCHANGED <<conn, accepted, entry, flags, closed, sender, pc, server>>

(* enqueue() does not notify the thread when the session is closed.        *)
EnqueueSilent(t) ==
    LET s == sender[t]
        open == s.flag \notin closed
    IN  /\ server # "stopped" /\ work # <<>> /\ Head(work) = t
        /\ sent' = [sent EXCEPT ![t] = IF open THEN conn[s.fd] ELSE Absent]
        /\ answer' = [answer EXCEPT ![t] = IF open THEN "ok" ELSE "none"]
        /\ work' = Tail(work)
        /\ UNCHANGED <<conn, accepted, entry, flags, closed, sender, pc, server>>

-----------------------------------------------------------------------------
(* The task of the C server: sessions come and go. *)
Accept(f) ==
    /\ server # "stopped"
    /\ conn[f] = Absent
    /\ accepted < MaxSessions
    /\ accepted' = accepted + 1
    /\ conn' = [conn EXCEPT ![f] = accepted']
    /\ UNCHANGED <<entry, flags, closed, sender, pc, answer, work, server, sent>>

(* close_fn() *)
Close(f) ==
    /\ server # "stopped"
    /\ conn[f] # Absent
    /\ closed' = IF entry[f] # Absent THEN closed \union {entry[f]} ELSE closed
    /\ entry' = [entry EXCEPT ![f] = Absent]
    /\ conn' = [conn EXCEPT ![f] = Absent]
    /\ UNCHANGED <<accepted, flags, sender, pc, answer, work, server, sent>>

(* A handler makes a sender for its session and gives it to a thread.      *)
CreateDetachedSender(f, t) ==
    /\ server # "stopped"
    /\ conn[f] # Absent
    /\ pc[t] = "idle"
    /\ flags' = IF entry[f] = Absent THEN flags + 1 ELSE flags
    /\ entry' = [entry EXCEPT ![f] = IF @ = Absent THEN flags' ELSE @]
    /\ sender' = [sender EXCEPT ![t] =
                     [fd |-> f, flag |-> entry'[f], session |-> conn[f]]]
    /\ sent' = [sent EXCEPT ![t] = Absent]
    /\ answer' = [answer EXCEPT ![t] = "none"]
    /\ UNCHANGED <<conn, accepted, closed, pc, work, server>>

(* The work of enqueue(): the flag is looked at again, and as the sessions  *)
(* are closed by this task too it stays true until the frame is sent. The  *)
(* C server may fail to send it.                                           *)
Enqueue(t) ==
    LET s == sender[t]
        open == s.flag \notin closed
    IN  /\ server # "stopped" /\ work # <<>> /\ Head(work) = t
        /\ \/ /\ open /\ conn[s.fd] # Absent
              /\ sent' = [sent EXCEPT ![t] = conn[s.fd]]
              /\ answer' = [answer EXCEPT ![t] = "ok"]
           \/ /\ sent' = [sent EXCEPT ![t] = Absent]
              /\ answer' = [answer EXCEPT ![t] = "error"]
        /\ work' = Tail(work)
        /\ UNCHANGED <<conn, accepted, entry, flags, closed, sender, pc, server>>

(* httpd_stop() queues a message, and the task discards the work behind it.*)
Stop ==
    /\ server = "running"
    /\ work' = Append(work, "stop")
    /\ server' = "stopping"
    /\ UNCHANGED <<conn, accepted, entry, flags, closed, sender, pc, answer, sent>>

Shutdown ==
    /\ work # <<>> /\ Head(work) = "stop"
    /\ \A f \in Fds : conn[f] = Absent
    /\ work' = <<>>
    /\ server' = "stopped"
    /\ UNCHANGED <<conn, accepted, entry, flags, closed, sender, pc, answer, sent>>

-----------------------------------------------------------------------------
(* send(): the flag is checked ... *)
Check(t) ==
    /\ pc[t] = "idle"
    /\ sender[t] # NoSender
    /\ sender[t].flag \notin closed
    /\ pc' = [pc EXCEPT ![t] = "open"]
    /\ answer' = [answer EXCEPT ![t] = "none"]
    /\ sent' = [sent EXCEPT ![t] = Absent]
    /\ UNCHANGED <<conn, accepted, entry, flags, closed, sender, work, server>>

(* ... which is the error of a session that is closed ... *)
Refuse(t) ==
    /\ pc[t] = "idle"
    /\ sender[t].flag \in closed
    /\ answer' = [answer EXCEPT ![t] = "error"]
    /\ sent' = [sent EXCEPT ![t] = Absent]
    /\ UNCHANGED <<conn, accepted, entry, flags, closed, sender, pc, work, server>>

(* ... the work queued, of which nothing comes when the server has stopped *)
(* since, its handle not being good any more ...                           *)
QueueWork(t) ==
    /\ pc[t] = "open"
    /\ work' = Append(work, t)
    /\ pc' = [pc EXCEPT ![t] = "waiting"]
    /\ UNCHANGED <<conn, accepted, entry, flags, closed, sender, answer,
                   server, sent>>

(* ... or not, when httpd_queue_work() fails ...                           *)
QueueWorkFails(t) ==
    /\ pc[t] = "open"
    /\ answer' = [answer EXCEPT ![t] = "error"]
    /\ pc' = [pc EXCEPT ![t] = "idle"]
    /\ UNCHANGED <<conn, accepted, entry, flags, closed, sender, work, server,
                   sent>>

(* ... and its answer waited for. *)
Return(t) ==
    /\ pc[t] = "waiting"
    /\ answer[t] # "none"
    /\ pc' = [pc EXCEPT ![t] = "idle"]
    /\ UNCHANGED <<conn, accepted, entry, flags, closed, sender, answer, work,
                   server, sent>>

-----------------------------------------------------------------------------
Next ==
    \/ \E f \in Fds :
          Accept(f) \/ Close(f) \/ \E t \in Threads : CreateDetachedSender(f, t)
    \/ \E t \in Threads :
          \/ Enqueue(t) \/ Check(t) \/ Refuse(t)
          \/ QueueWork(t) \/ QueueWorkFails(t) \/ Return(t)
    \/ Stop \/ Shutdown

(* The task of the C server and the threads run. *)
Fairness ==
    /\ WF_vars(Shutdown)
    /\ \A t \in Threads :
          /\ WF_vars(Enqueue(t)) /\ WF_vars(Return(t))
          /\ WF_vars(QueueWork(t) \/ QueueWorkFails(t))

Spec == Init /\ [][Next]_vars

FairSpec == Spec /\ Fairness

-----------------------------------------------------------------------------
(* Properties *)

(* The values the variables take. *)
TypeOK ==
    /\ accepted \in 0 .. MaxSessions
    /\ conn \in [Fds -> 0 .. accepted]
    /\ flags \in 0 .. MaxSessions
    /\ entry \in [Fds -> 0 .. flags]
    /\ closed \subseteq 1 .. flags
    /\ sender \in [Threads ->
            {NoSender} \union [fd : Fds, flag : 1 .. flags, session : 1 .. accepted]]
    /\ pc \in [Threads -> {"idle", "open", "waiting"}]
    /\ answer \in [Threads -> {"none", "ok", "error"}]
    /\ sent \in [Threads -> 0 .. accepted]
    /\ work \in Seq(Threads \union {"stop"})
    /\ server \in {"running", "stopping", "stopped"}

(* A frame goes to the session its sender was made for, whoever has the    *)
(* socket by then.                                                         *)
FramesReachTheirSession ==
    \A t \in Threads : sent[t] \in {Absent, sender[t].session}

(* The flag of a sender tells whether its session is open. *)
FlagTellsTheTruth ==
    \A t \in Threads : sender[t] # NoSender =>
        (sender[t].flag \in closed <=> conn[sender[t].fd] # sender[t].session)

(* send() returns Ok if and only if this frame was sent. *)
OkMeansSent ==
    \A t \in Threads : answer[t] = "ok" <=> sent[t] # Absent

(* While the server is not stopped, send() comes back. *)
SendReturns ==
    \A t \in Threads :
        (pc[t] # "idle") ~> (pc[t] = "idle" \/ server # "running")
=============================================================================
