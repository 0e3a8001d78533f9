-------------------------------- MODULE MCHttp ---------------------------------
(***************************************************************************)
(* The instance of HTTP and WebSockets that TLC checks: the server with    *)
(* its registries, the senders of its WebSocket sessions, one request on a *)
(* server connection, the client connection, the WebSocket client, and TLS. *)
(* What they share (OPEN_SESSIONS and CLOSE_HANDLERS) is modelled in the   *)
(* first two, of which each knows what it uses: a behaviour exercises one  *)
(* part and leaves the others where they start.                            *)
(***************************************************************************)
EXTENDS Naturals

CONSTANTS
    Servers, Addresses, MaxHandlers,    \* see HttpServer
    Fds,                                \* see HttpServer and HttpWsSender
    Threads, MaxSessions,               \* see HttpWsSender
    MaxHeaders, MaxCalls,               \* see HttpConnection
    Policies,                           \* see HttpClient
    Posters, MaxEvents, Malformed, NullEvents,          \* see WsClient
    MaxData, MaxFlights, Protocols, LongNames, None     \* see Tls

VARIABLES
    part,   \* the part of the system that this behaviour is about
    \* HttpServer
    serverPc, sd, httpd, uris, pushing, registry, sessions, owed, panicked,
    \* HttpWsSender
    conn, accepted, entry, flags, closed, sender, senderPc, answer, work,
    server, senderSent,
    \* HttpConnection
    requestPc, phase, calls, kept, status, held, requestSent, ended, code,
    dangling, failed, rejected, refused,
    \* HttpClient
    policy, rawBody, state, framing, follow, handler, headers, length, clientPc,
    wire, unread,
    \* WsClient
    message, posting, reader, sleeping, client, arrived, stored, received,
    \* Tls
    session, owner, side, bufs, flights, alpn, neg, rd, wr, buf, pend, tlsWire,
    written, incoming, tlsRead, room, eof

serverVars == <<serverPc, sd, httpd, uris, pushing, registry, sessions, owed,
    panicked>>
senderVars == <<conn, accepted, entry, flags, closed, sender, senderPc,
    answer, work, server, senderSent>>
requestVars == <<requestPc, phase, calls, kept, status, held, requestSent,
    ended, code, dangling, failed, rejected, refused>>
clientVars == <<policy, rawBody, state, framing, follow, handler, headers,
    length, clientPc, wire, unread>>
wsVars == <<message, posting, reader, sleeping, client, arrived, stored,
    received>>
tlsVars == <<session, owner, side, bufs, flights, alpn, neg, rd, wr, buf, pend,
    tlsWire, written, incoming, tlsRead, room, eof>>

vars == <<part, serverVars, senderVars, requestVars, clientVars, wsVars,
    tlsVars>>

Httpd == INSTANCE HttpServer WITH
    pc <- serverPc

Sender == INSTANCE HttpWsSender WITH
    pc <- senderPc, sent <- senderSent

Request == INSTANCE HttpConnection WITH
    pc <- requestPc, sent <- requestSent

Client == INSTANCE HttpClient WITH
    pc <- clientPc

Ws == INSTANCE WsClient

Secure == INSTANCE Tls WITH
    wire <- tlsWire, read <- tlsRead

ASSUME Assumptions ==
    /\ Httpd!ServerAssumption /\ Sender!SenderAssumption
    /\ Request!ConnectionAssumption /\ Client!PoliciesAssumption
    /\ Ws!ClientAssumption /\ Secure!TlsAssumption

Init ==
    /\ part \in {"server", "sender", "request", "client", "ws", "tls"}
    /\ Httpd!Init
    /\ Sender!Init
    /\ Request!Init
    /\ Client!Init
    /\ Ws!Init
    /\ Secure!Init
    /\ part # "client" => ~ rawBody /\ policy = CHOOSE p \in Policies : TRUE
    /\ part = "sender" => \A s \in Servers : sd[s] = 1

Next ==
    /\ UNCHANGED part
    /\ \/ /\ part = "server" /\ Httpd!Next
          /\ UNCHANGED <<senderVars, requestVars, clientVars, wsVars, tlsVars>>
       \/ /\ part = "sender" /\ Sender!Next
          /\ UNCHANGED <<serverVars, requestVars, clientVars, wsVars, tlsVars>>
       \/ /\ part = "request" /\ Request!Next
          /\ UNCHANGED <<serverVars, senderVars, clientVars, wsVars, tlsVars>>
       \/ /\ part = "client" /\ Client!Next
          /\ UNCHANGED <<serverVars, senderVars, requestVars, wsVars, tlsVars>>
       \/ /\ part = "ws" /\ Ws!Next
          /\ UNCHANGED <<serverVars, senderVars, requestVars, clientVars, tlsVars>>
       \/ /\ part = "tls" /\ Secure!Next
          /\ UNCHANGED <<serverVars, senderVars, requestVars, clientVars, wsVars>>

(* The fairness of the part that runs. *)
Fairness ==
    \/ part = "sender" /\ Sender!Fairness
    \/ part = "ws" /\ Ws!Fairness
    \/ part = "tls" /\ Secure!Fairness
    \/ part \in {"server", "request", "client"}

Spec == Init /\ [][Next]_vars /\ Fairness

-----------------------------------------------------------------------------
(* Properties *)

(* The values the variables take. *)
TypeOK ==
    /\ Httpd!TypeOK /\ Sender!TypeOK /\ Request!TypeOK
    /\ Client!TypeOK /\ Ws!TypeOK /\ Secure!TypeOK

(* A WebSocket handler that has seen a session is told of its end, and a   *)
(* server that is down has left no handler behind (server.rs, stop()).     *)
HandlersAreTold == Httpd!HandlersAreTold /\ Httpd!NothingLeftBehind

(* A frame goes to the session its sender was made for, whoever has the    *)
(* socket by then; the flag of the sender tells whether that session is    *)
(* open; send() returns Ok if and only if the frame was sent (server.rs).  *)
FramesReachTheirSession ==
    Sender!FramesReachTheirSession /\ Sender!FlagTellsTheTruth
        /\ Sender!OkMeansSent

(* An exchange is whole. A request to the server is answered with one      *)
(* response that has one end, with an error if the handler fails before it *)
(* has initiated one, and the C server reads no header string that was     *)
(* dropped (server.rs). The client waits for a response only when all of   *)
(* the request is on the wire, and its header() tells of the last          *)
(* response, whatever has failed in between (client.rs). The TLS handshake *)
(* of a client has the buffers C reads, and nobody uses a socket that is   *)
(* closed (tls.rs).                                                        *)
ExchangeIsComplete ==
    /\ Request!OneResponse /\ Request!ErrorIsAnswered /\ Request!HeadersAlive
    /\ Client!RequestIsComplete /\ Client!HeadersAreFresh
    /\ Client!HandlerIsScoped
    /\ Secure!BufsAreHeld /\ Secure!ClosedOnce

(* The WebSocket client's next() returns every event once and in order,    *)
(* nobody replaces an event that someone holds, nobody sleeps through what *)
(* it waits for (ws/client.rs). TLS sends what was written once and in     *)
(* order, however often the socket would block (tls.rs).                   *)
EachOnceInOrder ==
    /\ Ws!EachOnceInOrder /\ Ws!HeldStays /\ Ws!NoneOversleeps
    /\ Secure!WireIsInOrder

(* While the server is not stopped a detached send() comes back; while     *)
(* next() is called, so do the WebSocket client's callbacks and its drop;  *)
(* while the peer goes on, so do reads, writes and handshakes of TLS.      *)
CallsReturn ==
    /\ part = "sender" => Sender!SendReturns
    /\ part = "ws" => Ws!PostersReturn /\ Ws!DropReturns
    /\ part = "tls" => Secure!CallsReturn
=============================================================================
