----------------------------------- MODULE Tls -----------------------------------
(***************************************************************************)
(* EspTls and EspAsyncTls of src/src/tls.rs over a socket that does not    *)
(* block. One task may read while another writes: each locks the session   *)
(* for a call into C and again to wait for the socket, and C may have      *)
(* encrypted what it could not yet send.                                   *)
(*                                                                         *)
(* Data are numbered in the order of the application. Assumed of mbedTLS:  *)
(* a write that would block is repeated with the same data, which it then  *)
(* does not look at. So a write is not abandoned for another one: neither  *)
(* the future of write() nor a write_all() of EspTls that returned the     *)
(* error. Assumed of the socket: release() succeeds, and a direction wakes *)
(* the task that waits for it.                                             *)
(***************************************************************************)
EXTENDS Naturals, Sequences

CONSTANTS
    MaxData,    \* bound: data in either direction
    MaxFlights, \* bound: flights of the peer in a handshake
    Protocols,  \* ALPN protocols that may be offered
    LongNames,  \* those of them that AlpnBuf cannot hold
    None

(* What the constants are required to be. *)
TlsAssumption ==
    /\ {MaxData, MaxFlights} \subseteq Nat
    /\ LongNames \subseteq Protocols /\ None \notin Protocols

VARIABLES
    session,    \* "none", "connecting", "connected", "failed", "dropped"
    owner,      \* who closes the socket: "nobody", "socket" or "tls"
    side,       \* the handshake is that of a "client" or of a "server"
    bufs,       \* RawConfigBufs, which C has pointers into, exists
    flights,    \* flights of the handshake that are to come
    alpn,       \* CompletedHandshake::alpn
    neg, rd, wr,\* where negotiate(), read() and write_all() are
    buf,        \* what write_all() has still to write
    pend,       \* what C has encrypted and not sent
    wire,       \* what C has sent
    written,    \* how much of its data the application was told is written
    incoming,   \* how much has come that C has not read
    read,       \* how much has been read
    room,       \* the socket is writable
    eof         \* the peer has closed

vars == <<session, owner, side, bufs, flights, alpn, neg, rd, wr, buf, pend,
          wire, written, incoming, read, room, eof>>

handshake == <<session, owner, side, bufs, flights, alpn, neg>>
writing == <<wr, buf, pend, wire, written>>
reading == <<rd, read>>
socket == <<incoming, room, eof>>

Init ==
    /\ session = "none" /\ owner = "nobody" /\ side = "none" /\ bufs = FALSE
    /\ flights = 0 /\ alpn = None
    /\ neg = "idle" /\ rd = "idle" /\ wr = "idle"
    /\ buf = <<>> /\ pend = <<>> /\ wire = <<>> /\ written = 0
    /\ incoming = 0 /\ read = 0 /\ room = TRUE /\ eof = FALSE

Readable == incoming > 0 \/ eof

Upto(n) == [i \in 1 .. n |-> i]

-----------------------------------------------------------------------------
(* Variants with a bug. *)

(* The raw configuration outlives what it points to. *)
ConvertNot(s) == bufs' = FALSE

(* What could not be sent is encrypted again. *)
FlushedAgain(n) == pend \o SubSeq(buf, 1, n)

-----------------------------------------------------------------------------
(* adopt(); a socket that C refuses is dropped, and closes itself. new():  *)
(* connect() opens a socket that is C's own.                               *)
New(o) ==
    /\ session = "none"
    /\ session' = "connecting" /\ owner' = o
    /\ flights' \in 0 .. MaxFlights
    /\ alpn' = None
    /\ UNCHANGED <<side, bufs, neg, writing, reading, socket>>

(* negotiate(): try_into_raw() fills the buffers that the raw configuration *)
(* points into, and they are kept until the handshake is over. A server's  *)
(* are gone when negotiate_server_init() returns, before the first flight. *)
Convert(s) == bufs' = (s = "client")

(* Too many protocols, or init() of a server fails: nothing has begun. *)
Negotiate(s) ==
    /\ session = "connecting" /\ neg = "idle"
    /\ \/ Convert(s) /\ side' = s /\ neg' = "polling"
       \/ UNCHANGED <<bufs, side, neg>>
    /\ UNCHANGED <<session, owner, flights, alpn, writing, reading, socket>>

(* internal_connect(), negotiate_server_continue(): the next flight ...    *)
Flight ==
    /\ neg = "polling" /\ flights > 0 /\ Readable
    /\ flights' = flights - 1
    /\ incoming' = IF incoming > 0 THEN incoming - 1 ELSE 0
    /\ UNCHANGED <<session, owner, side, bufs, alpn, neg, writing, reading, room, eof>>

(* ... WANT_READ, WANT_WRITE, or 0 when C cannot tell ...                  *)
Wants(direction) ==
    /\ neg = "polling"
    /\ IF direction = "readable" THEN ~ Readable ELSE ~ Readable \/ ~ room
    /\ neg' = direction
    /\ UNCHANGED <<session, owner, side, bufs, flights, alpn, writing, reading, socket>>

(* ... or the end. The protocol is copied when AlpnBuf holds it, and a     *)
(* client is told.                                                         *)
Extract(protocol) == IF protocol \in LongNames THEN None ELSE protocol

Negotiated(protocol) ==
    /\ neg = "polling" /\ flights = 0 /\ room
    /\ session' = "connected"
    /\ alpn' = IF side = "client" THEN Extract(protocol) ELSE None
    /\ neg' = "idle" /\ bufs' = FALSE
    /\ UNCHANGED <<owner, side, flights, writing, reading, socket>>

(* Any other result is an error. The future may also be dropped.           *)
NegotiateFails ==
    /\ neg # "idle"
    /\ session' = "failed" /\ neg' = "idle" /\ bufs' = FALSE
    /\ UNCHANGED <<owner, side, flights, alpn, writing, reading, socket>>

(* poll_wait(): ready when the direction is, or the task registered. 0 is  *)
(* taken for writable.                                                     *)
PollNegotiate ==
    /\ neg \in {"readable", "writable"}
    /\ neg' = IF (neg = "readable" /\ Readable) \/ (neg = "writable" /\ room)
              THEN "polling"
              ELSE IF neg = "readable" THEN "asleep readable" ELSE "asleep writable"
    /\ UNCHANGED <<session, owner, side, bufs, flights, alpn, writing, reading, socket>>

-----------------------------------------------------------------------------
(* read(): an empty buffer and the end of the stream are both 0. *)
Read ==
    /\ session = "connected" /\ rd = "idle" /\ neg = "idle"
    /\ rd' = "polling"
    /\ UNCHANGED <<handshake, writing, read, socket>>

ReadRaw ==
    /\ rd = "polling"
    /\ IF incoming > 0
       THEN \E n \in 1 .. incoming :
               incoming' = incoming - n /\ read' = read + n /\ rd' = "idle"
       ELSE /\ rd' = IF eof THEN "idle" ELSE "readable"
            /\ UNCHANGED <<incoming, read>>
    /\ UNCHANGED <<handshake, writing, room, eof>>

(* A read that is dropped while it waits has read nothing. *)
PollRead ==
    /\ rd = "readable"
    /\ rd' = IF Readable THEN "polling" ELSE "asleep"
    /\ UNCHANGED <<handshake, writing, read, socket>>

CancelRead ==
    /\ rd \in {"readable", "asleep"}
    /\ rd' = "idle"
    /\ UNCHANGED <<handshake, writing, read, socket>>

(* write_all(): write() until nothing is left. *)
WriteAll(n) ==
    /\ session = "connected" /\ wr = "idle" /\ neg = "idle"
    /\ written + n <= MaxData
    /\ buf' = [i \in 1 .. n |-> written + i]
    /\ wr' = "polling"
    /\ UNCHANGED <<handshake, pend, wire, written, reading, socket>>

(* esp_tls_conn_write(): C encrypts the first n and sends them if it can.  *)
(* When it comes back for what it could not send it sends that. Either way *)
(* it says how much of the data of this call is written.                   *)
Flushed(n) == IF pend = <<>> THEN SubSeq(buf, 1, n) ELSE pend

WriteRaw(n) ==
    /\ IF room
       THEN /\ wire' = wire \o Flushed(n)
            /\ pend' = <<>>
            /\ written' = written + Len(Flushed(n))
            /\ buf' = SubSeq(buf, Len(Flushed(n)) + 1, Len(buf))
            /\ wr' = IF buf' = <<>> THEN "idle" ELSE "polling"
            /\ room' \in BOOLEAN
       ELSE /\ pend' = Flushed(n)
            /\ wr' = "writable"
            /\ UNCHANGED <<wire, written, buf, room>>

Write ==
    /\ wr = "polling"
    /\ \E n \in 1 .. Len(buf) : WriteRaw(n)
    /\ UNCHANGED <<handshake, reading, incoming, eof>>

PollWrite ==
    /\ wr = "writable"
    /\ wr' = IF room THEN "polling" ELSE "asleep"
    /\ UNCHANGED <<handshake, buf, pend, wire, written, reading, socket>>

(* drop(): the socket gives itself up, and esp_tls_conn_destroy() closes   *)
(* it. The futures borrow the session and are gone.                        *)
Release == owner' = "tls"

Drop ==
    /\ session \in {"connecting", "connected", "failed"}
    /\ {neg, rd, wr} = {"idle"}
    /\ Release
    /\ session' = "dropped"
    /\ UNCHANGED <<side, bufs, flights, alpn, neg, writing, reading, socket>>

ConnDestroy ==
    /\ session = "dropped"
    /\ session' = "none" /\ owner' = "nobody" /\ side' = "none"
    /\ buf' = <<>> /\ pend' = <<>> /\ wire' = <<>> /\ written' = 0
    /\ incoming' = 0 /\ read' = 0 /\ room' = TRUE /\ eof' = FALSE
    /\ UNCHANGED <<bufs, flights, alpn, neg, rd, wr>>

-----------------------------------------------------------------------------
(* The peer sends, closes and makes room, and the socket wakes. *)
Open == session \notin {"none", "dropped"}

PeerSends ==
    /\ Open /\ ~ eof
    /\ \/ incoming + read < MaxData /\ incoming' = incoming + 1 /\ UNCHANGED eof
       \/ eof' = TRUE /\ UNCHANGED incoming
    /\ rd' = IF rd = "asleep" THEN "polling" ELSE rd
    /\ neg' = IF neg = "asleep readable" THEN "polling" ELSE neg
    /\ UNCHANGED <<session, owner, side, bufs, flights, alpn, writing, read, room>>

PeerReads ==
    /\ Open /\ ~ room
    /\ room' = TRUE
    /\ wr' = IF wr = "asleep" THEN "polling" ELSE wr
    /\ neg' = IF neg = "asleep writable" THEN "polling" ELSE neg
    /\ UNCHANGED <<session, owner, side, bufs, flights, alpn, buf, pend, wire, written,
                   reading, incoming, eof>>

-----------------------------------------------------------------------------
Negotiation ==
    \/ Flight \/ PollNegotiate
    \/ \E direction \in {"readable", "writable"} : Wants(direction)
    \/ \E protocol \in Protocols \union {None} : Negotiated(protocol)

Next ==
    \/ \E o \in {"socket", "tls"} : New(o)
    \/ \E s \in {"client", "server"} : Negotiate(s)
    \/ Negotiation \/ NegotiateFails
    \/ Read \/ ReadRaw \/ PollRead \/ CancelRead
    \/ \E n \in 1 .. 2 : WriteAll(n)
    \/ Write \/ PollWrite
    \/ Drop \/ ConnDestroy
    \/ PeerSends \/ PeerReads

Spec == Init /\ [][Next]_vars

(* The tasks are polled, and the peer goes on until it closes. A handshake *)
(* goes on when it can: C does not say for ever that it cannot tell.       *)
Fairness ==
    /\ WF_vars(ReadRaw \/ PollRead) /\ WF_vars(Write \/ PollWrite)
    /\ WF_vars(Negotiation) /\ SF_vars(Flight)
    /\ SF_vars(\E protocol \in Protocols \union {None} : Negotiated(protocol))
    /\ WF_vars(PeerSends) /\ WF_vars(PeerReads)

-----------------------------------------------------------------------------
(* Properties *)

(* The values the variables take. *)
TypeOK ==
    /\ session \in {"none", "connecting", "connected", "failed", "dropped"}
    /\ owner \in {"nobody", "socket", "tls"}
    /\ side \in {"none", "client", "server"}
    /\ flights \in 0 .. MaxFlights
    /\ alpn \in (Protocols \ LongNames) \union {None}
    /\ neg \in {"idle", "polling", "readable", "writable", "asleep readable",
                "asleep writable"}
    /\ rd \in {"idle", "polling", "readable", "asleep"}
    /\ wr \in {"idle", "polling", "writable", "asleep"}
    /\ bufs \in BOOLEAN /\ room \in BOOLEAN /\ eof \in BOOLEAN
    /\ written \in 0 .. MaxData /\ incoming \in 0 .. MaxData /\ read \in 0 .. MaxData
    /\ buf \in Seq(1 .. MaxData) /\ pend \in Seq(1 .. MaxData)
    /\ wire \in Seq(1 .. MaxData)

(* C reads the protocols and the name while the handshake goes on, also    *)
(* between the polls of negotiate(): the buffers a client has them in are  *)
(* there. Those of a server are not.                                       *)
BufsAreHeld ==
    neg # "idle" => session = "connecting" /\ (side = "client" => bufs)

(* What has been sent are the data in their order, and all of those that   *)
(* the application was told are written, although it asked more than once. *)
WireIsInOrder ==
    /\ wire \o pend = Upto(Len(wire) + Len(pend))
    /\ written = Len(wire)
    /\ wr = "idle" => pend = <<>>

(* The socket is closed by C alone, when nobody uses it.                   *)
ClosedOnce == session = "dropped" => owner = "tls" /\ {neg, rd, wr} = {"idle"}

(* Reads, writes and handshakes come back: no task sleeps while what it    *)
(* waits for is there.                                                     *)
CallsReturn ==
    /\ rd # "idle" ~> rd = "idle"
    /\ wr # "idle" ~> wr = "idle"
    /\ neg # "idle" ~> neg = "idle"
=============================================================================
