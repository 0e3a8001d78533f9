----------------------------- MODULE HttpClient -----------------------------
(***************************************************************************)
(* EspHttpConnection of src/src/http/client.rs, the phases of a request on  *)
(* a connection that is used again and again, and what has gone out on the *)
(* wire. Any call of the C client may fail.                                *)
(***************************************************************************)
EXTENDS Naturals

CONSTANTS
    Policies    \* the values of follow_redirects_policy

(* What the constants are required to be. *)
PoliciesAssumption ==
    Policies \subseteq {"FollowNone", "FollowGetHead", "FollowAll"}

VARIABLES
    policy,     \* follow_redirects_policy
    state,      \* State
    rawBody,    \* raw_request_body: the application frames the body
    framing,    \* request_content_len: -1 is "chunked"
    follow,     \* follow_redirects
    handler,    \* event_handler is Some
    headers,    \* whose headers are in the map: of this response or before
    length,     \* whose Content-Length is cached
    pc,         \* where initiate_response() is
    wire,       \* the request on the wire; two ends stand for more than one
    unread      \* some of the response has not been read

vars == <<policy, rawBody, state, framing, follow, handler, headers, length, pc,
          wire, unread>>

Request(method, fr) == [method |-> method, framing |-> fr, ends |-> 0, broken |-> FALSE]

Init ==
    /\ policy \in Policies /\ rawBody \in BOOLEAN
    /\ state = "New"
    /\ framing = "chunked"
    /\ follow = FALSE /\ handler = FALSE
    /\ headers = {} /\ length = "none"
    /\ pc = "idle"
    /\ wire = Request("GET", "none")
    /\ unread = FALSE

(* What was of this response is of one before. *)
Aged(whose) == IF whose = "this" THEN "before" ELSE whose

(* Only a POST without a Content-Length is chunked. *)
Framings(method) == {"fixed", IF method = "POST" THEN "chunked" ELSE "none"}

Follows(method) ==
    \/ policy = "FollowAll"
    \/ policy = "FollowGetHead" /\ method = "GET"

(* The C client opens a request. *)
Open(method, fr) ==
    /\ wire' = Request(method, fr)
    /\ length' = Aged(length)

-----------------------------------------------------------------------------
(* Variants with a bug. *)

(* The cached Content-Length is not forgotten. *)
ForgetHeadersOnly == headers' = {} /\ UNCHANGED length

-----------------------------------------------------------------------------
(* initiate_request(), with or without a Content-Length: what is left of    *)
(* the response before is flushed, and the request opened.                 *)
InitiateRequest(method, fr) ==
    /\ pc = "idle" /\ state \in {"New", "Response"}
    /\ framing' = fr
    /\ follow' = Follows(method)
    /\ unread' = IF state = "Response" THEN FALSE ELSE unread
    /\ Open(method, fr)
    /\ headers' = {Aged(w) : w \in headers}
    /\ state' = "Request"
    /\ UNCHANGED <<policy, rawBody, handler, pc>>

(* The flush fails, which changes nothing, or open() when all the rest is   *)
(* done.                                                                   *)
OpenFails(method, fr) ==
    /\ pc = "idle" /\ state \in {"New", "Response"}
    /\ framing' = fr
    /\ follow' = Follows(method)
    /\ unread' = IF state = "Response" THEN FALSE ELSE unread
    /\ UNCHANGED <<policy, rawBody, state, handler, headers, length, pc, wire>>

(* write() and flush() frame the body, unless the application does. *)
Chunks == ~ rawBody /\ framing = "chunked"

(* write(): a chunk is several writes of the C client, of which one may    *)
(* fail. Otherwise it is one, whose result the application sees.           *)
Write ==
    /\ pc = "idle" /\ state = "Request"
    /\ \/ UNCHANGED wire
       \/ Chunks /\ wire' = [wire EXCEPT !.broken = TRUE]
    /\ UNCHANGED <<policy, rawBody, state, framing, follow, handler, headers, length, pc,
                   unread>>

(* The headers and the Content-Length of the response before are dropped.  *)
ForgetHeaders == headers' = {} /\ length' = "none"

(* initiate_response(): flush() ends a chunked body ...                    *)
Flush ==
    /\ pc = "idle" /\ state = "Request"
    /\ wire' = IF Chunks
               THEN [wire EXCEPT !.ends = IF @ = 0 THEN 1 ELSE 2] ELSE wire
    /\ ForgetHeaders
    /\ pc' = "fetch"
    /\ UNCHANGED <<policy, rawBody, state, framing, follow, handler, unread>>

FlushBreaks ==
    /\ pc = "idle" /\ state = "Request" /\ Chunks
    /\ wire' = [wire EXCEPT !.broken = TRUE]
    /\ UNCHANGED <<policy, rawBody, state, framing, follow, handler, headers, length, pc,
                   unread>>

(* ... and fetch_headers() has them inserted by a handler ...              *)
Fetch ==
    /\ pc = "fetch"
    /\ handler' = TRUE
    /\ pc' = "fetching"
    /\ UNCHANGED <<policy, rawBody, state, framing, follow, headers, length, wire, unread>>

OnHeader ==
    /\ pc = "fetching" /\ handler
    /\ headers' = headers \union {"this"}
    /\ unread' = TRUE
    /\ UNCHANGED <<policy, rawBody, state, framing, follow, handler, length, pc, wire>>

(* ... that is deregistered whatever comes of it. *)
FetchFails ==
    /\ pc = "fetching"
    /\ handler' = FALSE
    /\ pc' = "idle"
    /\ UNCHANGED <<policy, rawBody, state, framing, follow, headers, length, wire, unread>>

Fetched ==
    /\ pc = "fetching"
    /\ handler' = FALSE
    /\ pc' = "idle"
    /\ state' = "Response"
    /\ unread' = TRUE
    /\ UNCHANGED <<policy, rawBody, framing, follow, headers, length, wire>>

FetchedRedirect ==
    /\ pc = "fetching" /\ follow
    /\ handler' = FALSE
    /\ pc' = "redirect"
    /\ unread' = TRUE
    /\ UNCHANGED <<policy, rawBody, state, framing, follow, headers, length, wire>>

(* A redirect is followed: flush, then open a GET as the request was. *)
Redirect ==
    /\ pc = "redirect"
    /\ \/ Open("GET", framing) /\ unread' = FALSE /\ headers' = {} /\ pc' = "fetch"
       \/ unread' \in {unread, FALSE} /\ pc' = "idle"
          /\ UNCHANGED <<wire, headers, length>>
    /\ UNCHANGED <<policy, rawBody, state, framing, follow, handler>>

(* header("Content-Length") of the response is cached. *)
ContentLength ==
    /\ pc = "idle" /\ state = "Response"
    /\ length' = IF length = "none" THEN "this" ELSE length
    /\ UNCHANGED <<policy, rawBody, state, framing, follow, handler, headers, pc, wire,
                   unread>>

Read ==
    /\ pc = "idle" /\ state = "Response"
    /\ unread' \in {unread, FALSE}
    /\ UNCHANGED <<policy, rawBody, state, framing, follow, handler, headers, length, pc,
                   wire>>

Next ==
    \/ \E method \in {"GET", "POST"} : \E fr \in Framings(method) :
          InitiateRequest(method, fr) \/ OpenFails(method, fr)
    \/ Write \/ Flush \/ FlushBreaks
    \/ Fetch \/ OnHeader \/ FetchFails \/ Fetched \/ FetchedRedirect \/ Redirect
    \/ ContentLength \/ Read

Spec == Init /\ [][Next]_vars

-----------------------------------------------------------------------------
(* Properties *)

(* The values the variables take. *)
TypeOK ==
    /\ policy \in Policies /\ rawBody \in BOOLEAN
    /\ state \in {"New", "Request", "Response"}
    /\ framing \in {"none", "fixed", "chunked"}
    /\ follow \in BOOLEAN /\ handler \in BOOLEAN /\ unread \in BOOLEAN
    /\ headers \subseteq {"this", "before"}
    /\ length \in {"none", "this", "before"}
    /\ pc \in {"idle", "fetch", "fetching", "redirect"}
    /\ wire \in [method : {"GET", "POST"}, framing : {"none", "fixed", "chunked"},
                ends : 0 .. 2, broken : BOOLEAN]

(* The response is awaited only when all of the request is on the wire; of *)
(* a raw body the end is the application's, and no other is sent.          *)
(* client.rs:288: a content length of -1 "means chunked encoding", and     *)
(* client.rs:387: flush() is to "Finish the chunked-encoded stream".       *)
RequestIsComplete ==
    pc = "fetching" /\ ~ wire.broken =>
        (~ rawBody /\ wire.framing = "chunked" <=> wire.ends > 0)

(* header() tells of the last response, whatever failed in between. *)
HeadersAreFresh ==
    state = "Response" => headers \subseteq {"this"} /\ length \in {"none", "this"}

(* The handler, which points into the connection, is there only while the  *)
(* headers are fetched: the connection may move at any other time.         *)
HandlerIsScoped == handler => pc = "fetching"
=============================================================================
