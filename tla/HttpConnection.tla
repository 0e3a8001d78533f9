--------------------------- MODULE HttpConnection ---------------------------
(***************************************************************************)
(* EspHttpConnection of src/src/http/server.rs: one request, its handler    *)
(* and its response. The C server gets pointers to the status and the       *)
(* headers, and reads them when it sends the first bytes of the response;  *)
(* until then the connection keeps the strings alive.                      *)
(***************************************************************************)
EXTENDS Naturals, FiniteSets

CONSTANTS
    MaxHeaders,     \* bound: the headers of one initiate_response()
    MaxCalls        \* bound: the calls of initiate_response() of a handler

(* What the constants are required to be. *)
ConnectionAssumption == {MaxHeaders, MaxCalls} \subseteq Nat

VARIABLES
    pc,             \* who runs: the handler or what follows it
    phase,          \* whether headers is Some ("request") or None
    calls,          \* the number of calls of initiate_response()
    kept,           \* response_headers: the calls whose strings are alive
    status,         \* the call that set the status the C server holds
    held,           \* the headers the C server holds, as <<call, n>>
    sent,           \* how often the status and headers were sent
    ended,          \* how often the end of the response was sent
    code,           \* history: what status was sent
    dangling,       \* history: sent from a string that was gone
    failed,         \* history: a send failed
    rejected,       \* history: a call of initiate_response() failed
    refused         \* history: the handler failed and the response was open

vars == <<pc, phase, calls, kept, status, held, sent, ended, code, dangling,
          failed, rejected, refused>>

Fresh == 0      \* the status before any call: 200, not a pointer

Error == MaxCalls + 1   \* the call of render_error()

Init ==
    /\ pc = "handler" /\ phase = "request"
    /\ calls = 0 /\ kept = {}
    /\ status = Fresh /\ held = {}
    /\ sent = 0 /\ ended = 0
    /\ code = "none"
    /\ dangling = FALSE /\ failed = FALSE
    /\ rejected = FALSE /\ refused = FALSE

(* The C server sends what it holds. *)
SendHeaders ==
    /\ sent' = sent + 1
    /\ code' = IF status = Error THEN "error" ELSE "handler"
    /\ dangling' = (dangling \/ ~ {h[1] : h \in held} \union {status}
                                    \subseteq kept \union {Fresh})

SendNothing == UNCHANGED <<sent, code, dangling>>

-----------------------------------------------------------------------------
(* Variants with a bug. *)

(* The strings are dropped when the call returns. *)
InitiateDrops(call, n) ==
    /\ status' = call
    /\ held' = held \union {<<call, i>> : i \in 1 .. n}
    /\ phase' = "response"
    /\ kept' = {}

-----------------------------------------------------------------------------
(* initiate_response(): the status and the headers are handed to the C     *)
(* server, and their strings kept.                                         *)
Initiate(call, n) ==
    /\ status' = call
    /\ held' = held \union {<<call, i>> : i \in 1 .. n}
    /\ phase' = "response"
    /\ kept' = {call}

InitiateResponse ==
    /\ pc = "handler" /\ phase = "request"
    /\ calls < MaxCalls
    /\ calls' = calls + 1
    /\ \E n \in 0 .. MaxHeaders : Initiate(calls', n)
    /\ UNCHANGED <<pc, sent, ended, code, dangling, failed, rejected, refused>>

(* When a header is no C string, or the C server has no room for it, the    *)
(* call fails: its strings are dropped, and the C server keeps the pointers*)
(* it has got.                                                             *)
InitiateFails ==
    /\ pc = "handler" /\ phase = "request"
    /\ calls < MaxCalls
    /\ calls' = calls + 1
    /\ status' = calls'
    /\ \E n \in 0 .. MaxHeaders - 1 :
          held' = held \union {<<calls', i>> : i \in 1 .. n}
    /\ rejected' = TRUE
    /\ UNCHANGED <<pc, phase, kept, sent, ended, code, dangling, failed, refused>>

(* A chunk is sent, after the headers if it is the first. If that fails the*)
(* headers may have gone out.                                              *)
SendFirst == IF sent = 0 THEN SendHeaders ELSE SendNothing

WriteChunk ==
    \/ /\ SendFirst
       /\ kept' = {}
       /\ UNCHANGED failed
    \/ /\ SendFirst \/ SendNothing
       /\ failed' = TRUE
       /\ UNCHANGED kept

Write ==
    /\ pc = "handler" /\ phase = "response"
    /\ WriteChunk
    /\ UNCHANGED <<pc, phase, calls, status, held, ended, rejected, refused>>

HandlerReturns ==
    /\ pc = "handler"
    /\ pc' \in {"complete", "error"}
    /\ refused' = (pc' = "error" /\ phase = "request")
    /\ UNCHANGED <<phase, calls, kept, status, held, sent, ended, code,
                   dangling, failed, rejected>>

(* handle_error(): render_error(), unless the response was initiated.       *)
Render ==
    IF phase = "request"
    THEN /\ Initiate(Error, 0)
         /\ pc' = IF pc = "error" THEN "render" ELSE "rerender"
    ELSE /\ pc' = IF pc = "error" THEN "complete" ELSE "done"
         /\ UNCHANGED <<phase, kept, status, held>>

HandleError ==
    /\ pc = "error"
    /\ Render
    /\ UNCHANGED <<calls, sent, ended, code, dangling, failed, rejected, refused>>

(* complete() failed *)
HandleFailure ==
    /\ pc = "failed"
    /\ Render
    /\ UNCHANGED <<calls, sent, ended, code, dangling, failed, rejected, refused>>

(* The body of the rendered error. *)
RenderBody ==
    /\ pc \in {"render", "rerender"}
    /\ WriteChunk
    /\ pc' = IF pc = "render" THEN "complete" ELSE "done"
    /\ UNCHANGED <<phase, calls, status, held, ended, rejected, refused>>

(* complete(): an initiated response of which nothing was written is sent  *)
(* whole, any other is ended.                                              *)
Complete ==
    /\ pc = "complete"
    /\ \/ /\ IF kept # {} THEN SendHeaders ELSE SendFirst
          /\ ended' = ended + 1
          /\ kept' = {}
          /\ pc' = "done"
          /\ UNCHANGED failed
       \/ /\ IF kept # {} THEN SendHeaders \/ SendNothing
                          ELSE SendFirst \/ SendNothing
          /\ failed' = TRUE
          /\ pc' = "failed"
          /\ UNCHANGED <<kept, ended>>
    /\ UNCHANGED <<phase, calls, status, held, rejected, refused>>

Next ==
    \/ InitiateResponse \/ InitiateFails \/ Write \/ HandlerReturns
    \/ HandleError \/ HandleFailure \/ RenderBody \/ Complete

Spec == Init /\ [][Next]_vars

-----------------------------------------------------------------------------
(* Properties *)

(* The values the variables take. *)
TypeOK ==
    /\ pc \in {"handler", "error", "render", "complete", "failed",
               "rerender", "done"}
    /\ phase \in {"request", "response"}
    /\ calls \in 0 .. MaxCalls
    /\ kept \subseteq 1 .. Error
    /\ status \in Fresh .. Error
    /\ held \subseteq (1 .. Error) \X (1 .. MaxHeaders)
    /\ sent \in Nat /\ ended \in Nat
    /\ code \in {"none", "handler", "error"}
    /\ dangling \in BOOLEAN /\ failed \in BOOLEAN
    /\ rejected \in BOOLEAN /\ refused \in BOOLEAN

(* Unless a send fails the client gets one response with one end. *)
OneResponse ==
    pc = "done" /\ ~ failed => sent = 1 /\ ended = 1

(* A handler that fails before it has initiated the response is answered   *)
(* with an error.                                                          *)
ErrorIsAnswered ==
    pc = "done" /\ refused /\ ~ failed => code = "error"

(* The C server reads no string that was dropped, unless a call of          *)
(* initiate_response() failed.                                             *)
HeadersAlive == ~ rejected => ~ dangling

(* server.rs:1084: is_response_initiated() returns true "if the response   *)
(* headers have been sent to the HTTP client".                             *)
InitiatedMeansSent == phase = "response" => sent > 0
=============================================================================
