------------------------------ MODULE RpcAsync ------------------------------
(***************************************************************************)
(* The asynchronous JSON-RPC client of rpc.c: broadcasts to one Bitcoin    *)
(* node whose clients authenticate with a cookie file, from the call of    *)
(* rpc_manager_broadcast_async to the caller's callback.                   *)
(*                                                                         *)
(* Every action is one libevent callback or one call into the API.  The    *)
(* node is external: it serves a request that reached it at any time, also *)
(* after the client has given up, and a restart changes its cookie and the *)
(* cookie file.  A response is reduced to what the parser makes of it.     *)
(***************************************************************************)
EXTENDS Integers, FiniteSets

CONSTANTS Request,        \* calls of rpc_manager_broadcast_async
          MaxRestarts     \* bound: restarts of the node

ASSUME RpcAssumption == IsFiniteSet(Request) /\ MaxRestarts \in Nat

VARIABLES
    req,                  \* the RPCRequest objects
    active_requests,      \* the manager's list
    auth_header,          \* client->auth_header: the version of the cookie
    total_broadcasts, successful_broadcasts, failed_broadcasts,
    cookie,               \* external: the node's cookie and cookie file
    served,               \* external: what the node answers, when it does
    accepted,             \* external: times the node took the transaction
    fired, status         \* history: callbacks of a request, its status

stats == <<total_broadcasts, successful_broadcasts, failed_broadcasts>>
node  == <<cookie, served, accepted>>
vars  == <<req, active_requests, auth_header, stats, node, fired, status>>

Cookies == 0..MaxRestarts

(* A reply as parse_jsonrpc_response sees it: a result, an error object,   *)
(* neither of them, a response without a body, or status 401 or 403.       *)
Reply == {"result", "error", "noresult", "malformed", "unauthorized"}
Status == {"OK", "ERR_CONNECT", "ERR_AUTH", "ERR_TIMEOUT", "ERR_PARSE",
           "ERR_NODE", "ERR_MEMORY"}

RPCRequest ==
    [phase : {"unused", "connecting", "sent", "freed"},
     response : Reply \cup {"empty"},  \* what has been read so far
     header : Cookies,                 \* the cookie in the request sent
     auth_retried : BOOLEAN,
     refreshed : Cookies,              \* history: the cookie it re-read
     timer : BOOLEAN,                  \* timeout_ev is pending
     cancelled : BOOLEAN]              \* history

TypeOK ==
    /\ req \in [Request -> RPCRequest]
    /\ active_requests \subseteq Request
    /\ auth_header \in Cookies
    /\ total_broadcasts \in Nat
    /\ successful_broadcasts \in Nat
    /\ failed_broadcasts \in Nat
    /\ cookie \in Cookies
    /\ served \in [Request -> Reply \cup {"none", "pending"}]
    /\ accepted \in [Request -> Nat]
    /\ fired \in [Request -> Nat]
    /\ status \in [Request -> Status \cup {"none"}]

(* rpc_manager_init_async read the cookie file.                            *)
Init ==
    /\ req = [r \in Request |->
                [phase |-> "unused", response |-> "empty", header |-> 0,
                 auth_retried |-> FALSE, refreshed |-> 0, timer |-> FALSE,
                 cancelled |-> FALSE]]
    /\ active_requests = {}
    /\ auth_header = 0
    /\ total_broadcasts = 0
    /\ successful_broadcasts = 0
    /\ failed_broadcasts = 0
    /\ cookie = 0
    /\ served = [r \in Request |-> "none"]
    /\ accepted = [r \in Request |-> 0]
    /\ fired = [r \in Request |-> 0]
    /\ status = [r \in Request |-> "none"]

InFlight(r) == req[r].phase \in {"connecting", "sent"}
-----------------------------------------------------------------------------
(* The node.                                                               *)

(* The node is restarted and writes a new cookie.                          *)
node_restarts ==
    /\ cookie < MaxRestarts
    /\ cookie' = cookie + 1
    /\ UNCHANGED <<req, active_requests, auth_header, stats, served, accepted,
                   fired, status>>

(* It serves a request that has reached it, unless the cookie is stale     *)
(* (401), or it has reasons of its own to refuse (403).                    *)
node_serves(r, reply) ==
    /\ served[r] = "pending"
    /\ req[r].header # cookie => reply = "unauthorized"
    /\ served' = [served EXCEPT ![r] = reply]
    /\ accepted' = [accepted EXCEPT ![r] = @ + (IF reply = "result" THEN 1 ELSE 0)]
    /\ UNCHANGED <<req, active_requests, auth_header, stats, cookie, fired, status>>
-----------------------------------------------------------------------------
(* The client.                                                             *)

(* Faulty variant: the object is freed but stays in the list.              *)
FaultyComplete(r, st) ==
    /\ active_requests' = active_requests
    /\ fired' = [fired EXCEPT ![r] = @ + 1]
    /\ status' = [status EXCEPT ![r] = st]
    /\ req' = [req EXCEPT ![r].phase = "freed", ![r].timer = FALSE]

(* rpc_request_complete: out of the list, the callback, rpc_request_free,  *)
(* which removes the socket and the timer.                                 *)
rpc_request_complete(r, st) ==
    /\ active_requests' = active_requests \ {r}
    /\ fired' = [fired EXCEPT ![r] = @ + 1]
    /\ status' = [status EXCEPT ![r] = st]
    /\ req' = [req EXCEPT ![r].phase = "freed", ![r].timer = FALSE]

(* rpc_async_connect, when it succeeds: a new socket and a new timer,      *)
(* unless no memory is left for it (t is FALSE).                           *)
rpc_async_connect(x, t) ==
    [x EXCEPT !.phase = "connecting", !.response = "empty", !.timer = t]

(* rpc_manager_broadcast_async: the request is on its way ...              *)
rpc_manager_broadcast_async(r) ==
    /\ req[r].phase = "unused"
    /\ \E t \in BOOLEAN : req' = [req EXCEPT ![r] = rpc_async_connect(@, t)]
    /\ active_requests' = active_requests \cup {r}
    /\ total_broadcasts' = total_broadcasts + 1
    /\ UNCHANGED <<auth_header, successful_broadcasts, failed_broadcasts, node,
                   fired, status>>

(* ... or there is no client for the chain, or no memory ...               *)
broadcast_refused(r, st) ==
    /\ req[r].phase = "unused"
    /\ rpc_request_complete(r, st)
    /\ UNCHANGED <<auth_header, stats, node>>

(* ... or the host was not resolved or the connection fails at once.       *)
broadcast_no_connection(r) ==
    /\ req[r].phase = "unused"
    /\ rpc_request_complete(r, "ERR_CONNECT")
    /\ total_broadcasts' = total_broadcasts + 1
    /\ failed_broadcasts' = failed_broadcasts + 1
    /\ UNCHANGED <<auth_header, successful_broadcasts, node>>

(* BEV_EVENT_CONNECTED: send the request, with the header of the moment.   *)
event_connected(r) ==
    /\ req[r].phase = "connecting"
    /\ \/ /\ req' = [req EXCEPT ![r].phase = "sent", ![r].header = auth_header]
          /\ served' = [served EXCEPT ![r] = "pending"]
          /\ UNCHANGED <<active_requests, fired, status>>
       \/ /\ rpc_request_complete(r, "ERR_MEMORY")
          /\ UNCHANGED served
    /\ UNCHANGED <<auth_header, stats, cookie, accepted>>

(* BEV_EVENT_ERROR.                                                        *)
event_error(r) ==
    /\ InFlight(r)
    /\ rpc_request_complete(r, "ERR_CONNECT")
    /\ UNCHANGED <<auth_header, stats, node>>

(* Faulty variant: the event is logged and forgotten.                      *)
FaultyEventTimeout(r) == InFlight(r) /\ UNCHANGED vars

(* BEV_EVENT_TIMEOUT: nothing moved on the socket for timeout_sec.         *)
event_timeout(r) ==
    /\ InFlight(r)
    /\ rpc_request_complete(r, "ERR_TIMEOUT")
    /\ UNCHANGED <<auth_header, stats, node>>

(* The overall timer.                                                      *)
rpc_async_timeout_cb(r) ==
    /\ req[r].timer
    /\ rpc_request_complete(r, "ERR_TIMEOUT")
    /\ UNCHANGED <<auth_header, stats, node>>

(* rpc_async_read_cb: more of the response.  A piece that ends in the      *)
(* headers looks malformed, one that ends in the body has no result yet.   *)
Pieces(r) ==
    IF served[r] = "unauthorized" THEN {"malformed", "unauthorized"}
                                  ELSE {"malformed", "noresult", served[r]}

rpc_async_read_cb(r, piece) ==
    /\ req[r].phase = "sent"
    /\ served[r] \in Reply
    /\ req[r].response # served[r]
    /\ piece \in Pieces(r) \ {req[r].response}
    /\ req[r].response = "noresult" => piece # "malformed"
    /\ \/ /\ req' = [req EXCEPT ![r].response = piece]
          /\ UNCHANGED <<active_requests, fired, status>>
       \/ rpc_request_complete(r, "ERR_MEMORY")
    /\ UNCHANGED <<auth_header, stats, node>>

(* Faulty variant: a request that got no answer is sent again.             *)
FaultyWantsRetry(r) ==
    /\ req[r].response \in {"unauthorized", "malformed"}
    /\ ~req[r].auth_retried

(* The node refused the request for the first time.                        *)
wants_retry(r) ==
    /\ req[r].response = "unauthorized"
    /\ ~req[r].auth_retried

(* Faulty variant: the cookie is kept.                                     *)
FaultyRefresh == auth_header

(* What rpc_refresh_cookie reads, when it can.                             *)
rpc_refresh_cookie == cookie

(* BEV_EVENT_EOF: rpc_async_process_response.  The first refusal: the      *)
(* cookie is read again, and the request is sent again if the connection   *)
(* can be made.                                                            *)
process_retry(r) ==
    /\ req[r].phase = "sent"
    /\ wants_retry(r)
    /\ auth_header' = rpc_refresh_cookie
    /\ \/ /\ \E t \in BOOLEAN :
                req' = [req EXCEPT ![r] =
                          [rpc_async_connect(@, t) EXCEPT !.auth_retried = TRUE,
                                                          !.refreshed = cookie]]
          /\ served' = [served EXCEPT ![r] = "none"]
          /\ UNCHANGED <<active_requests, fired, status>>
       \/ /\ rpc_request_complete(r, "ERR_AUTH")
          /\ UNCHANGED served
    /\ UNCHANGED <<stats, cookie, accepted>>

(* The second refusal, or the first when the cookie file cannot be read.   *)
process_refused(r) ==
    /\ req[r].phase = "sent"
    /\ req[r].response = "unauthorized"
    /\ rpc_request_complete(r, "ERR_AUTH")
    /\ UNCHANGED <<auth_header, stats, node>>

(* Faulty variant: the parser's verdict is passed on as the status.        *)
FaultyAnswer(r) ==
    /\ req[r].phase = "sent"
    /\ req[r].response # "unauthorized"
    /\ rpc_request_complete(r, req[r].response)
    /\ UNCHANGED <<auth_header, stats, node>>

(* Everything else.  The value that parse_jsonrpc_response returns is used *)
(* only when it has found an error object.                                 *)
process_answer(r) ==
    /\ req[r].phase = "sent"
    /\ req[r].response # "unauthorized"
    /\ rpc_request_complete(r,
          CASE req[r].response = "empty"     -> "ERR_CONNECT"
            [] req[r].response = "malformed" -> "ERR_PARSE"
            [] req[r].response = "error"     -> "ERR_NODE"
            [] OTHER                         -> "OK")
    /\ UNCHANGED <<auth_header, stats, node>>

(* Faulty variant: the callback is not cleared.                            *)
FaultyCancel(r) ==
    /\ InFlight(r)
    /\ active_requests' = active_requests \ {r}
    /\ fired' = [fired EXCEPT ![r] = @ + 1]
    /\ req' = [req EXCEPT ![r].phase = "freed", ![r].timer = FALSE,
                          ![r].cancelled = TRUE]
    /\ UNCHANGED <<auth_header, stats, node, status>>

(* rpc_request_cancel by the holder of the handle.                         *)
rpc_request_cancel(r) ==
    /\ InFlight(r)
    /\ active_requests' = active_requests \ {r}
    /\ req' = [req EXCEPT ![r].phase = "freed", ![r].timer = FALSE,
                          ![r].cancelled = TRUE]
    /\ UNCHANGED <<auth_header, stats, node, fired, status>>

(* The worker is leaving.                                                  *)
rpc_manager_cancel_all ==
    /\ active_requests # {}
    /\ active_requests' = {}
    /\ req' = [r \in Request |->
                  IF r \in active_requests
                  THEN [req[r] EXCEPT !.phase = "freed", !.timer = FALSE,
                                      !.cancelled = TRUE]
                  ELSE req[r]]
    /\ UNCHANGED <<auth_header, stats, node, fired, status>>

(* Every request has ended and the node has nothing left to do.            *)
Done ==
    /\ \A r \in Request : req[r].phase = "freed"
    /\ UNCHANGED vars

Next ==
    \/ node_restarts
    \/ \E r \in Request :
          \/ \E reply \in Reply : node_serves(r, reply)
          \/ rpc_manager_broadcast_async(r)
          \/ \E st \in {"ERR_CONNECT", "ERR_MEMORY"} : broadcast_refused(r, st)
          \/ broadcast_no_connection(r)
          \/ event_connected(r)
          \/ event_error(r)
          \/ event_timeout(r)
          \/ rpc_async_timeout_cb(r)
          \/ \E piece \in Reply : rpc_async_read_cb(r, piece)
          \/ process_retry(r)
          \/ process_refused(r)
          \/ process_answer(r)
          \/ rpc_request_cancel(r)
    \/ rpc_manager_cancel_all
    \/ Done

Spec == Init /\ [][Next]_vars

(* libevent fires a pending timer, and reports a socket on which nothing   *)
(* moves.  Of the node it is assumed only that a response is finite: one   *)
(* that trickled for ever would keep the socket moving, and only a request *)
(* that got its overall timer would end.                                   *)
Fairness ==
    \A r \in Request :
        WF_vars(event_timeout(r)) /\ WF_vars(rpc_async_timeout_cb(r))

FairSpec == Spec /\ Fairness
-----------------------------------------------------------------------------
(* Properties.                                                             *)

(* "Callback fires when the RPC completes (or fails/times out)", and it    *)
(* fires once: the timer, the socket and the caller's cancellation cannot  *)
(* both end a request, and a cancelled one stays silent.                   *)
CallbackOnce ==
    \A r \in Request :
        fired[r] = IF req[r].phase = "freed" /\ ~req[r].cancelled THEN 1 ELSE 0

(* The manager's list holds exactly the requests in flight: none is leaked *)
(* and rpc_manager_cancel_all never reaches a freed one.                   *)
ListExact == active_requests = {r \in Request : InFlight(r)}

(* A transaction is never handed to the node twice: the only thing sent    *)
(* again is a request the node refused to look at.                         *)
SubmittedOnce == \A r \in Request : accepted[r] <= 1

(* A retry uses what it re-read: when its cookie is refused again, the     *)
(* node was restarted once more since; if the node refuses it with the     *)
(* cookie of the moment, it is for another reason.                         *)
SecondRefusalIsNew ==
    [][\A r \in Request :
          (/\ req[r].auth_retried /\ served[r] = "pending"
           /\ served'[r] = "unauthorized" /\ req[r].header # cookie)
          => cookie > req[r].refreshed]_vars

(* Every request in flight ends.                                           *)
RequestEnds == \A r \in Request : InFlight(r) ~> (req[r].phase = "freed")
-----------------------------------------------------------------------------
(* What the documentation says and the code does not do.                   *)

(* "0 on success ... RPC_ERR_* on failure": a broadcast reported as        *)
(* RPC_OK was accepted by the node.                                        *)
OkMeansAccepted == \A r \in Request : status[r] = "OK" => accepted[r] = 1
=============================================================================
