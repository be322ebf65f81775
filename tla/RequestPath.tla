----------------------------- MODULE RequestPath -----------------------------
(***************************************************************************)
(* What a worker does with the path of a request, from the first bytes of  *)
(* it to the counters of /metrics: the early check for hexadecimal digits  *)
(* (validate_path_early, validate_hex_path), the router, the answer, and   *)
(* the accounting, for requests over HTTP/1.1 (connection.c) and over      *)
(* HTTP/2 (http2.c) side by side.  Slots, timers and byte counts are in    *)
(* the modules Worker and Http1Connection.                                 *)
(*                                                                         *)
(* A path is what the code tells apart of it: whether it starts with a     *)
(* slash, the word its content is or begins with, the length of the        *)
(* content, how many hexadecimal digits the content starts with (after a   *)
(* leading "tx/"), and for a challenge whether the token is well formed.   *)
(* Of the counters, those that no property tells apart are left out.       *)
(***************************************************************************)
EXTENDS Integers, FiniteSets

CONSTANTS Conns,                          \* HTTP/1.1 connections
          Streams,                        \* streams of one HTTP/2 connection
          Paths,                          \* the paths clients ask for
          Views,                          \* where a piece of a path may end
          MaxRequests                     \* bound on the requests

TXID_HEX_LENGTH == 64
MIN_TX_HEX_LENGTH == 164
AcmePrefix == 27                          \* ".well-known/acme-challenge/"
TxPrefix == 3                             \* "tx/"

Words == {"health", "ready", "version", "alive", "metrics", "docs", "status",
          "logos"}

(* A word of Words is the whole content, and has at most 7 characters.     *)
ASSUME RequestPathAssumption ==
    /\ Paths \subseteq [slash : BOOLEAN, word : Words \cup {"acme", "tx", "none"},
                        len : Nat, hex : Nat, token_ok : BOOLEAN]
    /\ \A p \in Paths : p.hex <= p.len
    /\ \A p \in Paths : p.word = "tx" => p.hex + TxPrefix <= p.len
    /\ \A p \in Paths : p.word \in Words => p.len <= 7
    /\ Views \subseteq Nat
    /\ MaxRequests \in Nat

VARIABLES
    h1,                  \* the connections
    h2,                  \* the streams
    metrics,             \* the counters of the worker
    draining,
    challenge,           \* the file a challenge names
    begun,               \* requests so far
    answered, dropped    \* history: responses made; those never counted

request_vars == <<h1, h2, metrics, draining, challenge, begun, answered, dropped>>

Methods == {"GET", "POST"}
NoPath == [slash |-> FALSE, word |-> "none", len |-> 0, hex |-> 0, token_ok |-> FALSE]

Statuses == {0, 200, 400, 404, 413, 500, 503}

(* A connection: `asked' and `seen' are what the client sent and how much  *)
(* of the path is in the buffer; `via' says where the response came from.  *)
Conn == [state : {"IDLE", "READING_HEADERS", "WRITING_RESPONSE", "CLOSING"},
         path : Paths \cup {NoPath}, asked : Methods \cup {"none"}, seen : Nat,
         method : Methods \cup {"none"}, response_status : Statuses,
         via : {"none", "validation", "route", "limits"}]

Stream == [state : {"IDLE", "OPEN", "REFUSED", "NO_SLOT", "HALF_CLOSED_REMOTE"},
           path : Paths \cup {NoPath}, method : Methods \cup {"none"},
           response_status : Statuses, sent : Statuses]

RequestTypeOK ==
    /\ h1 \in [Conns -> Conn]
    /\ h2 \in [Streams -> Stream]
    /\ metrics \in [latency_bucket_inf : Nat, endpoints : Nat, errors_parse : Nat,
                    status : [{"2xx", "4xx", "5xx"} -> Nat],
                    method : [{"get", "post", "other"} -> Nat]]
    /\ draining \in BOOLEAN
    /\ challenge \in {"absent", "empty", "present"}
    /\ begun \in 0..MaxRequests
    /\ answered \in Nat
    /\ dropped \in Nat

(* connection_init_common, h2_stream_new.                                  *)
NewConn == [state |-> "IDLE", path |-> NoPath, asked |-> "none", seen |-> 0,
            method |-> "none", response_status |-> 0, via |-> "none"]
NewStream == [state |-> "IDLE", path |-> NoPath, method |-> "none",
              response_status |-> 0, sent |-> 0]

RequestInit ==
    /\ h1 = [c \in Conns |-> NewConn]
    /\ h2 = [s \in Streams |-> NewStream]
    /\ metrics = [latency_bucket_inf |-> 0, endpoints |-> 0, errors_parse |-> 0,
                  status |-> [k \in {"2xx", "4xx", "5xx"} |-> 0],
                  method |-> [k \in {"get", "post", "other"} |-> 0]]
    /\ draining = FALSE
    /\ challenge = "absent"
    /\ begun = 0
    /\ answered = 0
    /\ dropped = 0
-----------------------------------------------------------------------------
(* The checks and the router, on paths.                                    *)

is_all_hex(p) == p.word \notin {"acme", "tx"} /\ p.hex = p.len

route_request(p) ==
    CASE ~p.slash -> "ERROR"
      [] p.slash /\ p.len = 0 -> "HOME"
      [] p.slash /\ p.word \in Words -> p.word
      [] p.slash /\ p.word = "acme" /\ p.len > AcmePrefix -> "ACME_CHALLENGE"
      [] p.slash /\ p.word = "tx" /\ p.len > TxPrefix ->
            IF p.len - TxPrefix = TXID_HEX_LENGTH /\ p.hex = p.len - TxPrefix
            THEN "RESULT" ELSE "ERROR"
      [] OTHER ->
            IF ~is_all_hex(p) \/ p.len % 2 # 0 THEN "ERROR"
            ELSE IF p.len = TXID_HEX_LENGTH THEN "RESULT"
            ELSE IF p.len >= MIN_TX_HEX_LENGTH THEN "BROADCAST"
            ELSE "ERROR"

(* Faulty variant: "tx/" is not allowed for.                               *)
FaultyEarly(p, n) == n < 64 \/ p.hex >= n

(* HTTP/1.1, with the first n characters of the content in the buffer.     *)
validate_path_early(p, n) ==
    \/ n < 64
    \/ IF p.word = "tx" THEN p.hex >= n - TxPrefix ELSE p.hex >= n

(* Faulty variant: a path of 64 characters is not checked.                 *)
FaultyHexPath(p) ==
    \/ p.len <= 64
    \/ IF p.word = "tx" THEN p.hex >= p.len - TxPrefix ELSE p.hex >= p.len

(* HTTP/2, on the whole path.                                              *)
validate_hex_path(p) ==
    \/ p.len < 64
    \/ IF p.word = "tx" THEN p.hex >= p.len - TxPrefix ELSE p.hex >= p.len

(* serve_acme_challenge and serve_acme_challenge_h2: a file that is not    *)
(* regular, too large, or shorter when it is read counts as absent.        *)
challenge_found(p) == p.token_ok /\ challenge # "absent"
-----------------------------------------------------------------------------
(* Counters.                                                               *)

update_endpoint_counter(m, route) ==
    IF route = "ERROR" THEN m ELSE [m EXCEPT !.endpoints = @ + 1]

status_class(status) ==
    IF status < 300 THEN "2xx" ELSE IF status < 500 THEN "4xx" ELSE "5xx"

method_class(method) ==
    CASE method = "GET" -> "get" [] method = "POST" -> "post" [] OTHER -> "other"

(* update_latency_histogram, update_status_counters and                    *)
(* update_method_counters, which are always called together.               *)
count(m, status, method) ==
    [m EXCEPT !.latency_bucket_inf = @ + 1,
              !.status[status_class(status)] = @ + 1,
              !.method[method_class(method)] = @ + 1]
-----------------------------------------------------------------------------
(* HTTP/1.1.                                                               *)

(* The client sends a request; the connection has yet to read it.          *)
request_sent(c, p, method) ==
    /\ h1[c].state = "IDLE"
    /\ begun < MaxRequests
    /\ begun' = begun + 1
    /\ h1' = [h1 EXCEPT ![c].state = "READING_HEADERS", ![c].path = p,
                        ![c].asked = method]
    /\ UNCHANGED <<h2, metrics, draining, challenge, answered, dropped>>

(* What the connection knows once the headers are parsed.                  *)
parse_request_headers(conn) ==
    [conn EXCEPT !.method = conn.asked, !.seen = conn.path.len]

(* connection_send_error, to a connection that has come as far as conn: it *)
(* is closed after the response.                                           *)
connection_send_error(c, conn, status, via) ==
    /\ h1' = [h1 EXCEPT ![c] = [conn EXCEPT !.state = "CLOSING",
                                            !.response_status = status,
                                            !.via = via]]
    /\ answered' = answered + 1
    /\ UNCHANGED <<h2, draining, challenge, begun, dropped>>

(* A piece of the request that ends in the path, or after it.              *)
read_partial(c, n) ==
    /\ h1[c].state = "READING_HEADERS"
    /\ n \in (h1[c].seen + 1)..h1[c].path.len
    /\ IF validate_path_early(h1[c].path, n)
       THEN /\ h1' = [h1 EXCEPT ![c].seen = n]
            /\ UNCHANGED <<h2, metrics, draining, challenge, begun, answered,
                           dropped>>
       ELSE /\ metrics' = [metrics EXCEPT !.errors_parse = @ + 1]
            /\ connection_send_error(c, h1[c], 400, "validation")

(* No slot (503), no memory (500), too large (413); and once the early     *)
(* check has passed, headers that are not well formed (400) or announce    *)
(* too much (413): by then the method may have been read.                  *)
read_refused(c, status, parsed) ==
    /\ h1[c].state = "READING_HEADERS"
    /\ status = 400 \/ parsed => validate_path_early(h1[c].path, h1[c].path.len)
    /\ parsed => status \in {400, 413}
    /\ metrics' = [metrics EXCEPT !.errors_parse =
                      IF status = 400 THEN @ + 1 ELSE @]
    /\ connection_send_error(c, IF parsed THEN parse_request_headers(h1[c])
                                ELSE h1[c], status, "limits")

(* process_request and the serve_ functions: the status by route.          *)
process_status(p) ==
    LET route == route_request(p)
    IN  CASE route = "ready" -> IF draining THEN 503 ELSE 200
          [] route = "ACME_CHALLENGE" -> IF challenge_found(p) THEN 200 ELSE 404
          [] route = "ERROR" -> 404
          [] OTHER -> 200

(* /metrics and a challenge that is not found close the connection.        *)
closes(p) ==
    \/ route_request(p) = "metrics"
    \/ route_request(p) = "ACME_CHALLENGE" /\ ~challenge_found(p)

process_request(c, keep_alive) ==
    LET p == h1[c].path
    IN  /\ metrics' = update_endpoint_counter(metrics, route_request(p))
        /\ h1' = [h1 EXCEPT ![c] = [parse_request_headers(@) EXCEPT
                     !.state = IF keep_alive /\ ~closes(p)
                               THEN "WRITING_RESPONSE" ELSE "CLOSING",
                     !.response_status = process_status(p),
                     !.via = "route"]]
        /\ answered' = answered + 1
        /\ UNCHANGED <<h2, draining, challenge, begun, dropped>>

(* Faulty variant: complete headers are not checked once more.             *)
FaultyComplete(c, keep_alive) ==
    /\ h1[c].state = "READING_HEADERS"
    /\ process_request(c, keep_alive)

(* The headers are complete, and the body with them.                       *)
read_complete(c, keep_alive) ==
    /\ h1[c].state = "READING_HEADERS"
    /\ IF validate_path_early(h1[c].path, h1[c].path.len)
       THEN process_request(c, keep_alive)
       ELSE /\ metrics' = [metrics EXCEPT !.errors_parse = @ + 1]
            /\ connection_send_error(c, h1[c], 400, "validation")

(* Faulty variant: the method of the last request stays.                   *)
FaultyReset(conn) == [NewConn EXCEPT !.method = conn.method]

connection_reset_for_keepalive(conn) ==
    [conn EXCEPT !.state = "IDLE", !.path = NoPath, !.asked = "none", !.seen = 0,
                 !.method = "none", !.response_status = 0, !.via = "none"]

(* The response is written: it is counted, and the connection goes on or,  *)
(* if it is to close or loses its slot, is freed.                          *)
conn_write_cb(c, slot) ==
    /\ h1[c].state \in {"WRITING_RESPONSE", "CLOSING"}
    /\ metrics' = count(metrics, h1[c].response_status, h1[c].method)
    /\ h1' = [h1 EXCEPT ![c] = IF h1[c].state = "WRITING_RESPONSE" /\ slot
                               THEN connection_reset_for_keepalive(@)
                               ELSE NewConn]
    /\ UNCHANGED <<h2, draining, challenge, begun, answered, dropped>>

(* conn_event_cb, or a slowloris check: freed in whatever state.           *)
conn_event_cb(c) ==
    /\ h1[c].state # "IDLE"
    /\ dropped' = dropped + (IF h1[c].response_status # 0 THEN 1 ELSE 0)
    /\ h1' = [h1 EXCEPT ![c] = NewConn]
    /\ UNCHANGED <<h2, metrics, draining, challenge, begun, answered>>
-----------------------------------------------------------------------------
(* HTTP/2.                                                                 *)

(* h2_on_begin_headers_callback and h2_on_header_callback.  A stream that  *)
(* cannot have the slot its path calls for is reset like one whose path is *)
(* refused, but it is not a parse error; a method for which there is no    *)
(* memory is none.  (One that gets no first slot is never created, and     *)
(* one with no memory for its path ends the process in route_request.)     *)
h2_on_header_callback(s, p, method, slot) ==
    /\ h2[s].state = "IDLE"
    /\ p.slash                             \* nghttp2 refuses other paths
    /\ begun < MaxRequests
    /\ begun' = begun + 1
    /\ h2' = [h2 EXCEPT ![s].path = p, ![s].method = method,
                        ![s].state = IF ~validate_hex_path(p) THEN "REFUSED"
                                     ELSE IF slot THEN "OPEN" ELSE "NO_SLOT"]
    /\ metrics' = [metrics EXCEPT !.errors_parse =
                      IF validate_hex_path(p) THEN @ ELSE @ + 1]
    /\ UNCHANGED <<h1, draining, challenge, answered, dropped>>

(* What h2_process_stream_request sends.                                   *)
h2_status(p) ==
    LET route == route_request(p)
    IN  CASE route = "ready" -> IF draining THEN 503 ELSE 200
          [] route = "ACME_CHALLENGE" -> IF challenge_found(p) THEN 200 ELSE 404
          [] route = "ERROR" -> 404
          [] OTHER -> 200

(* And what it notes down: a challenge of no bytes is noted as not found.  *)
h2_noted(p) ==
    IF route_request(p) = "ACME_CHALLENGE" /\ challenge = "empty" THEN 404
    ELSE h2_status(p)

(* Nothing is sent if there is no memory for the body or nghttp2 does not  *)
(* take the response; nobody looks at what it returns.                     *)
h2_send_response(status, ok) == IF ok THEN status ELSE 0

(* END_STREAM: the request is answered.                                    *)
h2_process_stream_request(s, ok) ==
    LET p == h2[s].path
    IN  /\ h2[s].state = "OPEN"
        /\ metrics' = update_endpoint_counter(metrics, route_request(p))
        /\ h2' = [h2 EXCEPT ![s].state = "HALF_CLOSED_REMOTE",
                            ![s].response_status = h2_noted(p),
                            ![s].sent = h2_send_response(h2_status(p), ok)]
        /\ answered' = answered + 1
        /\ UNCHANGED <<h1, draining, challenge, begun, dropped>>

(* Faulty variant: a stream that was not answered is counted.              *)
FaultyStreamClose(s) ==
    /\ h2[s].state # "IDLE"
    /\ metrics' = count(metrics, h2[s].response_status, h2[s].method)
    /\ h2' = [h2 EXCEPT ![s] = NewStream]
    /\ UNCHANGED <<h1, draining, challenge, begun, answered, dropped>>

(* nghttp2 closes a stream: it is done, or one side reset it.              *)
h2_on_stream_close_callback(s) ==
    /\ h2[s].state # "IDLE"
    /\ metrics' = IF h2[s].response_status > 0
                  THEN count(metrics, h2[s].response_status, h2[s].method)
                  ELSE metrics
    /\ h2' = [h2 EXCEPT ![s] = NewStream]
    /\ UNCHANGED <<h1, draining, challenge, begun, answered, dropped>>

(* The connection is freed with all its streams; none of them is counted.  *)
h2_connection_free ==
    /\ \E s \in Streams : h2[s].state # "IDLE"
    /\ dropped' = dropped + Cardinality({s \in Streams : h2[s].response_status > 0})
    /\ h2' = [s \in Streams |-> NewStream]
    /\ UNCHANGED <<h1, metrics, draining, challenge, begun, answered>>
-----------------------------------------------------------------------------
(* signal_cb; and the ACME client, which writes and removes its file.      *)
drain_starts ==
    /\ ~draining
    /\ draining' = TRUE
    /\ UNCHANGED <<h1, h2, metrics, challenge, begun, answered, dropped>>

challenge_written(v) ==
    /\ challenge # v
    /\ challenge' = v
    /\ UNCHANGED <<h1, h2, metrics, draining, begun, answered, dropped>>

RequestNext ==
    \/ \E c \in Conns :
          \/ \E p \in Paths, method \in Methods : request_sent(c, p, method)
          \/ \E n \in Views : read_partial(c, n)
          \/ \E status \in {400, 413, 500, 503} : 
                \E parsed \in BOOLEAN : read_refused(c, status, parsed)
          \/ \E keep_alive \in BOOLEAN : read_complete(c, keep_alive)
          \/ \E slot \in BOOLEAN : conn_write_cb(c, slot)
          \/ conn_event_cb(c)
    \/ \E s \in Streams :
          \/ \E p \in Paths, method \in Methods \cup {"none"}, slot \in BOOLEAN :
                h2_on_header_callback(s, p, method, slot)
          \/ \E ok \in BOOLEAN : h2_process_stream_request(s, ok)
          \/ h2_on_stream_close_callback(s)
    \/ h2_connection_free
    \/ drain_starts
    \/ \E v \in {"absent", "empty", "present"} : challenge_written(v)

RequestSpec == RequestInit /\ [][RequestNext]_request_vars
-----------------------------------------------------------------------------
(* Properties.                                                             *)

(* A path that no page can have: long, and not hexadecimal.                *)
Malformed(p) ==
    /\ p.len >= 64
    /\ p.hex # (IF p.word = "tx" THEN p.len - TxPrefix ELSE p.len)

(* HTTP/1.1 and HTTP/2 treat a path alike: the early checks refuse the     *)
(* malformed paths and no others, into whatever pieces the path is cut and *)
(* whichever of two functions looks at it.                                 *)
OneVerdict ==
    /\ \A c \in Conns : /\ h1[c].via = "validation" => Malformed(h1[c].path)
                        /\ h1[c].via = "route" => ~Malformed(h1[c].path)
    /\ \A s \in Streams :
          h2[s].state # "IDLE" =>
              (h2[s].state = "REFUSED" <=> Malformed(h2[s].path))

(* The early checks cost nobody a page: a request they refuse, on however  *)
(* little of its path, would have got a 404, or its path begins like that  *)
(* of a challenge, whether or not there is a file for it.                  *)
RefusalJustified ==
    \A c \in Conns : h1[c].via = "validation" =>
        route_request(h1[c].path) \in {"ERROR", "ACME_CHALLENGE"}

(* Every response is counted once: those made are the ones counted, those  *)
(* still on their way and those whose connection was lost, over reuse of   *)
(* connections and reset streams; and the three families of counters agree *)
(* on how many there were.                                                 *)
CountedOnce ==
    LET waiting == Cardinality({c \in Conns : h1[c].response_status # 0})
                   + Cardinality({s \in Streams : h2[s].response_status # 0})
        m == metrics
    IN  /\ answered = m.latency_bucket_inf + waiting + dropped
        /\ m.status["2xx"] + m.status["4xx"] + m.status["5xx"] = m.latency_bucket_inf
        /\ m.method["get"] + m.method["post"] + m.method["other"]
           = m.latency_bucket_inf

(* A response is counted under its own request's method and the status the *)
(* client got; a request whose headers were never parsed has no method.    *)
(* Over HTTP/2 two things may differ: nothing was sent for want of memory, *)
(* or an empty challenge was sent with status 200.                         *)
CountedAsSent ==
    /\ \A c \in Conns :
          h1[c].response_status # 0 =>
              h1[c].method \in CASE h1[c].via = "route" -> {h1[c].asked}
                                 [] h1[c].via = "limits" -> {h1[c].asked, "none"}
                                 [] h1[c].via = "validation" -> {"none"}
    /\ \A s \in Streams :
          h2[s].sent # 0 => \/ h2[s].response_status = h2[s].sent
                            \/ /\ route_request(h2[s].path) = "ACME_CHALLENGE"
                               /\ h2[s].sent = 200
-----------------------------------------------------------------------------
(* What the documentation says and the code does not do.                   *)

(* "Certbot writes challenge tokens to ..., which the server serves        *)
(* automatically": a well-formed challenge whose file is there is answered *)
(* with the file, unless a limit is hit.                                   *)
ChallengeServed ==
    [][\A c \in Conns :
          (/\ h1[c].response_status = 0 /\ h1'[c].response_status # 0
           /\ route_request(h1[c].path) = "ACME_CHALLENGE"
           /\ h1[c].path.token_ok /\ challenge = "present"
           /\ h1'[c].via # "limits")
          => h1'[c].response_status = 200]_request_vars
=============================================================================
