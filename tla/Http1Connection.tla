--------------------------- MODULE Http1Connection ---------------------------
(***************************************************************************)
(* One HTTP/1.1 connection with its clocks and byte counts: the slowloris  *)
(* checks of conn_read_cb, the read timer, the search for the end of the   *)
(* headers, the draining of the input buffer and the keep-alive reset      *)
(* (connection.c), on the plain and on the TLS port.  Slots and the other  *)
(* connections are in the module Worker.                                   *)
(*                                                                         *)
(* The client is a stream of bytes that arrive in pieces of any size.      *)
(* `request' is what the connection will find next in that stream: how     *)
(* many bytes there are to the end of the headers, and the Content-Length  *)
(* in them.  It is chosen anew with every request, also when the code has  *)
(* thrown bytes away and reads the rest of a request as the start of one.  *)
(* Pieces may reach from one request into the next unless ~Pipelines: then *)
(* the client sends nothing until it has the response.                     *)
(***************************************************************************)
EXTENDS Integers

CONSTANTS Requests,                       \* shapes of requests
          MaxChunk,                       \* bytes that arrive at once
          Pipelines,
          READ_TIMEOUT_SEC,
          THROUGHPUT_CHECK_INTERVAL_SEC,
          MIN_BYTES_PER_CHECK,
          MAX_REQUEST_TIME_SEC,
          max_buffer_size,
          MaxBuffered,                    \* bound on the input buffer
          MaxTime,                        \* bound on the clock
          MaxRequests                     \* bound on keep-alive requests

Terminator == 4                           \* the length of "\r\n\r\n"

ASSUME Http1Assumption ==
    /\ Requests \subseteq [headers : Nat, body : Nat]
    /\ \A r \in Requests : r.headers >= Terminator
    /\ MaxChunk \in Nat \ {0}
    /\ Pipelines \in BOOLEAN
    /\ READ_TIMEOUT_SEC \in Nat \ {0}
    /\ THROUGHPUT_CHECK_INTERVAL_SEC \in Nat \ {0}
    /\ MIN_BYTES_PER_CHECK \in Nat
    /\ MAX_REQUEST_TIME_SEC \in Nat
    /\ max_buffer_size \in Nat
    /\ MaxBuffered \in Nat
    /\ MaxTime \in Nat
    /\ MaxRequests \in Nat

VARIABLES
    state,                 \* conn->state
    tls,                   \* conn->ssl # NULL
    available,             \* bytes in the input buffer
    headers_scanned,       \* bytes of it that were searched
    body_received,
    start_time, last_progress_time, bytes_at_last_check,
    requests,              \* conn->requests_on_connection
    now,                   \* CLOCK_MONOTONIC
    read_armed,            \* when libevent's read timer was last restarted
    unseen,                \* history: ... by bytes conn_read_cb was not called for
    request,               \* the request in the stream
    arrived,               \* history: bytes received since last_progress_time
    killed                 \* history: a slowloris check ended the connection

timing == <<start_time, last_progress_time, bytes_at_last_check>>
http1_vars ==
    <<state, tls, available, headers_scanned, body_received, timing, requests, now,
      read_armed, unseen, request, arrived, killed>>

States == {"READING_HEADERS", "READING_BODY", "WRITING_RESPONSE", "CLOSING",
           "FREE"}

Http1TypeOK ==
    /\ state \in States
    /\ tls \in BOOLEAN
    /\ available \in Nat
    /\ headers_scanned \in Nat
    /\ body_received \in Nat
    /\ start_time \in Nat
    /\ last_progress_time \in Nat
    /\ bytes_at_last_check \in Nat
    /\ requests \in Nat
    /\ now \in Nat
    /\ read_armed \in Nat
    /\ unseen \in BOOLEAN
    /\ request \in Requests
    /\ arrived \in Nat
    /\ killed \in BOOLEAN

(* connection_init_common.                                                 *)
Http1Init ==
    /\ state = "READING_HEADERS"
    /\ tls \in BOOLEAN
    /\ available = 0
    /\ headers_scanned = 0
    /\ body_received = 0
    /\ start_time = 0
    /\ last_progress_time = 0
    /\ bytes_at_last_check = 0
    /\ requests = 0
    /\ now = 0
    /\ read_armed = 0
    /\ unseen = FALSE
    /\ request \in Requests
    /\ arrived = 0
    /\ killed = FALSE
-----------------------------------------------------------------------------
(* connection_free.                                                        *)
connection_free ==
    /\ state' = "FREE"
    /\ UNCHANGED <<tls, available, headers_scanned, body_received, timing, requests,
                   now, read_armed, unseen, request, arrived, killed>>

(* A client that waits for the response to a request sends no more than    *)
(* that request.                                                           *)
awaits_response(n) ==
    /\ state # "WRITING_RESPONSE"
    /\ state = "READING_HEADERS" => available + n <= request.headers + request.body
    /\ state = "READING_BODY" => body_received + available + n <= request.body

(* n bytes of the stream arrive: libevent restarts the read timer and      *)
(* calls conn_read_cb.                                                     *)
arrives(n) ==
    /\ state # "FREE"
    /\ available + n <= MaxBuffered
    /\ Pipelines \/ awaits_response(n)
    /\ read_armed' = now
    /\ unseen' = FALSE
    /\ UNCHANGED tls

(* Bytes of a handshake or of a record that is not complete: the timer is  *)
(* restarted, but there is nothing to read, and conn_read_cb is not called.*)
tls_bytes ==
    /\ tls
    /\ state # "FREE"
    /\ read_armed' = now
    /\ unseen' = TRUE
    /\ UNCHANGED <<state, tls, available, headers_scanned, body_received, timing,
                   requests, now, request, arrived, killed>>

(* The two checks, with `a' bytes in the buffer.                           *)
exceeds_max_time == now - start_time > MAX_REQUEST_TIME_SEC

check_due == now - last_progress_time >= THROUGHPUT_CHECK_INTERVAL_SEC

throughput_too_low(a) ==
    /\ check_due
    /\ \/ a < bytes_at_last_check
       \/ a - bytes_at_last_check < MIN_BYTES_PER_CHECK

slowloris_kill(n) ==
    /\ arrives(n)
    /\ exceeds_max_time \/ throughput_too_low(available + n)
    /\ killed' = TRUE
    /\ state' = "FREE"
    /\ arrived' = arrived + n
    /\ UNCHANGED <<available, headers_scanned, body_received, timing, requests, now,
                   request>>

(* Neither check kills; a window that is over is followed by a new one.    *)
passes_checks(n) ==
    /\ arrives(n)
    /\ ~exceeds_max_time
    /\ ~throughput_too_low(available + n)
    /\ IF check_due
       THEN /\ last_progress_time' = now
            /\ bytes_at_last_check' = available + n
            /\ arrived' = 0
       ELSE /\ arrived' = arrived + n
            /\ UNCHANGED <<last_progress_time, bytes_at_last_check>>
    /\ UNCHANGED <<start_time, requests, now, killed>>

(* process_request has the whole request: the response is being written.   *)
(* The next request may be any.                                            *)
process_request(keep_alive) ==
    /\ state' = IF keep_alive THEN "WRITING_RESPONSE" ELSE "CLOSING"
    /\ request' \in Requests

(* evbuffer_search from headers_scanned on, with `a' bytes in the buffer.  *)
headers_found(a) ==
    /\ a >= request.headers
    /\ headers_scanned <= request.headers - Terminator

(* Faulty variant: an end that straddles two reads is not allowed for.     *)
FaultyScanned(a) == a

(* Where the next search starts.                                           *)
scanned(a) == IF a > 3 THEN a - 3 ELSE 0

(* The headers are not complete.                                           *)
read_headers_partial(n) ==
    /\ state = "READING_HEADERS"
    /\ passes_checks(n)
    /\ available + n <= max_buffer_size
    /\ ~headers_found(available + n)
    /\ available' = available + n
    /\ headers_scanned' = scanned(available + n)
    /\ UNCHANGED <<state, body_received, request>>

(* Too much data or a Content-Length above the limit (413), a request that *)
(* is not well formed (400), no slot of a higher tier (503), or no memory. *)
read_headers_refused(n) ==
    /\ state = "READING_HEADERS"
    /\ passes_checks(n)
    /\ available' = available + n
    /\ headers_scanned' \in {headers_scanned, scanned(available + n)}
    /\ state' = "CLOSING"
    /\ UNCHANGED <<body_received, request>>

(* The headers are complete, the body is not; what there is of the body is *)
(* drained with the headers.                                               *)
read_headers_then_body(n) ==
    LET remaining == available + n - request.headers
    IN  /\ state = "READING_HEADERS"
        /\ passes_checks(n)
        /\ available + n <= max_buffer_size
        /\ headers_found(available + n)
        /\ request.body <= max_buffer_size
        /\ remaining < request.body
        /\ state' = "READING_BODY"
        /\ body_received' = remaining
        /\ available' = 0
        /\ UNCHANGED <<headers_scanned, request>>

(* The request is complete; whatever is left in the buffer, the next       *)
(* request included, is discarded.                                         *)
read_headers_complete(n, keep_alive) ==
    LET remaining == available + n - request.headers
    IN  /\ state = "READING_HEADERS"
        /\ passes_checks(n)
        /\ available + n <= max_buffer_size
        /\ headers_found(available + n)
        /\ request.body <= max_buffer_size
        /\ remaining >= request.body
        /\ body_received' = remaining
        /\ available' = 0
        /\ UNCHANGED headers_scanned
        /\ process_request(keep_alive)

(* A piece of the body is drained; the last one completes the request, and *)
(* what comes after it stays in the buffer.                                *)
read_body_partial(n) ==
    /\ state = "READING_BODY"
    /\ passes_checks(n)
    /\ body_received + available + n < request.body
    /\ body_received' = body_received + available + n
    /\ available' = 0
    /\ UNCHANGED <<state, headers_scanned, request>>

read_body_complete(n, keep_alive) ==
    /\ state = "READING_BODY"
    /\ passes_checks(n)
    /\ body_received + available + n >= request.body
    /\ body_received' = request.body
    /\ available' = available + n - (request.body - body_received)
    /\ UNCHANGED headers_scanned
    /\ process_request(keep_alive)

(* While a response is written, conn_read_cb only makes its checks.        *)
read_ignored(n) ==
    /\ state \in {"WRITING_RESPONSE", "CLOSING"}
    /\ passes_checks(n)
    /\ available' = available + n
    /\ UNCHANGED <<state, headers_scanned, body_received, request>>

(* Faulty variant: the throughput window is not reset.                     *)
FaultyReset ==
    /\ state' = "READING_HEADERS"
    /\ headers_scanned' = 0
    /\ body_received' = 0
    /\ start_time' = now
    /\ last_progress_time' = now
    /\ arrived' = 0
    /\ requests' = requests + 1
    /\ read_armed' = now
    /\ unseen' = FALSE
    /\ UNCHANGED <<tls, available, bytes_at_last_check, now, request, killed>>

connection_reset_for_keepalive ==
    /\ state' = "READING_HEADERS"
    /\ headers_scanned' = 0
    /\ body_received' = 0
    /\ start_time' = now
    /\ last_progress_time' = now
    /\ bytes_at_last_check' = 0
    /\ arrived' = 0
    /\ requests' = requests + 1
    /\ read_armed' = now
    /\ unseen' = FALSE
    /\ UNCHANGED <<tls, available, now, request, killed>>

(* The output buffer is drained.  A connection that is to be kept alive is *)
(* freed all the same if it cannot get its slot back.                      *)
conn_write_cb ==
    \/ /\ state \in {"CLOSING", "WRITING_RESPONSE"}
       /\ connection_free
    \/ /\ state = "WRITING_RESPONSE"
       /\ requests < MaxRequests
       /\ connection_reset_for_keepalive

(* The read timer, and a client that closes or a socket that fails.        *)
read_timer_due == now - read_armed >= READ_TIMEOUT_SEC

conn_event_cb ==
    /\ state # "FREE"
    /\ connection_free

(* Faulty variant: the read timer is not set.                              *)
FaultyTick ==
    /\ state # "FREE"
    /\ now < MaxTime
    /\ now' = now + 1
    /\ UNCHANGED <<state, tls, available, headers_scanned, body_received, timing,
                   requests, read_armed, unseen, request, arrived, killed>>

(* Time passes; a timer that is due fires first.                           *)
Tick ==
    /\ state # "FREE"
    /\ now < MaxTime
    /\ ~read_timer_due
    /\ now' = now + 1
    /\ UNCHANGED <<state, tls, available, headers_scanned, body_received, timing,
                   requests, read_armed, unseen, request, arrived, killed>>

Http1Next ==
    \/ \E n \in 1..MaxChunk :
          \/ slowloris_kill(n)
          \/ read_headers_partial(n)
          \/ read_headers_refused(n)
          \/ read_headers_then_body(n)
          \/ \E keep_alive \in BOOLEAN : read_headers_complete(n, keep_alive)
          \/ read_body_partial(n)
          \/ \E keep_alive \in BOOLEAN : read_body_complete(n, keep_alive)
          \/ read_ignored(n)
    \/ tls_bytes
    \/ conn_write_cb
    \/ conn_event_cb
    \/ Tick

Http1Spec == Http1Init /\ [][Http1Next]_http1_vars
-----------------------------------------------------------------------------
(* Properties.                                                             *)

(* No connection on the plain port occupies its place for longer than the  *)
(* request limit and one read timeout without completing a request: the    *)
(* checks run only when data arrives and the timer only when none does,    *)
(* and together they leave no gap, whatever the client sends and whatever  *)
(* state the connection is in.  On the TLS port the same holds as long as  *)
(* the timer was last restarted by bytes that conn_read_cb was called for; *)
(* the limits do not see the others.                                       *)
RequestBounded ==
    (state # "FREE" /\ (tls => ~unseen)) =>
        now - start_time <= MAX_REQUEST_TIME_SEC + READ_TIMEOUT_SEC

(* While headers are read, a connection is killed only if its request is   *)
(* too old or fewer than MIN_BYTES_PER_CHECK bytes really arrived in a     *)
(* full window, on the first request and on every later one.               *)
HeaderKillJustified ==
    [][(state = "READING_HEADERS" /\ killed' /\ ~killed)
       => \/ now - start_time > MAX_REQUEST_TIME_SEC
          \/ /\ arrived' < MIN_BYTES_PER_CHECK
             /\ now - last_progress_time >= THROUGHPUT_CHECK_INTERVAL_SEC]_http1_vars

(* A read that leaves the connection waiting leaves it short of a byte of  *)
(* the request it reads: a request whose bytes are all there when          *)
(* conn_read_cb returns is answered or refused, into whatever reads it was *)
(* cut, the end of its headers included, and whatever of it came during    *)
(* the response before.  Bytes that were discarded with the request before *)
(* are not there.                                                          *)
CompleteIsAnswered ==
    [][{state, state'} \subseteq {"READING_HEADERS", "READING_BODY"}
       => IF state' = "READING_HEADERS" THEN available' < request'.headers
          ELSE body_received' < request'.body]_<<state, available, body_received>>
-----------------------------------------------------------------------------
(* What the documentation says and the code does not do.                   *)

(* "Legitimate clients that send data at any reasonable speed are          *)
(* unaffected": a client that uploads a body is killed only if it is slow  *)
(* or its request is too old.                                              *)
UploadKillJustified ==
    [][(state = "READING_BODY" /\ killed' /\ ~killed)
       => \/ now - start_time > MAX_REQUEST_TIME_SEC
          \/ arrived' < MIN_BYTES_PER_CHECK]_http1_vars
=============================================================================
