-------------------------- MODULE ConnectionProofs --------------------------
(***************************************************************************)
(* Proofs about the two kinds of connections of a worker: the one on which *)
(* it reads a request (Http1Connection), for every request and every       *)
(* setting of the limits, with the inductive invariant ReadInv; and the    *)
(* ones on which it passes transactions on (RpcAsync), for any number of   *)
(* requests and of restarts of the node, with the inductive invariant      *)
(* IInv.                                                                   *)
(***************************************************************************)
EXTENDS Http1Connection, RpcAsync, TLAPS

(* The reading of a request.                                               *)

(* The read timer has not run out, and if conn_read_cb was called when it  *)
(* was restarted, the time limit was checked then; on the plain port it    *)
(* always was.  While headers are read the buffer has grown, since the     *)
(* last check, by at least what arrived, and the next search starts early  *)
(* enough to find their end.  A body that is read is not complete.         *)
ClockInv ==
    state # "FREE" =>
        /\ now - read_armed <= READ_TIMEOUT_SEC
        /\ ~unseen => read_armed - start_time <= MAX_REQUEST_TIME_SEC
        /\ ~tls => ~unseen

WindowInv ==
    state = "READING_HEADERS" => arrived <= available - bytes_at_last_check

ScanInv ==
    state = "READING_HEADERS" => headers_scanned <= request.headers - Terminator

BodyInv ==
    state = "READING_BODY" => body_received < request.body

ReadInv == Http1TypeOK /\ ClockInv /\ WindowInv /\ ScanInv /\ BodyInv

Reads(n) ==
    \/ read_headers_partial(n)
    \/ read_headers_refused(n)
    \/ read_headers_then_body(n)
    \/ \E keep_alive \in BOOLEAN : read_headers_complete(n, keep_alive)
    \/ read_body_partial(n)
    \/ \E keep_alive \in BOOLEAN : read_body_complete(n, keep_alive)
    \/ read_ignored(n)

(* The initial state of a connection satisfies the invariant.              *)
LEMMA ReadInitInv == Http1Init => ReadInv
  <1> SUFFICES ASSUME Http1Init PROVE ReadInv
    OBVIOUS
  <1>1. request.headers \in Nat /\ request.headers >= Terminator
    BY Http1Assumption DEF Http1Init
  <1>2. /\ killed \in BOOLEAN /\ tls \in BOOLEAN /\ unseen \in BOOLEAN
        /\ state \in States /\ request \in Requests
    BY ZenonT(30) DEF Http1Init, States
  <1>3. Http1TypeOK
    BY <1>2 DEF Http1Init, Http1TypeOK
  <1>4. WindowInv /\ ScanInv /\ BodyInv
    BY <1>1 DEF Http1Init, WindowInv, ScanInv, BodyInv, Terminator
  <1>5. ClockInv
    <2>1. unseen = FALSE
      BY DEF Http1Init
    <2>2. /\ now - read_armed <= READ_TIMEOUT_SEC
          /\ read_armed - start_time <= MAX_REQUEST_TIME_SEC
      BY Http1Assumption DEF Http1Init
    <2> QED
      BY <2>1, <2>2, ZenonT(30) DEF ClockInv
  <1> QED
    BY <1>3, <1>4, <1>5 DEF ReadInv

(* A read that passes both checks keeps the types of the clocks, restarts  *)
(* the timer, and measures the window from the buffer.                     *)
LEMMA PassesFacts ==
  ASSUME ReadInv, NEW n \in 1..MaxChunk, passes_checks(n)
  PROVE  /\ start_time' = start_time /\ start_time' \in Nat
         /\ requests' = requests /\ now' = now /\ killed' = killed
         /\ tls' = tls /\ unseen' = FALSE
         /\ last_progress_time' \in Nat
         /\ bytes_at_last_check' \in Nat
         /\ arrived' \in Nat
         /\ read_armed' = now
         /\ now - start_time <= MAX_REQUEST_TIME_SEC
         /\ n \in Nat
         /\ arrived <= available - bytes_at_last_check
              => arrived' <= (available + n) - bytes_at_last_check'
  <1>1. n \in Nat
    BY Http1Assumption
  <1>2. read_armed' = now /\ tls' = tls /\ unseen' = FALSE
    BY DEF passes_checks, arrives
  <1>3. now - start_time <= MAX_REQUEST_TIME_SEC
    BY Http1Assumption DEF passes_checks, exceeds_max_time, ReadInv, Http1TypeOK
  <1>4. /\ start_time' = start_time /\ start_time' \in Nat
        /\ requests' = requests /\ now' = now /\ killed' = killed
    BY DEF passes_checks, ReadInv, Http1TypeOK
  <1>5. /\ last_progress_time' \in Nat
        /\ bytes_at_last_check' \in Nat
        /\ arrived' \in Nat
        /\ arrived <= available - bytes_at_last_check
             => arrived' <= (available + n) - bytes_at_last_check'
    <2>1. /\ available \in Nat /\ arrived \in Nat /\ now \in Nat
          /\ bytes_at_last_check \in Nat /\ last_progress_time \in Nat
      BY DEF ReadInv, Http1TypeOK
    <2>2. CASE check_due
      BY <1>1, <2>1, <2>2 DEF passes_checks
    <2>3. CASE ~check_due
      BY <1>1, <2>1, <2>3 DEF passes_checks
    <2> QED
      BY <2>2, <2>3
  <1> QED
    BY <1>1, <1>2, <1>3, <1>4, <1>5

(* If the end of the headers is not found it is not there, and the next    *)
(* search starts before it.                                                *)
LEMMA ScannedFacts ==
  ASSUME ReadInv, state = "READING_HEADERS", NEW a \in Nat, ~headers_found(a)
  PROVE  /\ a < request.headers
         /\ scanned(a) \in Nat
         /\ scanned(a) <= request.headers - Terminator
  <1>1. /\ request.headers \in Nat /\ request.headers >= Terminator
        /\ headers_scanned \in Nat
        /\ headers_scanned <= request.headers - Terminator
    BY Http1Assumption DEF ReadInv, Http1TypeOK, ScanInv
  <1>2. a < request.headers
    BY <1>1 DEF headers_found
  <1> QED
    BY <1>1, <1>2 DEF scanned, Terminator

(* Every read that passes the checks preserves the invariant.              *)
LEMMA ReadsInv ==
  ASSUME ReadInv, NEW n \in 1..MaxChunk, Reads(n)
  PROVE  ReadInv'
  <1>1. passes_checks(n)
    BY DEF Reads, read_headers_partial, read_headers_refused,
           read_headers_then_body, read_headers_complete, read_body_partial,
           read_body_complete, read_ignored
  <1>2. /\ start_time' = start_time /\ start_time' \in Nat
        /\ requests' = requests /\ now' = now /\ killed' = killed
        /\ tls' = tls /\ unseen' = FALSE
        /\ last_progress_time' \in Nat
        /\ bytes_at_last_check' \in Nat
        /\ arrived' \in Nat
        /\ read_armed' = now
        /\ now - start_time <= MAX_REQUEST_TIME_SEC
        /\ n \in Nat
        /\ arrived <= available - bytes_at_last_check
             => arrived' <= (available + n) - bytes_at_last_check'
    BY <1>1, PassesFacts, ZenonT(30)
  <1>3. /\ available \in Nat /\ headers_scanned \in Nat /\ body_received \in Nat
        /\ requests \in Nat /\ now \in Nat /\ request \in Requests
        /\ tls \in BOOLEAN /\ killed \in BOOLEAN
        /\ \A r \in Requests : r.headers \in Nat /\ r.body \in Nat
    BY Http1Assumption DEF ReadInv, Http1TypeOK
  <1>4. ClockInv'
    <2>1. now' - read_armed' <= READ_TIMEOUT_SEC
      BY <1>2, <1>3, Http1Assumption
    <2>2. read_armed' - start_time' <= MAX_REQUEST_TIME_SEC
      BY <1>2
    <2> QED
      BY <1>2, <2>1, <2>2, ZenonT(30) DEF ClockInv
  <1>5. ASSUME state' \in States, available' \in Nat, headers_scanned' \in Nat,
               body_received' \in Nat, request' \in Requests
        PROVE  Http1TypeOK'
    <2>1. /\ requests' \in Nat /\ now' \in Nat /\ read_armed' \in Nat
          /\ tls' \in BOOLEAN /\ unseen' \in BOOLEAN /\ killed' \in BOOLEAN
      BY <1>2, <1>3, ZenonT(30)
    <2> QED
      BY <1>2, <1>5, <2>1, ZenonT(30) DEF Http1TypeOK
  <1>6. Http1TypeOK' /\ WindowInv' /\ ScanInv' /\ BodyInv'
    <2>1. CASE read_headers_partial(n)
      <3>1. /\ state = "READING_HEADERS" /\ state' = "READING_HEADERS"
            /\ available' = available + n /\ request' = request
            /\ headers_scanned' = scanned(available + n)
            /\ body_received' = body_received
            /\ ~headers_found(available + n)
        BY <2>1 DEF read_headers_partial
      <3>2. available + n \in Nat
        BY <1>2, <1>3
      <3>3. /\ headers_scanned' \in Nat
            /\ headers_scanned' <= request'.headers - Terminator
        BY <3>1, <3>2, ScannedFacts
      <3>4. Http1TypeOK'
        BY <1>3, <1>5, <3>1, <3>2, <3>3 DEF States
      <3>5. arrived <= available - bytes_at_last_check
        BY <3>1 DEF ReadInv, WindowInv
      <3>6. arrived' <= available' - bytes_at_last_check'
        BY <1>2, <3>1, <3>5
      <3> QED
        BY <3>1, <3>3, <3>4, <3>6 DEF WindowInv, ScanInv, BodyInv
    <2>2. CASE read_headers_refused(n)
      <3>1. /\ state' = "CLOSING"
            /\ available' = available + n /\ request' = request
            /\ headers_scanned' \in {headers_scanned, scanned(available + n)}
            /\ body_received' = body_received
        BY <2>2 DEF read_headers_refused
      <3>2. available' \in Nat /\ headers_scanned' \in Nat
        BY <1>2, <1>3, <3>1 DEF scanned
      <3> QED
        BY <1>3, <1>5, <3>1, <3>2 DEF States, WindowInv, ScanInv, BodyInv
    <2>3. CASE read_headers_then_body(n)
      <3>1. /\ state' = "READING_BODY" /\ available' = 0 /\ request' = request
            /\ headers_scanned' = headers_scanned
            /\ body_received' = available + n - request.headers
            /\ body_received' < request.body
            /\ headers_found(available + n)
        BY <2>3 DEF read_headers_then_body
      <3>2. body_received' \in Nat
        BY <1>2, <1>3, <3>1 DEF headers_found
      <3> QED
        BY <1>3, <1>5, <3>1, <3>2 DEF States, WindowInv, ScanInv, BodyInv
    <2>4. CASE \E keep_alive \in BOOLEAN : read_headers_complete(n, keep_alive)
      <3>1. /\ state' \in {"WRITING_RESPONSE", "CLOSING"} /\ available' = 0
            /\ request' \in Requests
            /\ headers_scanned' = headers_scanned
            /\ body_received' = available + n - request.headers
            /\ headers_found(available + n)
        BY <2>4 DEF read_headers_complete, process_request
      <3>2. body_received' \in Nat
        BY <1>2, <1>3, <3>1 DEF headers_found
      <3> QED
        BY <1>3, <1>5, <3>1, <3>2 DEF States, WindowInv, ScanInv, BodyInv
    <2>5. CASE read_body_partial(n)
      <3>1. /\ state' = "READING_BODY" /\ available' = 0 /\ request' = request
            /\ headers_scanned' = headers_scanned
            /\ body_received' = body_received + available + n
            /\ body_received' < request.body
        BY <2>5 DEF read_body_partial
      <3>2. body_received' \in Nat
        BY <1>2, <1>3, <3>1
      <3> QED
        BY <1>3, <1>5, <3>1, <3>2 DEF States, WindowInv, ScanInv, BodyInv
    <2>6. CASE \E keep_alive \in BOOLEAN : read_body_complete(n, keep_alive)
      <3>1. /\ state' \in {"WRITING_RESPONSE", "CLOSING"} /\ request' \in Requests
            /\ headers_scanned' = headers_scanned
            /\ body_received' = request.body
            /\ available' = available + n - (request.body - body_received)
            /\ body_received + available + n >= request.body
        BY <2>6 DEF read_body_complete, process_request
      <3>2. body_received' \in Nat /\ available' \in Nat
        BY <1>2, <1>3, <3>1
      <3> QED
        BY <1>3, <1>5, <3>1, <3>2 DEF States, WindowInv, ScanInv, BodyInv
    <2>7. CASE read_ignored(n)
      <3>1. /\ state' \in {"WRITING_RESPONSE", "CLOSING"} /\ request' = request
            /\ headers_scanned' = headers_scanned /\ body_received' = body_received
            /\ available' = available + n
        BY <2>7 DEF read_ignored
      <3>2. available' \in Nat
        BY <1>2, <1>3, <3>1
      <3> QED
        BY <1>3, <1>5, <3>1, <3>2 DEF States, WindowInv, ScanInv, BodyInv
    <2> QED
      BY <2>1, <2>2, <2>3, <2>4, <2>5, <2>6, <2>7 DEF Reads
  <1> QED
    BY <1>4, <1>6 DEF ReadInv

(* A connection that is freed satisfies the invariant if its counters keep *)
(* their types.                                                            *)
LEMMA FreedInv ==
  ASSUME ReadInv, connection_free
  PROVE  ReadInv'
  <1>1. state' = "FREE" /\ state' \in States
    BY DEF connection_free, States
  <1>2. Http1TypeOK'
    BY <1>1, ZenonT(30) DEF connection_free, timing, ReadInv, Http1TypeOK
  <1> QED
    BY <1>1, <1>2 DEF ReadInv, ClockInv, WindowInv, ScanInv, BodyInv

(* Every step preserves the invariant.                                     *)
LEMMA ReadNextInv == ReadInv /\ [Http1Next]_http1_vars => ReadInv'
  <1> SUFFICES ASSUME ReadInv, [Http1Next]_http1_vars
               PROVE  ReadInv'
    OBVIOUS
  <1>1. ASSUME NEW n \in 1..MaxChunk, slowloris_kill(n)
        PROVE  ReadInv'
    <2>1. /\ state' = "FREE" /\ state' \in States /\ killed' \in BOOLEAN
          /\ unseen' \in BOOLEAN /\ tls' \in BOOLEAN
      BY <1>1, ZenonT(30) DEF slowloris_kill, arrives, States, ReadInv, Http1TypeOK
    <2>2. arrived' \in Nat /\ read_armed' \in Nat
      BY <1>1, Http1Assumption DEF slowloris_kill, arrives, ReadInv, Http1TypeOK
    <2>3. Http1TypeOK'
      BY <1>1, <2>1, <2>2, ZenonT(30) DEF slowloris_kill, timing, ReadInv, Http1TypeOK
    <2> QED
      BY <2>1, <2>3 DEF ReadInv, ClockInv, WindowInv, ScanInv, BodyInv
  <1>2. CASE connection_reset_for_keepalive
    <2>1. /\ state' = "READING_HEADERS" /\ state' \in States
          /\ unseen' = FALSE /\ unseen' \in BOOLEAN
      BY <1>2, ZenonT(30) DEF connection_reset_for_keepalive, States
    <2>2. /\ headers_scanned' = 0 /\ body_received' = 0 /\ arrived' = 0
          /\ bytes_at_last_check' = 0 /\ requests' \in Nat
          /\ start_time' = now /\ read_armed' = now /\ now' = now
          /\ available' = available /\ request' = request
          /\ available \in Nat /\ request \in Requests
          /\ now \in Nat
      BY <1>2 DEF connection_reset_for_keepalive, ReadInv, Http1TypeOK
    <2>3. Http1TypeOK'
      <3>1. /\ headers_scanned' \in Nat /\ body_received' \in Nat /\ arrived' \in Nat
            /\ bytes_at_last_check' \in Nat
        BY <2>2
      <3> QED
        BY <1>2, <2>1, <2>2, <3>1, ZenonT(30)
           DEF connection_reset_for_keepalive, ReadInv, Http1TypeOK
    <2>4. /\ now' - read_armed' <= READ_TIMEOUT_SEC
          /\ read_armed' - start_time' <= MAX_REQUEST_TIME_SEC
      BY <2>2, Http1Assumption
    <2>5. ClockInv'
      BY <2>1, <2>4, ZenonT(30) DEF ClockInv
    <2>6. request.headers \in Nat /\ request.headers >= Terminator
      BY <2>2, Http1Assumption
    <2>7. WindowInv' /\ ScanInv' /\ BodyInv'
      BY <2>1, <2>2, <2>6 DEF WindowInv, ScanInv, BodyInv, Terminator
    <2> QED
      BY <2>3, <2>5, <2>7 DEF ReadInv
  <1>3. CASE tls_bytes
    <2>1. tls' = tls /\ tls /\ unseen' = TRUE /\ unseen' \in BOOLEAN
      BY <1>3, ZenonT(30) DEF tls_bytes
    <2>2. Http1TypeOK'
      BY <1>3, <2>1, ZenonT(30) DEF tls_bytes, timing, ReadInv, Http1TypeOK
    <2>3. now' - read_armed' <= READ_TIMEOUT_SEC
      BY <1>3, Http1Assumption DEF tls_bytes, ReadInv, Http1TypeOK
    <2>4. ClockInv'
      BY <2>1, <2>3, ZenonT(30) DEF ClockInv
    <2>5. WindowInv' /\ ScanInv' /\ BodyInv'
      BY <1>3 DEF tls_bytes, timing, ReadInv, WindowInv, ScanInv, BodyInv
    <2> QED
      BY <2>2, <2>4, <2>5 DEF ReadInv
  <1>4. CASE conn_write_cb \/ conn_event_cb
    BY <1>2, <1>4, FreedInv DEF conn_write_cb, conn_event_cb
  <1>5. CASE Tick
    <2>1. now' \in Nat /\ state # "FREE" /\ read_armed \in Nat
      BY <1>5 DEF Tick, ReadInv, Http1TypeOK
    <2>2. Http1TypeOK'
      BY <1>5, <2>1, ZenonT(30) DEF Tick, timing, ReadInv, Http1TypeOK
    <2>3. now' - read_armed <= READ_TIMEOUT_SEC
      BY <1>5, Http1Assumption DEF Tick, read_timer_due, ReadInv, Http1TypeOK
    <2>4. ClockInv'
      BY <1>5, <2>1, <2>3, ZenonT(30) DEF Tick, timing, ReadInv, ClockInv
    <2>5. WindowInv' /\ ScanInv' /\ BodyInv'
      BY <1>5 DEF Tick, timing, ReadInv, WindowInv, ScanInv, BodyInv
    <2> QED
      BY <2>2, <2>4, <2>5 DEF ReadInv
  <1>6. CASE UNCHANGED http1_vars
    BY <1>6, ZenonT(30) DEF http1_vars, timing, ReadInv, Http1TypeOK, ClockInv,
                WindowInv, ScanInv, BodyInv
  <1>7. Http1Next => \/ \E n \in 1..MaxChunk : slowloris_kill(n) \/ Reads(n)
                     \/ tls_bytes \/ conn_write_cb \/ conn_event_cb \/ Tick
    BY DEF Http1Next, Reads
  <1> QED
    BY <1>1, <1>3, <1>4, <1>5, <1>6, <1>7, ReadsInv

(* The invariant holds throughout the life of a connection.                *)
THEOREM Http1Invariant == Http1Spec => []ReadInv
  BY ReadInitInv, ReadNextInv, PTL DEF Http1Spec

(* While a body is read, the difference content_length - body_received     *)
(* that conn_read_cb takes of two unsigned numbers is above zero: it never *)
(* underflows, and a connection never waits for the rest of a body that is *)
(* complete, with bytes of the next request behind it or not.              *)
THEOREM BodyCountsDown ==
  Http1Spec => [](state = "READING_BODY" => body_received < request.body)
  <1>1. ReadInv => (state = "READING_BODY" => body_received < request.body)
    BY DEF ReadInv, BodyInv
  <1> QED
    BY <1>1, Http1Invariant, PTL

(* conn_read_cb's time limit and the read timer together bound how long a  *)
(* connection goes without completing a request: on the plain port         *)
(* whatever the client sends, on the TLS port as long as conn_read_cb sees *)
(* what restarts the timer.                                                *)
THEOREM RequestBoundedAlways == Http1Spec => []RequestBounded
  <1>1. ReadInv => RequestBounded
    <2> SUFFICES ASSUME ReadInv, state # "FREE", tls => ~unseen
                 PROVE  now - start_time <= MAX_REQUEST_TIME_SEC + READ_TIMEOUT_SEC
      BY ZenonT(30) DEF RequestBounded
    <2>1. /\ now - read_armed <= READ_TIMEOUT_SEC
          /\ read_armed - start_time <= MAX_REQUEST_TIME_SEC
      BY ZenonT(30) DEF ReadInv, ClockInv
    <2>2. now \in Nat /\ read_armed \in Nat /\ start_time \in Nat
      BY DEF ReadInv, Http1TypeOK
    <2> QED
      BY <2>1, <2>2, Http1Assumption
  <1> QED
    BY <1>1, Http1Invariant, PTL

(* While headers are read, conn_read_cb kills only connections that are    *)
(* too old or too slow, also after any number of keep-alive resets.        *)
THEOREM HeaderKillJustifiedAlways == Http1Spec => HeaderKillJustified
  <1>1. ReadInv /\ [Http1Next]_http1_vars
          => [(state = "READING_HEADERS" /\ killed' /\ ~killed)
              => \/ now - start_time > MAX_REQUEST_TIME_SEC
                 \/ /\ arrived' < MIN_BYTES_PER_CHECK
                    /\ now - last_progress_time >= THROUGHPUT_CHECK_INTERVAL_SEC]_http1_vars
    <2> SUFFICES ASSUME ReadInv, Http1Next, state = "READING_HEADERS", killed', ~killed
                 PROVE  \/ now - start_time > MAX_REQUEST_TIME_SEC
                        \/ /\ arrived' < MIN_BYTES_PER_CHECK
                           /\ now - last_progress_time >= THROUGHPUT_CHECK_INTERVAL_SEC
      BY DEF http1_vars
    <2>1. PICK n \in 1..MaxChunk : slowloris_kill(n)
      BY ZenonT(30) DEF Http1Next, read_headers_partial, read_headers_refused,
             read_headers_then_body, read_headers_complete, read_body_partial,
             read_body_complete, read_ignored, passes_checks, tls_bytes, conn_write_cb,
             connection_free, connection_reset_for_keepalive, conn_event_cb, Tick
    <2> QED
      BY <2>1, Http1Assumption
      DEF slowloris_kill, exceeds_max_time, throughput_too_low, check_due,
          ReadInv, Http1TypeOK, WindowInv
  <1> QED
    BY <1>1, Http1Invariant, PTL DEF Http1Spec, HeaderKillJustified

(* conn_read_cb answers or refuses a request as soon as a read finds all   *)
(* of it there, however it was cut into pieces, the end of its headers     *)
(* included, and whatever of it came during the response before.           *)
THEOREM CompleteIsAnsweredAlways == Http1Spec => CompleteIsAnswered
<1>1. ReadInv /\ [Http1Next]_http1_vars =>
        [{state, state'} \subseteq {"READING_HEADERS", "READING_BODY"}
         => IF state' = "READING_HEADERS" THEN available' < request'.headers
            ELSE body_received' < request'.body]_<<state, available, body_received>>
  <2>. SUFFICES ASSUME ReadInv, Http1Next,
                       state \in {"READING_HEADERS", "READING_BODY"},
                       state' \in {"READING_HEADERS", "READING_BODY"},
                       <<state, available, body_received>>'
                         # <<state, available, body_received>>
                PROVE  IF state' = "READING_HEADERS" THEN available' < request'.headers
                       ELSE body_received' < request'.body
    BY DEF http1_vars
  <2>1. PICK n \in 1..MaxChunk :
          read_headers_partial(n) \/ read_headers_then_body(n) \/ read_body_partial(n)
    <3>1. ASSUME NEW n \in 1..MaxChunk,
                 \/ slowloris_kill(n) \/ read_headers_refused(n) \/ read_ignored(n)
                 \/ \E keep_alive \in BOOLEAN : \/ read_headers_complete(n, keep_alive)
                                                \/ read_body_complete(n, keep_alive)
          PROVE  FALSE
      BY <3>1 DEF slowloris_kill, read_headers_refused, read_ignored,
                  read_headers_complete, read_body_complete, process_request
    <3>2. CASE conn_write_cb \/ conn_event_cb
      BY <3>2 DEF conn_write_cb, conn_event_cb, connection_free
    <3>3. CASE tls_bytes \/ Tick
      BY <3>3 DEF tls_bytes, Tick
    <3>4. QED
      BY <3>1, <3>2, <3>3 DEF Http1Next
  <2>2. CASE read_headers_partial(n)
    <3>1. available + n \in Nat
      BY Http1Assumption DEF ReadInv, Http1TypeOK
    <3>2. /\ state = "READING_HEADERS" /\ state' = "READING_HEADERS"
          /\ ~headers_found(available + n)
          /\ available' = available + n /\ request' = request
      BY <2>2 DEF read_headers_partial
    <3>3. QED
      BY <3>1, <3>2, ScannedFacts
  <2>3. CASE read_headers_then_body(n) \/ read_body_partial(n)
    BY <2>3 DEF read_headers_then_body, read_body_partial
  <2>4. QED
    BY <2>1, <2>2, <2>3
<1>2. QED
  BY <1>1, Http1Invariant, PTL DEF Http1Spec, CompleteIsAnswered

-----------------------------------------------------------------------------
(* The requests to the nodes.                                              *)

(* A timer and a handle exist only while the request is in flight.         *)
Owned ==
    \A r \in Request :
        /\ req[r].timer => InFlight(r)
        /\ req[r].cancelled => req[r].phase = "freed"

(* What the client has read agrees with what the node has answered to the  *)
(* request it was last sent.                                               *)
ReadsAnswer ==
    \A r \in Request :
        /\ req[r].phase \in {"unused", "connecting"} =>
              served[r] = "none" /\ req[r].response = "empty"
        /\ req[r].phase = "sent" /\ req[r].response = "unauthorized" =>
              served[r] = "unauthorized"

(* The node took the transaction if and only if its answer says so.        *)
AcceptedIsAnswer ==
    \A r \in Request : accepted[r] = IF served[r] = "result" THEN 1 ELSE 0

(* Cookies only grow older: what a client holds is never newer than the    *)
(* node's, and what a retry sends is not older than what it re-read.       *)
CookieOrder ==
    /\ auth_header <= cookie
    /\ \A r \in Request :
          /\ req[r].header <= cookie
          /\ req[r].refreshed <= auth_header
          /\ req[r].auth_retried /\ served[r] # "none" =>
                req[r].refreshed <= req[r].header

IInv ==
    /\ TypeOK
    /\ CallbackOnce
    /\ ListExact
    /\ Owned
    /\ ReadsAnswer
    /\ AcceptedIsAnswer
    /\ CookieOrder
-----------------------------------------------------------------------------
(* The state before the first broadcast satisfies the invariant.           *)
LEMMA InitIInv == Init => IInv
<1>. SUFFICES ASSUME Init PROVE IInv
  OBVIOUS
<1>1. MaxRestarts \in Nat /\ 0 \in Cookies
  BY RpcAssumption DEF Cookies
<1>2. req \in [Request -> RPCRequest]
  BY <1>1 DEF Init, RPCRequest
<1>3. TypeOK
  BY <1>1, <1>2 DEF Init, TypeOK
<1>4. CallbackOnce /\ ListExact
  BY DEF Init, CallbackOnce, ListExact, InFlight
<1>5. Owned /\ ReadsAnswer /\ AcceptedIsAnswer /\ CookieOrder
  BY DEF Init, Owned, ReadsAnswer, AcceptedIsAnswer, CookieOrder
<1>. QED
  BY <1>3, <1>4, <1>5 DEF IInv

(* rpc_request_complete ends a request in flight, or one that never was:   *)
(* its callback has not fired before.                                      *)
LEMMA CompleteIInv ==
    ASSUME IInv, NEW r \in Request, NEW st \in Status,
           req[r].phase # "freed",
           rpc_request_complete(r, st),
           auth_header' \in {auth_header, cookie},
           total_broadcasts' \in Nat, successful_broadcasts' \in Nat,
           failed_broadcasts' \in Nat,
           UNCHANGED node
    PROVE  IInv'
<1>1. /\ active_requests' = active_requests \ {r}
      /\ fired' = [fired EXCEPT ![r] = @ + 1]
      /\ status' = [status EXCEPT ![r] = st]
      /\ req' = [req EXCEPT ![r].phase = "freed", ![r].timer = FALSE]
      /\ UNCHANGED <<cookie, served, accepted>>
  BY DEF rpc_request_complete, node
<1>2. /\ req \in [Request -> RPCRequest]
      /\ fired \in [Request -> Nat]
      /\ status \in [Request -> Status \cup {"none"}]
      /\ active_requests \subseteq Request
      /\ auth_header \in Cookies /\ cookie \in Cookies
      /\ served \in [Request -> Reply \cup {"none", "pending"}]
      /\ accepted \in [Request -> Nat]
  BY DEF IInv, TypeOK
<1>3. /\ req' \in [Request -> RPCRequest]
      /\ \A q \in Request : q # r => req'[q] = req[q]
      /\ req'[r].phase = "freed" /\ req'[r].timer = FALSE
      /\ req'[r].cancelled = req[r].cancelled
      /\ req'[r].header = req[r].header
      /\ req'[r].refreshed = req[r].refreshed
      /\ req'[r].auth_retried = req[r].auth_retried
  <2>1. req[r] \in RPCRequest
    BY <1>2
  <2>2. req' = [req EXCEPT ![r] = [req[r] EXCEPT !.phase = "freed", !.timer = FALSE]]
    BY <1>1, ZenonT(30)
  <2>3. [req[r] EXCEPT !.phase = "freed", !.timer = FALSE] \in RPCRequest
    BY <2>1, ZenonT(30) DEF RPCRequest
  <2>4. /\ req' \in [Request -> RPCRequest]
        /\ \A q \in Request : q # r => req'[q] = req[q]
        /\ req'[r] = [req[r] EXCEPT !.phase = "freed", !.timer = FALSE]
    BY <1>2, <2>2, <2>3
  <2>. QED
    BY <2>1, <2>4 DEF RPCRequest
<1>4. TypeOK'
  BY <1>1, <1>2, <1>3 DEF TypeOK
<1>5. CallbackOnce'
  BY <1>1, <1>2, <1>3 DEF IInv, CallbackOnce, Owned
<1>6. ListExact'
  BY <1>1, <1>3 DEF IInv, ListExact, InFlight
<1>7. Owned'
  BY <1>3 DEF IInv, Owned, InFlight
<1>8. ReadsAnswer' /\ AcceptedIsAnswer'
  BY <1>1, <1>3 DEF IInv, ReadsAnswer, AcceptedIsAnswer
<1>9. CookieOrder'
  <2>1. auth_header \in Int /\ cookie \in Int
        /\ \A q \in Request : req[q].refreshed \in Int /\ req[q].header \in Int
    BY <1>2 DEF Cookies, RPCRequest
  <2>. QED
    BY <2>1, <1>1, <1>3 DEF IInv, CookieOrder
<1>. QED
  BY <1>4, <1>5, <1>6, <1>7, <1>8, <1>9 DEF IInv

(* The node restarts, or answers a request that has reached it.            *)
LEMMA NodeIInv ==
    ASSUME IInv,
           node_restarts \/ \E r \in Request, reply \in Reply : node_serves(r, reply)
    PROVE  IInv'
<1>1. UNCHANGED <<req, active_requests, auth_header, total_broadcasts,
                  successful_broadcasts, failed_broadcasts, fired, status>>
  BY DEF node_restarts, node_serves, stats
<1>2. /\ served \in [Request -> Reply \cup {"none", "pending"}]
      /\ accepted \in [Request -> Nat]
      /\ cookie \in Cookies /\ MaxRestarts \in Nat /\ auth_header \in Cookies
      /\ \A q \in Request : /\ req[q] \in RPCRequest
                            /\ req[q].header \in Cookies
                            /\ req[q].refreshed \in Cookies
  BY RpcAssumption DEF IInv, TypeOK, RPCRequest
<1>3. CallbackOnce' /\ ListExact' /\ Owned'
  BY <1>1 DEF IInv, CallbackOnce, ListExact, Owned, InFlight
<1>4. CASE node_restarts
  <2>1. cookie' = cookie + 1 /\ cookie' \in Cookies /\ UNCHANGED <<served, accepted>>
    BY <1>2, <1>4 DEF node_restarts, Cookies
  <2>2. TypeOK'
    BY <1>1, <2>1 DEF IInv, TypeOK
  <2>3. ReadsAnswer' /\ AcceptedIsAnswer'
    BY <1>1, <2>1 DEF IInv, ReadsAnswer, AcceptedIsAnswer
  <2>4. CookieOrder'
    BY <1>1, <1>2, <2>1 DEF IInv, CookieOrder, Cookies
  <2>. QED
    BY <1>3, <2>2, <2>3, <2>4 DEF IInv
<1>5. ASSUME NEW r \in Request, NEW reply \in Reply, node_serves(r, reply)
      PROVE  IInv'
  <2>1. /\ served[r] = "pending"
        /\ served' = [served EXCEPT ![r] = reply]
        /\ accepted' = [accepted EXCEPT ![r] = @ + (IF reply = "result" THEN 1 ELSE 0)]
        /\ cookie' = cookie
    BY <1>5 DEF node_serves
  <2>2. reply \notin {"none", "pending"}
    BY DEF Reply
  <2>3. served' \in [Request -> Reply \cup {"none", "pending"}]
        /\ accepted' \in [Request -> Nat]
    BY <1>2, <2>1
  <2>4. TypeOK'
    BY <1>1, <2>1, <2>3 DEF IInv, TypeOK
  <2>5. ReadsAnswer'
    BY <1>1, <1>2, <2>1 DEF IInv, ReadsAnswer
  <2>6. AcceptedIsAnswer'
    BY <1>2, <2>1 DEF IInv, AcceptedIsAnswer
  <2>7. CookieOrder'
    BY <1>1, <1>2, <2>1, <2>2 DEF IInv, CookieOrder
  <2>. QED
    BY <1>3, <2>4, <2>5, <2>6, <2>7 DEF IInv
<1>. QED
  BY <1>4, <1>5

(* A broadcast starts, its connection is made, or more of the answer is    *)
(* read.                                                                   *)
LEMMA ProgressIInv ==
    ASSUME IInv, NEW r \in Request,
           UNCHANGED <<auth_header, successful_broadcasts, failed_broadcasts,
                       cookie, accepted, fired, status>>,
           total_broadcasts' \in Nat,
           \/ /\ req[r].phase = "unused"
              /\ \E t \in BOOLEAN : req' = [req EXCEPT ![r] = rpc_async_connect(@, t)]
              /\ active_requests' = active_requests \cup {r}
              /\ UNCHANGED served
           \/ /\ req[r].phase = "connecting"
              /\ req' = [req EXCEPT ![r].phase = "sent", ![r].header = auth_header]
              /\ served' = [served EXCEPT ![r] = "pending"]
              /\ UNCHANGED active_requests
           \/ /\ req[r].phase = "sent"
              /\ \E piece \in Reply :
                    /\ piece = "unauthorized" => served[r] = "unauthorized"
                    /\ req' = [req EXCEPT ![r].response = piece]
              /\ UNCHANGED <<active_requests, served>>
    PROVE  IInv'
<1>1. /\ served \in [Request -> Reply \cup {"none", "pending"}]
      /\ accepted \in [Request -> Nat]
      /\ cookie \in Cookies /\ MaxRestarts \in Nat /\ auth_header \in Cookies
      /\ req \in [Request -> RPCRequest] /\ req[r] \in RPCRequest
      /\ \A q \in Request : /\ req[q].header \in Cookies
                            /\ req[q].refreshed \in Cookies
      /\ active_requests \subseteq Request
  BY RpcAssumption DEF IInv, TypeOK, RPCRequest
<1>. DEFINE new == req'[r]
            Effect ==
              /\ req' \in [Request -> RPCRequest]
              /\ \A q \in Request : q # r =>
                    req'[q] = req[q] /\ served'[q] = served[q]
              /\ req[r].phase \in {"unused", "connecting", "sent"}
              /\ new.phase \in {"connecting", "sent"}
              /\ new.phase = "connecting" =>
                    /\ new.response = "empty"
                    /\ req[r].phase = "unused" /\ served'[r] = "none"
              /\ new.phase = "sent" /\ new.response = "unauthorized" =>
                    served'[r] = "unauthorized"
              /\ new.cancelled = req[r].cancelled
              /\ new.auth_retried = req[r].auth_retried
              /\ new.refreshed = req[r].refreshed
              /\ \/ new.header = req[r].header /\ served'[r] = served[r]
                 \/ /\ new.header = auth_header
                    /\ served[r] = "none" /\ served'[r] = "pending"
              /\ served' \in [Request -> Reply \cup {"none", "pending"}]
              /\ active_requests' = active_requests \cup {r}
<1>2. Effect
  <2>1. ASSUME NEW t \in BOOLEAN, req[r].phase = "unused",
               req' = [req EXCEPT ![r] = rpc_async_connect(@, t)],
               active_requests' = active_requests \cup {r}, UNCHANGED served
        PROVE  Effect
    <3>1. req' = [req EXCEPT ![r] = [req[r] EXCEPT !.phase = "connecting",
                                      !.response = "empty", !.timer = t]]
      BY <2>1, ZenonT(30) DEF rpc_async_connect
    <3>2. [req[r] EXCEPT !.phase = "connecting", !.response = "empty", !.timer = t]
            \in RPCRequest
      BY <1>1, ZenonT(30) DEF RPCRequest
    <3>3. /\ req' \in [Request -> RPCRequest]
          /\ \A q \in Request : q # r => req'[q] = req[q]
          /\ new = [req[r] EXCEPT !.phase = "connecting", !.response = "empty",
                                  !.timer = t]
      BY <1>1, <3>1, <3>2
    <3>4. /\ new.phase = "connecting" /\ new.response = "empty"
          /\ new.cancelled = req[r].cancelled
          /\ new.auth_retried = req[r].auth_retried
          /\ new.refreshed = req[r].refreshed /\ new.header = req[r].header
      BY <1>1, <3>3 DEF RPCRequest
    <3>. HIDE DEF new
    <3>. QED
      BY <1>1, <2>1, <3>3, <3>4 DEF IInv, ReadsAnswer
  <2>2. ASSUME req[r].phase = "connecting",
               req' = [req EXCEPT ![r].phase = "sent", ![r].header = auth_header],
               served' = [served EXCEPT ![r] = "pending"],
               UNCHANGED active_requests
        PROVE  Effect
    <3>1. req' = [req EXCEPT ![r] = [req[r] EXCEPT !.phase = "sent",
                                                  !.header = auth_header]]
      BY <2>2, ZenonT(30)
    <3>2. [req[r] EXCEPT !.phase = "sent", !.header = auth_header] \in RPCRequest
      BY <1>1, ZenonT(30) DEF RPCRequest
    <3>3. /\ req' \in [Request -> RPCRequest]
          /\ \A q \in Request : q # r => req'[q] = req[q]
          /\ new = [req[r] EXCEPT !.phase = "sent", !.header = auth_header]
      BY <1>1, <3>1, <3>2
    <3>4. /\ new.phase = "sent" /\ new.response = req[r].response
          /\ new.cancelled = req[r].cancelled
          /\ new.auth_retried = req[r].auth_retried
          /\ new.refreshed = req[r].refreshed /\ new.header = auth_header
      BY <1>1, <3>3 DEF RPCRequest
    <3>5. r \in active_requests /\ served[r] = "none" /\ req[r].response = "empty"
      BY <2>2 DEF IInv, ListExact, InFlight, ReadsAnswer
    <3>. HIDE DEF new
    <3>. QED
      BY <1>1, <2>2, <3>3, <3>4, <3>5
  <2>3. ASSUME NEW piece \in Reply, req[r].phase = "sent",
               piece = "unauthorized" => served[r] = "unauthorized",
               req' = [req EXCEPT ![r].response = piece],
               UNCHANGED <<active_requests, served>>
        PROVE  Effect
    <3>1. req' = [req EXCEPT ![r] = [req[r] EXCEPT !.response = piece]]
      BY <2>3
    <3>2. [req[r] EXCEPT !.response = piece] \in RPCRequest
      BY <1>1 DEF RPCRequest
    <3>3. /\ req' \in [Request -> RPCRequest]
          /\ \A q \in Request : q # r => req'[q] = req[q]
          /\ new = [req[r] EXCEPT !.response = piece]
      BY <1>1, <3>1, <3>2
    <3>4. /\ new.phase = req[r].phase /\ new.response = piece
          /\ new.cancelled = req[r].cancelled
          /\ new.auth_retried = req[r].auth_retried
          /\ new.refreshed = req[r].refreshed /\ new.header = req[r].header
      BY <1>1, <3>3 DEF RPCRequest
    <3>5. r \in active_requests
      BY <2>3 DEF IInv, ListExact, InFlight
    <3>. HIDE DEF new
    <3>. QED
      BY <1>1, <2>3, <3>3, <3>4, <3>5
  <2>. HIDE DEF Effect
  <2>. QED
    BY <2>1, <2>2, <2>3
<1>3. TypeOK'
  BY <1>1, <1>2 DEF IInv, TypeOK
<1>4. CallbackOnce' /\ ListExact' /\ Owned'
  BY <1>1, <1>2 DEF IInv, CallbackOnce, ListExact, Owned, InFlight
<1>5. ReadsAnswer'
  BY <1>2 DEF IInv, ReadsAnswer
<1>6. AcceptedIsAnswer'
  BY <1>2 DEF IInv, AcceptedIsAnswer
<1>7. CookieOrder'
  BY <1>1, <1>2 DEF IInv, CookieOrder, Cookies
<1>. QED
  BY <1>3, <1>4, <1>5, <1>6, <1>7 DEF IInv

(* The request is sent again with the cookie re-read: the node has not     *)
(* taken the transaction, for it refused the request.                      *)
LEMMA RetryIInv ==
    ASSUME IInv, NEW r \in Request, NEW t \in BOOLEAN,
           req[r].phase = "sent", wants_retry(r),
           auth_header' = rpc_refresh_cookie,
           req' = [req EXCEPT ![r] =
                     [rpc_async_connect(@, t) EXCEPT !.auth_retried = TRUE,
                                                     !.refreshed = cookie]],
           served' = [served EXCEPT ![r] = "none"],
           UNCHANGED <<active_requests, fired, status, stats, cookie, accepted>>
    PROVE  IInv'
<1>1. /\ served \in [Request -> Reply \cup {"none", "pending"}]
      /\ cookie \in Cookies /\ MaxRestarts \in Nat /\ auth_header \in Cookies
      /\ req \in [Request -> RPCRequest] /\ req[r] \in RPCRequest
      /\ \A q \in Request : /\ req[q].header \in Cookies
                            /\ req[q].refreshed \in Cookies
  BY RpcAssumption DEF IInv, TypeOK, RPCRequest
<1>. DEFINE again == [req[r] EXCEPT !.phase = "connecting", !.response = "empty",
                                    !.timer = t, !.auth_retried = TRUE,
                                    !.refreshed = cookie]
<1>2. again \in RPCRequest
  BY <1>1, ZenonT(30) DEF RPCRequest
<1>3. req' = [req EXCEPT ![r] = again]
  BY DEF rpc_async_connect
<1>4. /\ req' \in [Request -> RPCRequest]
      /\ \A q \in Request : q # r => req'[q] = req[q]
      /\ req'[r].phase = "connecting" /\ req'[r].response = "empty"
      /\ req'[r].header = req[r].header
      /\ req'[r].refreshed = cookie
      /\ req'[r].cancelled = req[r].cancelled
  <2>1. /\ again.phase = "connecting" /\ again.response = "empty"
        /\ again.header = req[r].header
        /\ again.refreshed = cookie
        /\ again.cancelled = req[r].cancelled
    BY <1>1 DEF RPCRequest
  <2>. HIDE DEF again
  <2>. QED
    BY <2>1, <1>1, <1>2, <1>3, ZenonT(30)
<1>5. /\ served[r] = "unauthorized" /\ served' \in [Request -> Reply \cup {"none", "pending"}]
      /\ served'[r] = "none"
      /\ \A q \in Request : q # r => served'[q] = served[q]
      /\ auth_header' = cookie /\ cookie' = cookie /\ accepted' = accepted
      /\ ~req[r].cancelled
  BY <1>1 DEF IInv, ReadsAnswer, Owned, wants_retry, rpc_refresh_cookie
<1>6. TypeOK'
  BY <1>1, <1>4, <1>5 DEF IInv, TypeOK, stats
<1>7. CallbackOnce' /\ ListExact' /\ Owned'
  BY <1>4, <1>5 DEF IInv, CallbackOnce, ListExact, Owned, InFlight
<1>8. ReadsAnswer'
  BY <1>4, <1>5 DEF IInv, ReadsAnswer
<1>9. AcceptedIsAnswer'
  BY <1>5 DEF IInv, AcceptedIsAnswer
<1>10. CookieOrder'
  BY <1>1, <1>4, <1>5 DEF IInv, CookieOrder, Cookies
<1>. QED
  BY <1>6, <1>7, <1>8, <1>9, <1>10 DEF IInv

(* A cancellation, of one request or of all in the list, is silent.        *)
LEMMA CancelIInv ==
    ASSUME IInv,
           rpc_manager_cancel_all \/ \E r \in Request : rpc_request_cancel(r)
    PROVE  IInv'
<1>1. UNCHANGED <<auth_header, total_broadcasts, successful_broadcasts,
                  failed_broadcasts, cookie, served, accepted, fired, status>>
  BY ZenonT(30) DEF rpc_manager_cancel_all, rpc_request_cancel, stats, node
<1>2. /\ req \in [Request -> RPCRequest] /\ \A q \in Request : req[q] \in RPCRequest
      /\ active_requests \subseteq Request
  BY DEF IInv, TypeOK
<1>. DEFINE Ended(x) == [x EXCEPT !.phase = "freed", !.timer = FALSE,
                                 !.cancelled = TRUE]
            Cancelled ==
              \E S \in SUBSET active_requests :
                /\ active_requests' = active_requests \ S
                /\ req' = [q \in Request |-> IF q \in S THEN Ended(req[q]) ELSE req[q]]
<1>3. Cancelled
  <2>1. CASE rpc_manager_cancel_all
    BY <2>1, ZenonT(30) DEF rpc_manager_cancel_all
  <2>2. ASSUME NEW r \in Request, rpc_request_cancel(r)
        PROVE  Cancelled
    <3>1. /\ r \in active_requests
          /\ active_requests' = active_requests \ {r}
      BY <2>2, ZenonT(30) DEF rpc_request_cancel, IInv, ListExact
    <3>2. req' = [req EXCEPT ![r] = Ended(req[r])]
      BY <2>2, ZenonT(30) DEF rpc_request_cancel
    <3>. HIDE DEF Ended
    <3>3. req' = [q \in Request |-> IF q \in {r} THEN Ended(req[q]) ELSE req[q]]
      BY <1>2, <3>2, ZenonT(30)
    <3>. QED
      BY <3>1, <3>3, ZenonT(30)
  <2>. QED
    BY <2>1, <2>2, ZenonT(30)
<1>4. PICK S \in SUBSET active_requests :
        /\ active_requests' = active_requests \ S
        /\ req' \in [Request -> RPCRequest]
        /\ \A q \in Request : q \notin S => req'[q] = req[q]
        /\ \A q \in S : /\ req'[q].phase = "freed" /\ req'[q].cancelled
                        /\ ~req'[q].timer
                        /\ req'[q].header = req[q].header
                        /\ req'[q].refreshed = req[q].refreshed
                        /\ req'[q].auth_retried = req[q].auth_retried
  <2>1. PICK S \in SUBSET active_requests :
          /\ active_requests' = active_requests \ S
          /\ req' = [q \in Request |-> IF q \in S THEN Ended(req[q]) ELSE req[q]]
    BY <1>3, ZenonT(30)
  <2>2. \A q \in Request :
          /\ Ended(req[q]) \in RPCRequest
          /\ Ended(req[q]).phase = "freed" /\ Ended(req[q]).cancelled
          /\ ~Ended(req[q]).timer
          /\ Ended(req[q]).header = req[q].header
          /\ Ended(req[q]).refreshed = req[q].refreshed
          /\ Ended(req[q]).auth_retried = req[q].auth_retried
    BY <1>2, ZenonT(30) DEF RPCRequest
  <2>. HIDE DEF Ended
  <2>. QED
    BY <1>2, <2>1, <2>2, ZenonT(30)
<1>5. TypeOK'
  BY <1>1, <1>2, <1>4 DEF IInv, TypeOK
<1>6. CallbackOnce' /\ ListExact' /\ Owned'
  BY <1>1, <1>2, <1>4 DEF IInv, CallbackOnce, ListExact, Owned, InFlight
<1>7. ReadsAnswer' /\ AcceptedIsAnswer' /\ CookieOrder'
  BY <1>1, <1>4 DEF IInv, ReadsAnswer, AcceptedIsAnswer, CookieOrder
<1>. QED
  BY <1>5, <1>6, <1>7 DEF IInv
-----------------------------------------------------------------------------
(* The statuses a completion can carry, and that it ends a live request.   *)
LEMMA EndsIInv ==
    ASSUME IInv, NEW r \in Request,
           \/ \E st \in {"ERR_CONNECT", "ERR_MEMORY"} : broadcast_refused(r, st)
           \/ broadcast_no_connection(r)
           \/ event_error(r)
           \/ event_timeout(r)
           \/ rpc_async_timeout_cb(r)
           \/ process_refused(r)
           \/ process_answer(r)
    PROVE  IInv'
<1>1. \E st \in Status : rpc_request_complete(r, st)
  BY DEF broadcast_refused, broadcast_no_connection, event_error, event_timeout,
     rpc_async_timeout_cb, process_refused, process_answer, Status
<1>2. req[r].phase # "freed"
  BY DEF broadcast_refused, broadcast_no_connection, event_error, event_timeout,
     rpc_async_timeout_cb, process_refused, process_answer, InFlight, IInv, Owned
<1>3. /\ auth_header' = auth_header /\ UNCHANGED node
      /\ total_broadcasts' \in Nat /\ successful_broadcasts' \in Nat
      /\ failed_broadcasts' \in Nat
  BY DEF broadcast_refused, broadcast_no_connection, event_error, event_timeout,
     rpc_async_timeout_cb, process_refused, process_answer, stats, IInv, TypeOK
<1>. QED
  BY <1>1, <1>2, <1>3, CompleteIInv

(* Every step of a request in flight that does not end it, or ends it for  *)
(* want of memory or of a connection.                                      *)
LEMMA MovesIInv ==
    ASSUME IInv, NEW r \in Request,
           \/ rpc_manager_broadcast_async(r)
           \/ event_connected(r)
           \/ \E piece \in Reply : rpc_async_read_cb(r, piece)
           \/ process_retry(r)
    PROVE  IInv'
<1>1. /\ total_broadcasts \in Nat /\ successful_broadcasts \in Nat
      /\ failed_broadcasts \in Nat
      /\ "ERR_MEMORY" \in Status /\ "ERR_AUTH" \in Status
  BY DEF IInv, TypeOK, Status
<1>2. CASE rpc_manager_broadcast_async(r)
  <2>1. /\ UNCHANGED <<auth_header, successful_broadcasts, failed_broadcasts,
                       cookie, served, accepted, fired, status>>
        /\ total_broadcasts' \in Nat
        /\ req[r].phase = "unused"
        /\ active_requests' = active_requests \cup {r}
    BY <1>1, <1>2 DEF rpc_manager_broadcast_async, node
  <2>2. PICK t \in BOOLEAN : req' = [req EXCEPT ![r] = rpc_async_connect(@, t)]
    BY <1>2, ZenonT(30) DEF rpc_manager_broadcast_async
  <2>. QED
    BY <2>1, <2>2, ProgressIInv, ZenonT(30)
<1>3. CASE event_connected(r)
  <2>1. CASE rpc_request_complete(r, "ERR_MEMORY") /\ UNCHANGED served
    BY <1>1, <1>3, <2>1, CompleteIInv DEF event_connected, stats, node
  <2>2. CASE /\ req' = [req EXCEPT ![r].phase = "sent", ![r].header = auth_header]
             /\ served' = [served EXCEPT ![r] = "pending"]
             /\ UNCHANGED <<active_requests, fired, status>>
    BY <1>1, <1>3, <2>2, ProgressIInv, ZenonT(30) DEF event_connected, stats
  <2>. QED
    BY <1>3, <2>1, <2>2 DEF event_connected
<1>4. ASSUME NEW piece \in Reply, rpc_async_read_cb(r, piece)
      PROVE  IInv'
  <2>1. /\ piece = "unauthorized" => served[r] = "unauthorized"
        /\ req[r].phase = "sent"
        /\ auth_header' = auth_header /\ UNCHANGED node
        /\ total_broadcasts' = total_broadcasts
        /\ successful_broadcasts' = successful_broadcasts
        /\ failed_broadcasts' = failed_broadcasts
    BY <1>4 DEF rpc_async_read_cb, Pieces, stats
  <2>2. CASE rpc_request_complete(r, "ERR_MEMORY")
    BY <1>1, <2>1, <2>2, CompleteIInv
  <2>3. CASE /\ req' = [req EXCEPT ![r].response = piece]
             /\ UNCHANGED <<active_requests, fired, status>>
    BY <1>1, <2>1, <2>3, ProgressIInv, ZenonT(30) DEF node
  <2>. QED
    BY <1>4, <2>2, <2>3 DEF rpc_async_read_cb
<1>5. CASE process_retry(r)
  <2>1. CASE rpc_request_complete(r, "ERR_AUTH") /\ UNCHANGED served
    BY <1>1, <1>5, <2>1, CompleteIInv, ZenonT(30)
       DEF process_retry, rpc_refresh_cookie, stats,
       node
  <2>2. ASSUME NEW t \in BOOLEAN,
               req' = [req EXCEPT ![r] =
                         [rpc_async_connect(@, t) EXCEPT !.auth_retried = TRUE,
                                                         !.refreshed = cookie]],
               served' = [served EXCEPT ![r] = "none"],
               UNCHANGED <<active_requests, fired, status>>
        PROVE  IInv'
    BY <1>5, <2>2, RetryIInv, ZenonT(30) DEF process_retry
  <2>. QED
    BY <1>5, <2>1, <2>2, ZenonT(30) DEF process_retry
<1>. QED
  BY <1>2, <1>3, <1>4, <1>5

(* Every step of the client, its caller and the node keeps the invariant.  *)
LEMMA NextIInv == IInv /\ [Next]_vars => IInv'
<1>. SUFFICES ASSUME IInv, [Next]_vars PROVE IInv'
  OBVIOUS
<1>1. CASE UNCHANGED vars
  BY <1>1 DEF vars, stats, node, IInv, TypeOK, CallbackOnce, ListExact, InFlight,
     Owned, ReadsAnswer, AcceptedIsAnswer, CookieOrder
<1>2. CASE Next
  BY <1>1, <1>2, NodeIInv, EndsIInv, MovesIInv, CancelIInv DEF Next, Done
<1>. QED
  BY <1>1, <1>2

(* The inductive invariant of the client, whatever the node does.          *)
THEOREM RpcInvariant == Spec => []IInv
<1>. QED
  BY InitIInv, NextIInv, PTL DEF Spec

(* rpc_request_complete runs once for a request that is not cancelled, and *)
(* never for one that is.                                                  *)
THEOREM CallbackOnceAlways == Spec => []CallbackOnce
<1>1. IInv => CallbackOnce
  BY DEF IInv
<1>. QED
  BY <1>1, RpcInvariant, PTL

(* The list rpc_manager_cancel_all walks holds the requests in flight and  *)
(* no freed one.                                                           *)
THEOREM ListExactAlways == Spec => []ListExact
<1>1. IInv => ListExact
  BY DEF IInv
<1>. QED
  BY <1>1, RpcInvariant, PTL

(* The retry of rpc_async_process_response never hands the node a          *)
(* transaction that it has taken.                                          *)
THEOREM SubmittedOnceAlways == Spec => []SubmittedOnce
<1>1. IInv => SubmittedOnce
  BY DEF IInv, AcceptedIsAnswer, SubmittedOnce
<1>. QED
  BY <1>1, RpcInvariant, PTL

(* A retry whose cookie is refused was overtaken by another restart,       *)
(* also when other requests refreshed the shared header in between.        *)
THEOREM SecondRefusalIsNewAlways == Spec => SecondRefusalIsNew
<1>1. IInv /\ [Next]_vars =>
        [\A r \in Request :
            (/\ req[r].auth_retried /\ served[r] = "pending"
             /\ served'[r] = "unauthorized" /\ req[r].header # cookie)
            => cookie > req[r].refreshed]_vars
  <2>. SUFFICES ASSUME IInv, NEW r \in Request, req[r].auth_retried,
                       served[r] = "pending", req[r].header # cookie
                PROVE  cookie > req[r].refreshed
    OBVIOUS
  <2>1. /\ req[r].refreshed <= req[r].header
        /\ req[r].header <= cookie
    BY ZenonT(30) DEF IInv, CookieOrder
  <2>2. cookie \in Cookies /\ req[r].header \in Cookies /\ req[r].refreshed \in Cookies
    BY DEF IInv, TypeOK, RPCRequest
  <2>. QED
    BY <2>1, <2>2, RpcAssumption DEF Cookies
<1>. QED
  BY <1>1, RpcInvariant, PTL DEF Spec, SecondRefusalIsNew
=============================================================================
