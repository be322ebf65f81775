------------------------------- MODULE Worker -------------------------------
(***************************************************************************)
(* One worker process: the accept callbacks (worker.c), the HTTP/1.1       *)
(* connection state machine (connection.c), the HTTP/2 streams (http2.c),  *)
(* the tier slots they share (slot_manager.c) and the graceful drain.      *)
(*                                                                         *)
(* The worker is one libevent loop.  A callback runs to completion before  *)
(* the next one starts, so each action is one callback.  The exception is  *)
(* the HTTP/2 read callback, which calls back into http2.c once per frame: *)
(* `reading' names the connection whose read callback is still running and *)
(* nothing else happens until it returns.                                  *)
(*                                                                         *)
(* Bytes, addresses and clocks are abstracted to the choice they lead to:  *)
(* the tier a buffer length asks for, whether the headers are complete and *)
(* well formed, whether a timer fires.                                     *)
(***************************************************************************)
EXTENDS SlotManager, FiniteSets

CONSTANTS Conn,           \* memory for Connection objects
          StreamIds,      \* HTTP/2 streams of one connection
          MaxRequests,    \* bound: keep-alive requests one client sends
          NoConn          \* "no read callback is running"

ASSUME WorkerAssumption ==
    /\ IsFiniteSet(Conn)
    /\ IsFiniteSet(StreamIds)
    /\ MaxRequests \in Nat
    /\ NoConn \notin Conn

VARIABLES
    slots,                \* worker->slots
    conn,                 \* the Connection objects
    stream,               \* the H2Stream objects of each connection
    active_connections,   \* worker->active_connections
    draining,             \* worker->draining
    listening,            \* the listeners are enabled (~listener_disabled)
    loop,                 \* why event_base_loopexit was called, if it was
    exited,               \* event_base_dispatch returned, the process is gone
    reading               \* the HTTP/2 read callback in progress

vars == <<slots, conn, stream, active_connections, draining, listening,
          loop, exited, reading>>

ConnStates   == {"READING_HEADERS", "READING_BODY", "WRITING_RESPONSE",
                 "CLOSING"}
StreamStates == {"OPEN", "HALF_CLOSED_REMOTE", "RESET"}

Connection ==
    [state : ConnStates \cup {"FREE"}, protocol : {"TLS", "HTTP_1_1", "HTTP_2"},
     tier : Tiers, slot_held : BOOLEAN, keep_alive : BOOLEAN,
     requests : 0..MaxRequests]
H2Stream ==
    [state : StreamStates \cup {"FREE"}, tier : Tiers,
     slot_acquired : BOOLEAN, path : BOOLEAN]

FreeConnection ==
    [state |-> "FREE", protocol |-> "HTTP_1_1", tier |-> TIER_NORMAL,
     slot_held |-> FALSE, keep_alive |-> FALSE, requests |-> 0]
FreeStream ==
    [state |-> "FREE", tier |-> TIER_NORMAL, slot_acquired |-> FALSE,
     path |-> FALSE]

Live(c) == conn[c].state # "FREE"
Open(c, s) == stream[<<c, s>>].state # "FREE"

(* The event loop is between two callbacks.                                *)
Idle == ~exited /\ reading = NoConn

TypeOK ==
    /\ slots \in [Tiers -> Nat]
    /\ conn \in [Conn -> Connection]
    /\ stream \in [Conn \X StreamIds -> H2Stream]
    /\ active_connections \in Nat
    /\ draining \in BOOLEAN
    /\ listening \in BOOLEAN
    /\ loop \in {"running", "drained", "accept_error"}
    /\ exited \in BOOLEAN
    /\ reading \in Conn \cup {NoConn}

Init ==
    /\ slots = slot_manager_init
    /\ conn = [c \in Conn |-> FreeConnection]
    /\ stream = [x \in Conn \X StreamIds |-> FreeStream]
    /\ active_connections = 0
    /\ draining = FALSE
    /\ listening = TRUE
    /\ loop = "running"
    /\ exited = FALSE
    /\ reading = NoConn
-----------------------------------------------------------------------------
(* Draining and freeing a connection.                                      *)

(* Faulty variants: the last connection is not waited for; the test is     *)
(* made only the first time, when the listeners are disabled.              *)
FaultyDrainTooEarly(d, active) ==
    /\ listening' = (listening /\ ~d)
    /\ loop' = IF d /\ active <= 1 /\ loop = "running" THEN "drained" ELSE loop
FaultyDrainOnce(d, active) ==
    /\ listening' = (listening /\ ~d)
    /\ loop' = IF d /\ listening /\ active = 0 THEN "drained" ELSE loop

(* Once the worker drains, the listeners are disabled, and the loop is     *)
(* told to stop as soon as no connection is left.                          *)
worker_check_drain(d, active) ==
    /\ listening' = (listening /\ ~d)
    /\ loop' = IF d /\ active = 0 /\ loop = "running" THEN "drained" ELSE loop

(* Faulty variant: slots are returned whether or not they are held.        *)
FaultyStreamFree(sl, X) ==
    [t \in Tiers |-> sl[t] - Cardinality({x \in X : stream[x].tier = t})]

(* h2_stream_free of a set of streams: each one gives its slot back.       *)
h2_stream_free(sl, X) ==
    [t \in Tiers |->
        LET n == Cardinality({x \in X : stream[x].slot_acquired
                                         /\ stream[x].tier = t})
        IN  IF sl[t] >= n THEN sl[t] - n ELSE 0]

(* h2_connection_free: the list of the connection's streams is emptied.    *)
h2_connection_free(sl, c) == h2_stream_free(sl, {c} \X StreamIds)

(* connection_free of a connection whose record is now r, after the caller *)
(* brought the slot counters to sl.                                        *)
connection_free(c, sl, r) ==
    LET rest == h2_connection_free(sl, c)
    IN  /\ slots' = IF r.slot_held THEN slot_manager_release(rest, r.tier)
                                   ELSE rest
        /\ conn' = [conn EXCEPT ![c] = FreeConnection]
        /\ stream' = [x \in Conn \X StreamIds |->
                         IF x[1] = c THEN FreeStream ELSE stream[x]]
        /\ active_connections' = active_connections - 1
        /\ worker_check_drain(draining, active_connections - 1)
        /\ UNCHANGED <<draining, exited>>

(* Faulty variant: the drain starts without looking for connections.       *)
FaultySignal ==
    /\ Idle
    /\ draining' = TRUE
    /\ listening' = FALSE
    /\ UNCHANGED <<slots, conn, stream, active_connections, loop, exited,
                   reading>>

(* SIGUSR1.                                                                *)
signal_cb ==
    /\ Idle
    /\ draining' = TRUE
    /\ worker_check_drain(TRUE, active_connections)
    /\ UNCHANGED <<slots, conn, stream, active_connections, exited, reading>>

(* event_base_dispatch returns and the process exits.                      *)
worker_exit ==
    /\ Idle
    /\ loop # "running"
    /\ exited' = TRUE
    /\ UNCHANGED <<slots, conn, stream, active_connections, draining,
                   listening, loop, reading>>
-----------------------------------------------------------------------------
(* Accepting.  A client that the access list blocks, the rate limiter or   *)
(* the slot limit turns away is answered and closed on the spot: none of   *)
(* this module's state changes.                                            *)

Admitted ==
    /\ Idle
    /\ listening
    /\ ~draining
    /\ slot_available(slots, TIER_NORMAL)

(* accept_cb (HTTP_1_1) and tls_accept_cb (TLS).                           *)
accept_cb(c, protocol) ==
    /\ Admitted
    /\ ~Live(c)
    /\ slots' = slot_manager_acquire(slots, TIER_NORMAL)
    /\ active_connections' = active_connections + 1
    /\ conn' = [conn EXCEPT ![c] =
                  [state |-> "READING_HEADERS", protocol |-> protocol,
                   tier |-> TIER_NORMAL, slot_held |-> TRUE,
                   keep_alive |-> TRUE, requests |-> 0]]
    /\ UNCHANGED <<stream, draining, listening, loop, exited, reading>>

(* Faulty variant: active_connections is not taken back.                   *)
FaultyAcceptFails ==
    /\ Admitted
    /\ active_connections' = active_connections + 1
    /\ UNCHANGED <<slots, conn, stream, draining, listening, loop, exited,
                   reading>>

(* The SSL object, the bufferevent or the Connection cannot be allocated:  *)
(* what the accept callback counted is taken back.                         *)
accept_fails ==
    /\ Admitted
    /\ LET taken == slot_manager_acquire(slots, TIER_NORMAL)
       IN  slots' = slot_manager_release(taken, TIER_NORMAL)
    /\ active_connections' = (active_connections + 1) - 1
    /\ UNCHANGED <<conn, stream, draining, listening, loop, exited, reading>>

(* A fatal accept error stops the loop whatever connections are open.      *)
accept_error_cb ==
    /\ Idle
    /\ listening
    /\ loop' = "accept_error"
    /\ UNCHANGED <<slots, conn, stream, active_connections, draining,
                   listening, exited, reading>>
-----------------------------------------------------------------------------
(* HTTP/1.1.  The read callback acts on the whole input buffer; `required' *)
(* is the tier its length asks for (size_to_tier).                         *)

required_ok(tier, required) ==
    tier >= required \/ can_promote(slots, tier, required)

(* try_promote_tier, when it succeeds: the slots and the tier it leaves.   *)
try_promote_tier(tier, required) ==
    IF tier >= required
    THEN [slots |-> slots, tier |-> tier]
    ELSE [slots |-> slot_manager_promote(slots, tier, required),
          tier  |-> required]

(* Faulty variants: the expensive slot is not taken again when no normal   *)
(* one is free; the expensive slot is kept.                                *)
FaultyDowngradeLoses(sl, tier, held) ==
    LET rest == slot_manager_release(sl, tier)
    IN  IF ~held \/ tier = TIER_NORMAL
        THEN [slots |-> sl, tier |-> tier, held |-> held]
        ELSE IF slot_available(rest, TIER_NORMAL)
             THEN [slots |-> slot_manager_acquire(rest, TIER_NORMAL),
                   tier |-> TIER_NORMAL, held |-> TRUE]
             ELSE [slots |-> rest, tier |-> tier, held |-> FALSE]
FaultyDowngradeKeeps(sl, tier, held) ==
    [slots |-> sl, tier |-> tier, held |-> held]

(* downgrade_tier_to_normal, and h2_downgrade_tier_to_normal, which is the *)
(* same code for a stream: give the large or huge slot back, take a normal *)
(* one, or the old one again, or be left with none.                        *)
downgrade_tier_to_normal(sl, tier, held) ==
    LET rest == slot_manager_release(sl, tier)
    IN  CASE ~held \/ tier = TIER_NORMAL ->
                 [slots |-> sl, tier |-> tier, held |-> held]
          [] held /\ tier # TIER_NORMAL /\ slot_available(rest, TIER_NORMAL) ->
                 [slots |-> slot_manager_acquire(rest, TIER_NORMAL),
                  tier  |-> TIER_NORMAL, held |-> TRUE]
          [] held /\ tier # TIER_NORMAL /\ ~slot_available(rest, TIER_NORMAL)
                  /\ slot_available(rest, tier) ->
                 [slots |-> slot_manager_acquire(rest, tier),
                  tier  |-> tier, held |-> TRUE]
          [] OTHER ->
                 [slots |-> rest, tier |-> tier, held |-> FALSE]

(* The connection's request is complete: release the expensive slot, then  *)
(* process_request writes a response.  `closes' are the routes that close  *)
(* whatever the client asked for (/metrics, a missing ACME token).         *)
process_request(c, p, keep_alive, closes) ==
    LET d == downgrade_tier_to_normal(p.slots, p.tier, conn[c].slot_held)
    IN  /\ slots' = d.slots
        /\ conn' = [conn EXCEPT
              ![c].state = IF keep_alive /\ ~closes THEN "WRITING_RESPONSE"
                                                    ELSE "CLOSING",
              ![c].protocol = "HTTP_1_1",
              ![c].tier = d.tier,
              ![c].slot_held = d.held,
              ![c].keep_alive = keep_alive]

(* connection_send_error, after the tier was brought to p.                 *)
connection_send_error(c, p) ==
    /\ slots' = p.slots
    /\ conn' = [conn EXCEPT ![c].state = "CLOSING",
                            ![c].protocol = "HTTP_1_1",
                            ![c].tier = p.tier,
                            ![c].keep_alive = FALSE]

OthersUnchanged ==
    UNCHANGED <<stream, active_connections, draining, listening, loop,
                exited, reading>>

(* Data arrives on an HTTP/1.1 connection that waits for headers; on a TLS *)
(* connection the first data also settles the protocol (ALPN).             *)
HeaderData(c) ==
    /\ Idle
    /\ conn[c].state = "READING_HEADERS"
    /\ conn[c].protocol \in {"HTTP_1_1", "TLS"}
    /\ conn[c].requests < MaxRequests

(* More than max_buffer_size bytes (413), or no slot in the tier the       *)
(* buffer needs (503).                                                     *)
read_refused(c) ==
    /\ HeaderData(c)
    /\ connection_send_error(c, [slots |-> slots, tier |-> conn[c].tier])
    /\ OthersUnchanged

read_promotion_fails(c, required) ==
    /\ HeaderData(c)
    /\ ~required_ok(conn[c].tier, required)
    /\ connection_send_error(c, [slots |-> slots, tier |-> conn[c].tier])
    /\ OthersUnchanged

(* The headers are incomplete and valid so far.                            *)
read_partial(c, required) ==
    /\ HeaderData(c)
    /\ required_ok(conn[c].tier, required)
    /\ LET p == try_promote_tier(conn[c].tier, required)
       IN  /\ slots' = p.slots
           /\ conn' = [conn EXCEPT ![c].tier = p.tier,
                                   ![c].protocol = "HTTP_1_1"]
    /\ OthersUnchanged

(* The path or the headers are malformed (400), or Content-Length exceeds  *)
(* max_buffer_size (413): the tier was promoted first.                     *)
read_invalid(c, required) ==
    /\ HeaderData(c)
    /\ required_ok(conn[c].tier, required)
    /\ connection_send_error(c, try_promote_tier(conn[c].tier, required))
    /\ OthersUnchanged

(* The headers are complete and announce a body that is not all here.      *)
read_headers_then_body(c, required, keep_alive) ==
    /\ HeaderData(c)
    /\ required_ok(conn[c].tier, required)
    /\ LET p == try_promote_tier(conn[c].tier, required)
       IN  /\ slots' = p.slots
           /\ conn' = [conn EXCEPT ![c].state = "READING_BODY",
                                   ![c].protocol = "HTTP_1_1",
                                   ![c].tier = p.tier,
                                   ![c].keep_alive = keep_alive]
    /\ OthersUnchanged

read_complete_request(c, required, keep_alive, closes) ==
    /\ HeaderData(c)
    /\ required_ok(conn[c].tier, required)
    /\ process_request(c, try_promote_tier(conn[c].tier, required),
                       keep_alive, closes)
    /\ OthersUnchanged

read_body_complete(c, closes) ==
    /\ Idle
    /\ conn[c].state = "READING_BODY"
    /\ process_request(c, [slots |-> slots, tier |-> conn[c].tier],
                       conn[c].keep_alive, closes)
    /\ OthersUnchanged

(* The response is written.  A closing connection is freed; a keep-alive   *)
(* one is reset (connection_reset_for_keepalive), which trades a large or  *)
(* huge slot it could not give back earlier for a normal one, or closes    *)
(* the connection when there is none.                                      *)
conn_write_cb(c) ==
    /\ Idle
    /\ conn[c].state \in {"WRITING_RESPONSE", "CLOSING"}
    /\ LET r       == conn[c]
           rest    == slot_manager_release(slots, r.tier)
           trade   == r.slot_held /\ r.tier # TIER_NORMAL
           stays   == trade => slot_available(rest, TIER_NORMAL)
       IN  \/ /\ r.state = "CLOSING"
              /\ connection_free(c, slots, r)
           \/ /\ r.state = "WRITING_RESPONSE"
              /\ ~stays
              /\ connection_free(c, rest, [r EXCEPT !.tier = TIER_NORMAL,
                                                    !.slot_held = FALSE])
           \/ /\ r.state = "WRITING_RESPONSE"
              /\ stays
              /\ slots' = IF trade THEN slot_manager_acquire(rest, TIER_NORMAL)
                                   ELSE slots
              /\ conn' = [conn EXCEPT ![c].state = "READING_HEADERS",
                                      ![c].tier = TIER_NORMAL,
                                      ![c].requests = @ + 1]
              /\ UNCHANGED <<stream, active_connections, draining, listening,
                             loop, exited>>
    /\ UNCHANGED reading

(* Timeout, socket or TLS error, end of file.                              *)
conn_event_cb(c) ==
    /\ Idle
    /\ Live(c)
    /\ connection_free(c, slots, conn[c])
    /\ UNCHANGED reading

(* The read callback ends the connection before it looks at the data: the  *)
(* HTTP/2 session cannot be set up, or a slowloris check fails.            *)
read_kills(c) ==
    /\ Idle
    /\ Live(c)
    /\ connection_free(c, slots, conn[c])
    /\ UNCHANGED reading
-----------------------------------------------------------------------------
(* HTTP/2.  h2_read_start .. h2_read_end is one run of the read callback;  *)
(* in between nghttp2 calls back for the frames in the input.              *)

h2_read_start(c) ==
    /\ Idle
    /\ conn[c].state = "READING_HEADERS"
    /\ conn[c].protocol \in {"HTTP_2", "TLS"}
    /\ conn' = [conn EXCEPT ![c].protocol = "HTTP_2"]
    /\ reading' = c
    /\ UNCHANGED <<slots, stream, active_connections, draining, listening,
                   loop, exited>>

H2Unchanged ==
    UNCHANGED <<conn, active_connections, draining, listening, loop, exited,
                reading>>

(* A request's HEADERS frame opens a stream if a normal slot is free, and  *)
(* otherwise leaves no trace here.                                         *)
h2_on_begin_headers(c, s) ==
    /\ reading = c
    /\ ~Open(c, s)
    /\ slot_available(slots, TIER_NORMAL)
    /\ slots' = slot_manager_acquire(slots, TIER_NORMAL)
    /\ stream' = [stream EXCEPT ![<<c, s>>] =
                     [state |-> "OPEN", tier |-> TIER_NORMAL,
                      slot_acquired |-> TRUE, path |-> FALSE]]
    /\ H2Unchanged

(* The :path header: reset the stream when it is not valid hex or no slot  *)
(* of the tier its length needs is free, else promote.                     *)
h2_on_path(c, s, required, valid) ==
    LET tier == stream[<<c, s>>].tier
        ok   == valid /\ required_ok(tier, required)
        p    == try_promote_tier(tier, required)
    IN  /\ reading = c
        /\ stream[<<c, s>>].state = "OPEN"
        /\ ~stream[<<c, s>>].path
        /\ \/ /\ ok
              /\ slots' = p.slots
              /\ stream' = [stream EXCEPT ![<<c, s>>].path = TRUE,
                                          ![<<c, s>>].tier = p.tier]
           \/ /\ ~ok
              /\ slots' = slots
              /\ stream' = [stream EXCEPT ![<<c, s>>].path = TRUE,
                                          ![<<c, s>>].state = "RESET"]
        /\ H2Unchanged

(* END_STREAM on HEADERS or DATA: answer, then release the expensive slot. *)
h2_on_end_stream(c, s) ==
    LET x == stream[<<c, s>>]
        d == downgrade_tier_to_normal(slots, x.tier, x.slot_acquired)
    IN  /\ reading = c
        /\ x.state = "OPEN"
        /\ slots' = d.slots
        /\ stream' = [stream EXCEPT ![<<c, s>>].state = "HALF_CLOSED_REMOTE",
                                    ![<<c, s>>].tier = d.tier,
                                    ![<<c, s>>].slot_acquired = d.held]
        /\ H2Unchanged

(* The peer resets a stream, or its response is out.                       *)
h2_on_stream_close(c, s) ==
    /\ reading = c
    /\ Open(c, s)
    /\ slots' = h2_stream_free(slots, {<<c, s>>})
    /\ stream' = [stream EXCEPT ![<<c, s>>] = FreeStream]
    /\ H2Unchanged

(* Faulty variant: refused streams stay in the connection's list.          *)
FaultyReadEnd(c) ==
    /\ reading = c
    /\ reading' = NoConn
    /\ UNCHANGED <<slots, conn, stream, active_connections, draining,
                   listening, loop, exited>>

(* Before the read callback returns, nghttp2_session_send sends the        *)
(* RST_STREAM frames and closes the streams they reset.                    *)
h2_read_end(c) ==
    LET refused == {x \in {c} \X StreamIds : stream[x].state = "RESET"}
    IN  /\ reading = c
        /\ slots' = h2_stream_free(slots, refused)
        /\ stream' = [x \in Conn \X StreamIds |->
                         IF x \in refused THEN FreeStream ELSE stream[x]]
        /\ reading' = NoConn
        /\ UNCHANGED <<conn, active_connections, draining, listening, loop,
                       exited>>

(* nghttp2 reports an error: the connection is freed with its streams.     *)
h2_input_fails(c) ==
    /\ reading = c
    /\ connection_free(c, slots, conn[c])
    /\ reading' = NoConn
-----------------------------------------------------------------------------
(* An exited worker does nothing more.                                     *)
Done == exited /\ UNCHANGED vars

H1Step(c) ==
    \/ read_refused(c)
    \/ \E required \in Tiers :
          \/ read_promotion_fails(c, required)
          \/ read_partial(c, required)
          \/ read_invalid(c, required)
          \/ \E keep_alive \in BOOLEAN :
                \/ read_headers_then_body(c, required, keep_alive)
                \/ \E closes \in BOOLEAN :
                      read_complete_request(c, required, keep_alive, closes)
    \/ \E closes \in BOOLEAN : read_body_complete(c, closes)
    \/ conn_write_cb(c)

H2Step(c) ==
    \/ h2_read_start(c)
    \/ \E s \in StreamIds :
          \/ h2_on_begin_headers(c, s)
          \/ \E required \in Tiers, valid \in BOOLEAN :
                h2_on_path(c, s, required, valid)
          \/ h2_on_end_stream(c, s)
          \/ h2_on_stream_close(c, s)
    \/ h2_read_end(c)
    \/ h2_input_fails(c)

ConnStep(c) ==
    \/ \E protocol \in {"HTTP_1_1", "TLS"} : accept_cb(c, protocol)
    \/ H1Step(c)
    \/ H2Step(c)
    \/ conn_event_cb(c)
    \/ read_kills(c)

Next ==
    \/ \E c \in Conn : ConnStep(c)
    \/ accept_fails
    \/ accept_error_cb
    \/ signal_cb
    \/ worker_exit
    \/ Done

Spec == Init /\ [][Next]_vars
-----------------------------------------------------------------------------
(* Fairness.  libevent runs every callback whose event is ready before it  *)
(* polls again.  A connection on which nothing arrives is freed by its     *)
(* 30 s read timer, and one on which data keeps arriving by the 120 s      *)
(* limit on a request (HTTP/1.1) or on the connection (HTTP/2).  On the    *)
(* TLS port this supposes that the client completes its records, since the *)
(* limit is tested only when there is something to read.  Strong fairness: *)
(* another connection's read callback may be running when the event        *)
(* becomes ready.  nghttp2 returns once it has consumed its input, and a   *)
(* loop that was told to exit exits.                                       *)
Fairness ==
    /\ \A c \in Conn : /\ SF_vars(conn_event_cb(c) \/ read_kills(c))
                       /\ WF_vars(h2_read_end(c))
    /\ WF_vars(worker_exit)

FairSpec == Spec /\ Fairness
-----------------------------------------------------------------------------
(* Properties.                                                             *)

ConnHolders(t) == {c \in Conn : conn[c].slot_held /\ conn[c].tier = t}
StreamHolders(t) ==
    {x \in Conn \X StreamIds : stream[x].slot_acquired /\ stream[x].tier = t}

(* Every slot counter equals the number of connections and streams that    *)
(* will give that slot back: no path through accept, promotion, downgrade, *)
(* keep-alive reset, stream reset or free leaks a slot or returns it twice *)
(* (slot_manager_release would hide the latter by stopping at zero).       *)
SlotsAccounted ==
    \A t \in Tiers : slots[t] = Cardinality(ConnHolders(t))
                               + Cardinality(StreamHolders(t))

(* The connections and streams working in a tier never outnumber its       *)
(* configured slots: the memory budget the tiers exist for.                *)
TierCapacity ==
    \A t \in Tiers : Cardinality(ConnHolders(t)) + Cardinality(StreamHolders(t))
                        <= SlotMax[t]

(* Every open connection and every open stream holds a slot, so the        *)
(* branch "Lost both slots - mark as not held" of the two downgrade        *)
(* functions is never taken and no request is served outside the limits.   *)
OpenHoldsSlot ==
    /\ \A c \in Conn : conn[c].slot_held <=> Live(c)
    /\ \A c \in Conn, s \in StreamIds : stream[<<c, s>>].slot_acquired <=> Open(c, s)

(* No stream outlives its connection, none exists on an HTTP/1.1           *)
(* connection, and none that was refused is left once the read callback    *)
(* returned.                                                               *)
StreamsOwned ==
    \A c \in Conn, s \in StreamIds :
        Open(c, s) => /\ conn[c].state = "READING_HEADERS"
                      /\ conn[c].protocol = "HTTP_2"
                      /\ stream[<<c, s>>].state = "RESET" => reading = c

(* active_connections counts the open connections exactly.  The drain test *)
(* compares it with zero, so one lost decrement keeps a worker for ever    *)
(* and one decrement too many cuts clients off.                            *)
ActiveAccounted == active_connections = Cardinality({c \in Conn : Live(c)})

(* A draining worker without connections has been told to exit: the last   *)
(* close and the drain signal cannot miss each other.                      *)
NoLostDrain == draining /\ active_connections = 0 => loop # "running"

(* A loop stopped by the drain has no open connection: a graceful exit     *)
(* never cuts a client off, and nothing was accepted after the decision.   *)
DrainedIsEmpty == loop = "drained" => \A c \in Conn : ~Live(c)

(* "Release large/huge slot ASAP - only needed for receiving": a request   *)
(* that starts its response with an expensive slot still held does so only *)
(* because every normal slot is taken.  (HTTP/1.1 connections that are     *)
(* kept alive: one that closes after its response passes no such state.)   *)
ExpensiveSlotReturned ==
    [][\A c \in Conn :
          (conn[c].state # "WRITING_RESPONSE" /\ conn'[c].state = "WRITING_RESPONSE"
           /\ conn'[c].tier # TIER_NORMAL)
          => slots'[TIER_NORMAL] >= SlotMax[TIER_NORMAL]]_vars

(* A worker told to drain exits, if each client sends finitely many        *)
(* keep-alive requests and none feeds an unfinished TLS record for ever.   *)
DrainCompletes == draining ~> exited

(* The worker implements the slot pool: every callback, whatever it does   *)
(* to the counters on the way, gives out, moves or takes back slots as     *)
(* SlotPool allows: at most one holder moves, never above a tier's limit,  *)
(* never downwards except to normal, and a connection that is freed takes  *)
(* the slots of all its streams with it.                                   *)
NoSlot == -1
conn_slot ==
    [c \in Conn |-> IF conn[c].slot_held THEN conn[c].tier ELSE NoSlot]
stream_slot ==
    [x \in Conn \X StreamIds |->
        IF stream[x].slot_acquired THEN stream[x].tier ELSE NoSlot]

Pool == INSTANCE SlotPool WITH Lowest <- TIER_NORMAL

(* The specification above, as a property of the worker.                   *)
ImplementsSlotPool == Pool!Spec
=============================================================================
