-------------------------- MODULE WorkerRefinement --------------------------
(***************************************************************************)
(* Worker implements SlotPool, for any number of connections, streams and  *)
(* slots.                                                                  *)
(*                                                                         *)
(* That a step of the worker changes the slot of one holder is read off    *)
(* its assignments.  That the pool had a slot free for it follows from the *)
(* inductive invariant after the step: the counters then still equal the   *)
(* number of holders and are within the limits, and before the step the    *)
(* tier had one holder less.                                               *)
(***************************************************************************)
EXTENDS WorkerProofs

LEMMA NoSlotIsNoTier == \A t \in Tiers : t # NoSlot /\ t \in Int
BY DEF Tiers, TIER_NORMAL, TIER_LARGE, TIER_HUGE, NoSlot

(* The pool's holders are the worker's.                                    *)
LEMMA SameHolders ==
    ASSUME NEW t \in Tiers
    PROVE  Pool!Holders(t) = Cardinality(ConnHolders(t))
                           + Cardinality(StreamHolders(t))
<1>1. {c \in Conn : conn_slot[c] = t} = ConnHolders(t)
  BY NoSlotIsNoTier DEF conn_slot, ConnHolders
<1>2. {x \in Conn \X StreamIds : stream_slot[x] = t} = StreamHolders(t)
  BY NoSlotIsNoTier DEF stream_slot, StreamHolders
<1> QED
  BY <1>1, <1>2, ZenonT(30) DEF Pool!Holders, Pool!Cardinality, Cardinality

(* A tier that a connection enters had a slot free.                        *)
LEMMA ConnEnters ==
    ASSUME IInv, IInv', NEW c \in Conn, NEW r,
           conn' = [conn EXCEPT ![c] = r], stream' = stream,
           r.slot_held, r.tier \in Tiers,
           ~(conn[c].slot_held /\ conn[c].tier = r.tier)
    PROVE  Pool!Free(r.tier)
<1> DEFINE t == r.tier
<1>1. Cardinality(ConnHolders(t)') = Cardinality(ConnHolders(t)) + 1
  <2>1. ConnSlot(conn[c], t) = 0 /\ ConnSlot(r, t) = 1
    BY DEF ConnSlot
  <2>2. Cardinality(ConnHolders(t)') =
          Cardinality(ConnHolders(t)) - ConnSlot(conn[c], t) + ConnSlot(r, t)
    BY ConnUpdate, ZenonT(30) DEF IInv
  <2> QED
    BY <2>1, <2>2, HoldersFinite
<1>2. StreamHolders(t)' = StreamHolders(t)
  BY DEF StreamHolders
<1>3. slots'[t] = Cardinality(ConnHolders(t)') + Cardinality(StreamHolders(t)')
  BY DEF IInv, SlotsAccounted
<1>4. slots'[t] <= SlotMax[t]
  BY DEF IInv, WithinMax
<1> QED
  BY <1>1, <1>2, <1>3, <1>4, SameHolders, HoldersFinite, SlotMaxAssumption
     DEF Pool!Free

(* A tier that a stream enters had a slot free.                            *)
LEMMA StreamEnters ==
    ASSUME IInv, IInv', NEW z \in Conn \X StreamIds, NEW x,
           stream' = [stream EXCEPT ![z] = x], conn' = conn,
           x.slot_acquired, x.tier \in Tiers,
           ~(stream[z].slot_acquired /\ stream[z].tier = x.tier)
    PROVE  Pool!Free(x.tier)
<1> DEFINE t == x.tier
<1>1. Cardinality(StreamHolders(t)') = Cardinality(StreamHolders(t)) + 1
  <2>1. StreamSlot(stream[z], t) = 0 /\ StreamSlot(x, t) = 1
    BY DEF StreamSlot
  <2>2. Cardinality(StreamHolders(t)') =
          Cardinality(StreamHolders(t)) - StreamSlot(stream[z], t) + StreamSlot(x, t)
    BY StreamUpdate, ZenonT(30) DEF IInv
  <2> QED
    BY <2>1, <2>2, HoldersFinite
<1>2. ConnHolders(t)' = ConnHolders(t)
  BY DEF ConnHolders
<1>3. slots'[t] = Cardinality(ConnHolders(t)') + Cardinality(StreamHolders(t)')
  BY DEF IInv, SlotsAccounted
<1>4. slots'[t] <= SlotMax[t]
  BY DEF IInv, WithinMax
<1> QED
  BY <1>1, <1>2, <1>3, <1>4, SameHolders, HoldersFinite, SlotMaxAssumption
     DEF Pool!Free
-----------------------------------------------------------------------------
(* The kinds of steps.                                                     *)

PoolStep == Pool!Next \/ UNCHANGED Pool!pool

(* Where a holder may go from tier `from'.                                 *)
Onward(from, to) == to \in Tiers /\ (from < to \/ to = TIER_NORMAL \/ to = from)

(* Nothing that concerns slots.                                            *)
LEMMA NothingMoves ==
    ASSUME UNCHANGED <<conn, stream>>
    PROVE  PoolStep
BY DEF PoolStep, Pool!pool, conn_slot, stream_slot

(* One connection moves on, or stays.                                      *)
LEMMA ConnMovesOn ==
    ASSUME IInv, IInv', NEW c \in Conn, NEW r,
           conn' = [conn EXCEPT ![c] = r], stream' = stream,
           conn[c].slot_held, r.slot_held, Onward(conn[c].tier, r.tier)
    PROVE  PoolStep
<1>1. stream_slot' = stream_slot
  BY DEF stream_slot
<1>2. conn_slot' = [conn_slot EXCEPT ![c] = r.tier]
  BY ZenonT(30) DEF conn_slot, IInv, TypeOK
<1>3. conn_slot[c] = conn[c].tier /\ conn[c].tier \in Tiers
  BY DEF conn_slot, IInv, TypeOK, Connection
<1>4. CASE r.tier = conn[c].tier
  <2>1. conn_slot' = conn_slot
    BY <1>2, <1>3, <1>4 DEF conn_slot
  <2> QED
    BY <1>1, <2>1 DEF PoolStep, Pool!pool
<1>5. CASE r.tier # conn[c].tier
  <2>1. Pool!Free(r.tier)
    BY <1>5, ConnEnters, ZenonT(30) DEF Onward
  <2>2. Pool!ConnMoves(c, r.tier)
    BY <1>1, <1>2, <1>3, <1>5, <2>1, NoSlotIsNoTier
       DEF Pool!ConnMoves, Pool!MayMove, Onward
  <2> QED
    BY <2>2 DEF PoolStep, Pool!Next, Onward
<1> QED
  BY <1>4, <1>5

(* One stream moves on, or stays.                                          *)
LEMMA StreamMovesOn ==
    ASSUME IInv, IInv', NEW z \in Conn \X StreamIds, NEW x,
           stream' = [stream EXCEPT ![z] = x], conn' = conn,
           stream[z].slot_acquired, x.slot_acquired,
           Onward(stream[z].tier, x.tier)
    PROVE  PoolStep
<1>1. conn_slot' = conn_slot
  BY DEF conn_slot
<1>2. stream_slot' = [stream_slot EXCEPT ![z] = x.tier]
  BY ZenonT(30) DEF stream_slot, IInv, TypeOK
<1>3. stream_slot[z] = stream[z].tier /\ stream[z].tier \in Tiers
  BY DEF stream_slot, IInv, TypeOK, H2Stream
<1>4. CASE x.tier = stream[z].tier
  <2>1. stream_slot' = stream_slot
    BY <1>2, <1>3, <1>4 DEF stream_slot
  <2> QED
    BY <1>1, <2>1 DEF PoolStep, Pool!pool
<1>5. CASE x.tier # stream[z].tier
  <2>1. Pool!Free(x.tier)
    BY <1>5, StreamEnters, ZenonT(30) DEF Onward
  <2>2. Pool!StreamMoves(z, x.tier)
    BY <1>1, <1>2, <1>3, <1>5, <2>1, NoSlotIsNoTier
       DEF Pool!StreamMoves, Pool!MayMove, Onward
  <2> QED
    BY <2>2 DEF PoolStep, Pool!Next, Onward
<1> QED
  BY <1>4, <1>5, ZenonT(30)

(* Streams of one connection close.                                        *)
LEMMA StreamsGo ==
    ASSUME IInv, NEW c \in Conn, NEW X \in SUBSET ({c} \X StreamIds),
           stream' = [x \in Conn \X StreamIds |->
                        IF x \in X THEN FreeStream ELSE stream[x]],
           conn' = conn
    PROVE  PoolStep
<1>1. conn_slot' = conn_slot
  BY DEF conn_slot
<1>2. stream_slot' = [x \in Conn \X StreamIds |->
                         IF x \in X THEN NoSlot ELSE stream_slot[x]]
  BY DEF stream_slot, FreeStream
<1>3. Pool!StreamsLeave(X)
  BY <1>1, <1>2 DEF Pool!StreamsLeave
<1> QED
  BY <1>3, ZenonT(30) DEF PoolStep, Pool!Next

(* A connection is freed with its streams.                                 *)
LEMMA ConnGoes ==
    ASSUME IInv, NEW c \in Conn, Live(c), NEW sl, NEW r, connection_free(c, sl, r)
    PROVE  PoolStep
<1>1. conn_slot[c] # NoSlot
  BY NoSlotIsNoTier DEF conn_slot, IInv, TypeOK, Connection, OpenHoldsSlot
<1>2. conn_slot' = [conn_slot EXCEPT ![c] = NoSlot]
  BY ZenonT(30) DEF conn_slot, connection_free, FreeConnection, IInv, TypeOK
<1>3. stream_slot' = [x \in Conn \X StreamIds |->
                         IF x[1] = c THEN NoSlot ELSE stream_slot[x]]
  BY DEF stream_slot, connection_free, FreeStream
<1>4. Pool!ConnLeaves(c)
  BY <1>1, <1>2, <1>3 DEF Pool!ConnLeaves
<1> QED
  BY <1>4 DEF PoolStep, Pool!Next
-----------------------------------------------------------------------------
(* Promotion never goes down; a downgrade goes to normal or nowhere.       *)
LEMMA TierOrder ==
    ASSUME NEW tier \in Tiers, NEW required \in Tiers
    PROVE  /\ try_promote_tier(tier, required).tier \in Tiers
           /\ try_promote_tier(tier, required).tier >= tier
           /\ \A sl : downgrade_tier_to_normal(sl, tier, TRUE).tier
                         \in {tier, TIER_NORMAL}
<1>1. /\ try_promote_tier(tier, required).tier \in Tiers
      /\ try_promote_tier(tier, required).tier >= tier
  BY DEF try_promote_tier, Tiers, TIER_NORMAL, TIER_LARGE, TIER_HUGE
<1>2. ASSUME NEW sl
      PROVE  downgrade_tier_to_normal(sl, tier, TRUE).tier \in {tier, TIER_NORMAL}
  BY DEF downgrade_tier_to_normal
<1> QED
  BY <1>1, <1>2, ZenonT(30)

LEMMA OnwardUp ==
    ASSUME NEW a \in Tiers, NEW b \in Tiers, b >= a
    PROVE  Onward(a, b) /\ \A d \in {b, TIER_NORMAL} : Onward(a, d)
BY DEF Onward, Tiers, TIER_NORMAL, TIER_LARGE, TIER_HUGE

(* A live connection has a typed record and holds a slot.                  *)
LEMMA LiveHolds ==
    ASSUME IInv, NEW c \in Conn, Live(c)
    PROVE  /\ conn \in [Conn -> Connection] /\ conn[c] \in Connection
           /\ conn[c].tier \in Tiers /\ conn[c].slot_held = TRUE
           /\ conn[c].tier >= conn[c].tier
BY DEF IInv, TypeOK, Connection, OpenHoldsSlot, Tiers, TIER_NORMAL, TIER_LARGE,
       TIER_HUGE

(* A request that is answered.                                             *)
LEMMA ProcessRefines ==
    ASSUME IInv, IInv', NEW c \in Conn, Live(c), NEW p, NEW keep_alive, NEW closes,
           p.tier \in Tiers, p.tier >= conn[c].tier,
           process_request(c, p, keep_alive, closes), OthersUnchanged
    PROVE  PoolStep
<1> DEFINE d == downgrade_tier_to_normal(p.slots, p.tier, TRUE)
           r == [conn[c] EXCEPT
                  !.state = IF keep_alive /\ ~closes THEN "WRITING_RESPONSE"
                                                     ELSE "CLOSING",
                  !.protocol = "HTTP_1_1", !.tier = d.tier,
                  !.slot_held = d.held, !.keep_alive = keep_alive]
<1>1. d.tier \in {p.tier, TIER_NORMAL}
  BY TierOrder, ZenonT(30)
<1>2. conn' = [conn EXCEPT ![c] = r] /\ stream' = stream
  BY LiveHolds, ZenonT(30) DEF process_request, OthersUnchanged
<1> HIDE DEF d
<1>3. r.tier = d.tier
  BY LiveHolds DEF Connection
<1>4. Onward(conn[c].tier, r.tier)
  BY <1>1, <1>3, LiveHolds, OnwardUp, ZenonT(30)
<1>5. conn'[c] = r
  BY <1>2, LiveHolds, ZenonT(30)
<1>6. r.slot_held
  <2>1. r.state # "FREE"
    BY LiveHolds DEF Connection
  <2> HIDE DEF r
  <2>2. Live(c)' /\ conn'[c].slot_held = r.slot_held
    BY <1>5, <2>1, ZenonT(30) DEF Live
  <2> QED
    BY <2>2, ZenonT(30) DEF IInv, OpenHoldsSlot
<1> HIDE DEF r
<1> QED
  BY <1>2, <1>4, <1>6, LiveHolds, ConnMovesOn, ZenonT(30)

(* An error that is sent.                                                  *)
LEMMA ErrorRefines ==
    ASSUME IInv, IInv', NEW c \in Conn, Live(c), NEW p,
           p.tier \in Tiers, p.tier >= conn[c].tier,
           connection_send_error(c, p), OthersUnchanged
    PROVE  PoolStep
<1> DEFINE r == [conn[c] EXCEPT !.state = "CLOSING", !.protocol = "HTTP_1_1",
                                !.tier = p.tier, !.keep_alive = FALSE]
<1>1. conn' = [conn EXCEPT ![c] = r] /\ stream' = stream
  BY LiveHolds, ZenonT(30) DEF connection_send_error, OthersUnchanged
<1>2. r.tier = p.tier /\ r.slot_held
  BY LiveHolds, ZenonT(30) DEF Connection
<1>3. Onward(conn[c].tier, r.tier)
  BY <1>2, LiveHolds, OnwardUp, ZenonT(30)
<1> HIDE DEF r
<1> QED
  BY <1>1, <1>2, <1>3, LiveHolds, ConnMovesOn, ZenonT(30)
-----------------------------------------------------------------------------
(* The actions.                                                            *)

(* A connection is accepted.                                               *)
LEMMA AcceptRefines ==
    ASSUME IInv, IInv', NEW c \in Conn, NEW protocol, accept_cb(c, protocol)
    PROVE  PoolStep
<1> DEFINE r == [state |-> "READING_HEADERS", protocol |-> protocol,
                 tier |-> TIER_NORMAL, slot_held |-> TRUE,
                 keep_alive |-> TRUE, requests |-> 0]
<1>1. conn' = [conn EXCEPT ![c] = r] /\ stream' = stream /\ ~conn[c].slot_held
  BY DEF accept_cb, IInv, OpenHoldsSlot
<1>2. r.slot_held /\ r.tier = TIER_NORMAL /\ TIER_NORMAL \in Tiers
  BY DEF Tiers
<1> HIDE DEF r
<1>3. Pool!Free(TIER_NORMAL)
  BY <1>1, <1>2, ConnEnters, ZenonT(30)
<1>4. conn_slot' = [conn_slot EXCEPT ![c] = TIER_NORMAL] /\ conn_slot[c] = NoSlot
  BY <1>1, <1>2, ZenonT(30) DEF conn_slot, IInv, TypeOK
<1>5. stream_slot' = stream_slot
  BY <1>1, ZenonT(30) DEF stream_slot
<1>6. Pool!ConnTakes(c)
  BY <1>3, <1>4, <1>5 DEF Pool!ConnTakes
<1> QED
  BY <1>6, ZenonT(30) DEF PoolStep, Pool!Next

(* The HTTP/1.1 read callback.                                             *)
LEMMA ReadRefines ==
    ASSUME IInv, IInv', NEW c \in Conn, NEW required \in Tiers
    PROVE  /\ read_refused(c) => PoolStep
           /\ read_promotion_fails(c, required) => PoolStep
           /\ read_partial(c, required) => PoolStep
           /\ read_invalid(c, required) => PoolStep
           /\ \A keep_alive \in BOOLEAN :
                /\ read_headers_then_body(c, required, keep_alive) => PoolStep
                /\ \A closes \in BOOLEAN :
                     read_complete_request(c, required, keep_alive, closes)
                       => PoolStep
<1> SUFFICES ASSUME HeaderData(c)
             PROVE  /\ read_refused(c) => PoolStep
                    /\ read_promotion_fails(c, required) => PoolStep
                    /\ read_partial(c, required) => PoolStep
                    /\ read_invalid(c, required) => PoolStep
                    /\ \A keep_alive \in BOOLEAN :
                         /\ read_headers_then_body(c, required, keep_alive) => PoolStep
                         /\ \A closes \in BOOLEAN :
                              read_complete_request(c, required, keep_alive, closes)
                                => PoolStep
  BY ZenonT(30)
     DEF read_refused, read_promotion_fails, read_partial, read_invalid,
         read_headers_then_body, read_complete_request
<1> DEFINE p == try_promote_tier(conn[c].tier, required)
           same == [slots |-> slots, tier |-> conn[c].tier]
<1>1. Live(c)
  BY DEF HeaderData, Live
<1>2. /\ conn \in [Conn -> Connection] /\ conn[c] \in Connection
      /\ conn[c].tier \in Tiers /\ conn[c].slot_held = TRUE
      /\ p.tier \in Tiers /\ p.tier >= conn[c].tier
      /\ same.tier \in Tiers /\ same.tier >= conn[c].tier
      /\ Onward(conn[c].tier, p.tier)
  BY <1>1, LiveHolds, TierOrder, OnwardUp, ZenonT(30)
<1>3. ASSUME read_refused(c) \/ read_promotion_fails(c, required)
      PROVE  PoolStep
  <2>1. connection_send_error(c, same) /\ OthersUnchanged
    BY <1>3, ZenonT(30) DEF read_refused, read_promotion_fails
  <2> HIDE DEF same
  <2> QED
    BY <1>1, <1>2, <2>1, ErrorRefines, ZenonT(30)
<1>4. ASSUME read_invalid(c, required)
      PROVE  PoolStep
  <2>1. connection_send_error(c, p) /\ OthersUnchanged
    BY <1>4, ZenonT(30) DEF read_invalid
  <2> HIDE DEF p
  <2> QED
    BY <1>1, <1>2, <2>1, ErrorRefines
<1>5. ASSUME read_partial(c, required)
      PROVE  PoolStep
  <2> DEFINE r == [conn[c] EXCEPT !.tier = p.tier, !.protocol = "HTTP_1_1"]
  <2>1. conn' = [conn EXCEPT ![c] = r] /\ stream' = stream
    BY <1>2, <1>5, ZenonT(30) DEF read_partial, OthersUnchanged
  <2> HIDE DEF p
  <2>2. r.tier = p.tier /\ r.slot_held
    BY <1>2, ZenonT(30) DEF Connection
  <2> HIDE DEF r
  <2> QED
    BY <1>2, <2>1, <2>2, ConnMovesOn, ZenonT(30)
<1>6. ASSUME NEW keep_alive \in BOOLEAN,
             read_headers_then_body(c, required, keep_alive)
      PROVE  PoolStep
  <2> DEFINE r == [conn[c] EXCEPT !.state = "READING_BODY",
                     !.protocol = "HTTP_1_1", !.tier = p.tier,
                     !.keep_alive = keep_alive]
  <2>1. conn' = [conn EXCEPT ![c] = r] /\ stream' = stream
    BY <1>2, <1>6, ZenonT(30) DEF read_headers_then_body, OthersUnchanged
  <2> HIDE DEF p
  <2>2. r.tier = p.tier /\ r.slot_held
    BY <1>2 DEF Connection
  <2> HIDE DEF r
  <2> QED
    BY <1>2, <2>1, <2>2, ConnMovesOn, ZenonT(30)
<1>7. ASSUME NEW keep_alive \in BOOLEAN, NEW closes \in BOOLEAN,
             read_complete_request(c, required, keep_alive, closes)
      PROVE  PoolStep
  <2>1. process_request(c, p, keep_alive, closes) /\ OthersUnchanged
    BY <1>7, ZenonT(30) DEF read_complete_request
  <2> HIDE DEF p
  <2> QED
    BY <1>1, <1>2, <2>1, ProcessRefines
<1> QED
  BY <1>3, <1>4, <1>5, <1>6, <1>7

(* The body is complete; the response is out.                              *)
LEMMA BodyRefines ==
    ASSUME IInv, IInv', NEW c \in Conn, NEW closes \in BOOLEAN,
           read_body_complete(c, closes)
    PROVE  PoolStep
<1> DEFINE same == [slots |-> slots, tier |-> conn[c].tier]
<1>1. Live(c) /\ OthersUnchanged
      /\ process_request(c, same, conn[c].keep_alive, closes)
  BY ZenonT(30) DEF read_body_complete, Live
<1>2. same.tier \in Tiers /\ same.tier >= conn[c].tier
  BY <1>1, LiveHolds, ZenonT(30)
<1> HIDE DEF same
<1> QED
  BY <1>1, <1>2, ProcessRefines

LEMMA WriteRefines ==
    ASSUME IInv, IInv', NEW c \in Conn, conn_write_cb(c)
    PROVE  PoolStep
<1>1. Live(c)
  BY ZenonT(30) DEF conn_write_cb, Live
<1>2. CASE /\ conn' = [conn EXCEPT ![c].state = "READING_HEADERS",
                                   ![c].tier = TIER_NORMAL,
                                   ![c].requests = @ + 1]
           /\ stream' = stream
  <2> DEFINE r == [conn[c] EXCEPT !.state = "READING_HEADERS",
                     !.tier = TIER_NORMAL, !.requests = conn[c].requests + 1]
  <2>1. conn' = [conn EXCEPT ![c] = r]
    BY <1>2, <1>1, LiveHolds, ZenonT(30)
  <2>2. r.tier = TIER_NORMAL /\ r.slot_held
    BY <1>1, LiveHolds, ZenonT(30) DEF Connection
  <2>3. Onward(conn[c].tier, r.tier)
    BY <2>2, ZenonT(30) DEF Onward, Tiers
  <2> HIDE DEF r
  <2> QED
    BY <1>1, <1>2, <2>1, <2>2, <2>3, LiveHolds, ConnMovesOn, ZenonT(30)
<1>3. CASE \E sl, r : connection_free(c, sl, r)
  BY <1>1, <1>3, ConnGoes
<1> QED
  BY <1>2, <1>3, ZenonT(30) DEF conn_write_cb

(* HTTP/2 callbacks.                                                       *)
LEMMA StreamRefines ==
    ASSUME IInv, IInv', NEW c \in Conn, NEW s \in StreamIds
    PROVE  /\ h2_on_begin_headers(c, s) => PoolStep
           /\ \A required \in Tiers, valid \in BOOLEAN :
                 h2_on_path(c, s, required, valid) => PoolStep
           /\ h2_on_end_stream(c, s) => PoolStep
           /\ h2_on_stream_close(c, s) => PoolStep
<1> DEFINE z == stream[<<c, s>>]
<1>1. stream \in [Conn \X StreamIds -> H2Stream] /\ z \in H2Stream
      /\ z.tier \in Tiers /\ z.tier >= z.tier
  BY DEF IInv, TypeOK, H2Stream, Tiers, TIER_NORMAL, TIER_LARGE, TIER_HUGE
<1>2. ASSUME h2_on_begin_headers(c, s)
      PROVE  PoolStep
  <2> DEFINE x == [state |-> "OPEN", tier |-> TIER_NORMAL,
                   slot_acquired |-> TRUE, path |-> FALSE]
  <2>1. /\ stream' = [stream EXCEPT ![<<c, s>>] = x] /\ conn' = conn
        /\ ~z.slot_acquired /\ reading = c
    BY <1>2, ZenonT(30) DEF h2_on_begin_headers, H2Unchanged, IInv, OpenHoldsSlot
  <2>2. x.slot_acquired /\ x.tier = TIER_NORMAL /\ TIER_NORMAL \in Tiers
    BY ZenonT(30) DEF Tiers
  <2> HIDE DEF x
  <2>3. Pool!Free(TIER_NORMAL)
    BY <2>1, <2>2, StreamEnters, ZenonT(30)
  <2>4. /\ stream_slot' = [stream_slot EXCEPT ![<<c, s>>] = TIER_NORMAL]
        /\ stream_slot[<<c, s>>] = NoSlot
    BY <1>1, <2>1, <2>2, ZenonT(30) DEF stream_slot
  <2>5. conn_slot' = conn_slot
    BY <2>1, ZenonT(30) DEF conn_slot
  <2>6. Live(c)
    BY <2>1, WorkerAssumption DEF IInv, ReadInv, Live
  <2>7. conn_slot[c] # NoSlot
    BY <2>6, LiveHolds, NoSlotIsNoTier, ZenonT(30) DEF conn_slot
  <2>8. Pool!StreamTakes(<<c, s>>)
    BY <2>3, <2>4, <2>5, <2>7, ZenonT(30) DEF Pool!StreamTakes
  <2> QED
    BY <2>8 DEF PoolStep, Pool!Next
<1>3. ASSUME NEW required \in Tiers, NEW valid \in BOOLEAN,
             h2_on_path(c, s, required, valid)
      PROVE  PoolStep
  <2> DEFINE p == try_promote_tier(z.tier, required)
  <2>1. z.slot_acquired = TRUE /\ conn' = conn
    BY <1>1, <1>3, ZenonT(30) DEF h2_on_path, H2Unchanged, IInv, OpenHoldsSlot, Open, H2Stream
  <2>2. p.tier \in Tiers /\ Onward(z.tier, p.tier) /\ Onward(z.tier, z.tier)
    BY <1>1, TierOrder, OnwardUp, ZenonT(30)
  <2>3. CASE stream' = [stream EXCEPT ![<<c, s>>].path = TRUE,
                                      ![<<c, s>>].tier = p.tier]
    <3> DEFINE x == [z EXCEPT !.path = TRUE, !.tier = p.tier]
    <3>1. stream' = [stream EXCEPT ![<<c, s>>] = x]
      BY <1>1, <2>3, ZenonT(30)
    <3> HIDE DEF p
    <3>2. x.tier = p.tier /\ x.slot_acquired
      BY <1>1, <2>1, ZenonT(30) DEF H2Stream
    <3> HIDE DEF x
    <3> QED
      BY <2>1, <2>2, <3>1, <3>2, StreamMovesOn, ZenonT(30)
  <2>4. CASE stream' = [stream EXCEPT ![<<c, s>>].path = TRUE,
                                      ![<<c, s>>].state = "RESET"]
    <3> DEFINE x == [z EXCEPT !.path = TRUE, !.state = "RESET"]
    <3>1. stream' = [stream EXCEPT ![<<c, s>>] = x]
      BY <1>1, <2>4, ZenonT(30)
    <3>2. x.tier = z.tier /\ x.slot_acquired
      BY <1>1, <2>1, ZenonT(30) DEF H2Stream
    <3> HIDE DEF x
    <3> QED
      BY <2>1, <2>2, <3>1, <3>2, StreamMovesOn, ZenonT(30)
  <2> QED
    BY <1>3, <2>3, <2>4, ZenonT(30) DEF h2_on_path
<1>4. ASSUME h2_on_end_stream(c, s)
      PROVE  PoolStep
  <2> DEFINE d == downgrade_tier_to_normal(slots, z.tier, TRUE)
             x == [z EXCEPT !.state = "HALF_CLOSED_REMOTE", !.tier = d.tier,
                            !.slot_acquired = d.held]
  <2>1. z.slot_acquired = TRUE /\ conn' = conn
    BY <1>1, <1>4, ZenonT(30)
       DEF h2_on_end_stream, H2Unchanged, IInv, OpenHoldsSlot, Open,
                      H2Stream
  <2>2. stream' = [stream EXCEPT ![<<c, s>>] = x]
    BY <1>1, <1>4, <2>1, ZenonT(30) DEF h2_on_end_stream
  <2>3. d.tier \in {z.tier, TIER_NORMAL}
    BY <1>1, TierOrder, ZenonT(30)
  <2> HIDE DEF d
  <2>4. x.tier = d.tier /\ x.state # "FREE"
    BY <1>1, ZenonT(30) DEF H2Stream
  <2> HIDE DEF x
  <2>5. x.slot_acquired
    <3>1. stream'[<<c, s>>] = x
      BY <1>1, <2>2, ZenonT(30)
    <3> QED
      BY <2>4, <3>1, ZenonT(30) DEF IInv, OpenHoldsSlot, Open
  <2>6. Onward(z.tier, x.tier)
    BY <1>1, <2>3, <2>4, OnwardUp
  <2> QED
    BY <2>1, <2>2, <2>5, <2>6, StreamMovesOn, ZenonT(30)
<1>5. ASSUME h2_on_stream_close(c, s)
      PROVE  PoolStep
  <2> DEFINE X == {<<c, s>>}
  <2>1. X \in SUBSET ({c} \X StreamIds)
    BY SMTT(30)
  <2>2. stream' = [x \in Conn \X StreamIds |->
                     IF x \in X THEN FreeStream ELSE stream[x]]
    BY <1>1, <1>5, ZenonT(30) DEF h2_on_stream_close
  <2>3. conn' = conn
    BY <1>5, ZenonT(30) DEF h2_on_stream_close, H2Unchanged
  <2> HIDE DEF X
  <2> QED
    BY <2>1, <2>2, <2>3, StreamsGo, ZenonT(30)
<1> QED
  BY <1>2, <1>3, <1>4, <1>5, ZenonT(30)

(* A read callback starts, or returns.                                     *)
LEMMA ReadEdgesRefine ==
    ASSUME IInv, IInv', NEW c \in Conn
    PROVE  /\ h2_read_start(c) => PoolStep
           /\ h2_read_end(c) => PoolStep
<1>1. ASSUME h2_read_start(c)
      PROVE  PoolStep
  <2> DEFINE r == [conn[c] EXCEPT !.protocol = "HTTP_2"]
  <2>1. Live(c)
    BY <1>1, ZenonT(30) DEF h2_read_start, Live
  <2>2. conn' = [conn EXCEPT ![c] = r] /\ stream' = stream
    BY <1>1, <2>1, LiveHolds DEF h2_read_start
  <2>3. r.tier = conn[c].tier /\ r.slot_held
    BY <2>1, LiveHolds, ZenonT(30) DEF Connection
  <2>4. Onward(conn[c].tier, r.tier)
    BY <2>1, <2>3, LiveHolds, OnwardUp, ZenonT(30)
  <2> HIDE DEF r
  <2> QED
    BY <2>1, <2>2, <2>3, <2>4, LiveHolds, ConnMovesOn, ZenonT(30)
<1>2. ASSUME h2_read_end(c)
      PROVE  PoolStep
  <2> DEFINE X == {x \in {c} \X StreamIds : stream[x].state = "RESET"}
  <2>1. X \in SUBSET ({c} \X StreamIds)
    BY ZenonT(30)
  <2>2. conn' = conn /\ stream' = [x \in Conn \X StreamIds |->
                                     IF x \in X THEN FreeStream ELSE stream[x]]
    BY <1>2 DEF h2_read_end
  <2> HIDE DEF X
  <2> QED
    BY <2>1, <2>2, StreamsGo, ZenonT(30)
<1> QED
  BY <1>1, <1>2, ZenonT(30)

(* A connection ends.                                                      *)
LEMMA EndRefines ==
    ASSUME IInv, NEW c \in Conn,
           conn_event_cb(c) \/ read_kills(c) \/ h2_input_fails(c)
    PROVE  PoolStep
<1>1. CASE conn_event_cb(c) \/ read_kills(c)
  BY <1>1, ConnGoes, ZenonT(30) DEF conn_event_cb, read_kills
<1>2. CASE h2_input_fails(c)
  <2>1. Live(c)
    BY <1>2, WorkerAssumption, ZenonT(30) DEF h2_input_fails, IInv, ReadInv, Live
  <2> QED
    BY <1>2, <2>1, ConnGoes DEF h2_input_fails
<1> QED
  BY <1>1, <1>2
-----------------------------------------------------------------------------
(* Initially nobody holds a slot ...                                       *)
LEMMA InitRefines == Init => Pool!Init
BY DEF Init, Pool!Init, conn_slot, stream_slot, FreeConnection, FreeStream

(* ... and every callback is a step of the pool, or none.                  *)
LEMMA NextRefines ==
    IInv /\ IInv' /\ [Next]_vars => [Pool!Next]_Pool!pool
<1> SUFFICES ASSUME IInv, IInv', [Next]_vars
             PROVE  PoolStep
  BY ZenonT(30) DEF PoolStep
<1>1. ASSUME NEW c \in Conn, H1Step(c)
      PROVE  PoolStep
  <2>1. TIER_NORMAL \in Tiers
    BY ZenonT(30) DEF Tiers
  <2> QED
    BY <1>1, <2>1, ReadRefines, BodyRefines, WriteRefines DEF H1Step
<1>2. ASSUME NEW c \in Conn, H2Step(c)
      PROVE  PoolStep
  BY <1>2, ReadEdgesRefine, StreamRefines, EndRefines DEF H2Step
<1>3. ASSUME NEW c \in Conn, ConnStep(c)
      PROVE  PoolStep
  BY <1>1, <1>2, <1>3, AcceptRefines, EndRefines, ZenonT(30) DEF ConnStep
<1>4. ASSUME accept_fails \/ accept_error_cb \/ signal_cb \/ worker_exit
             \/ Done \/ UNCHANGED vars
      PROVE  PoolStep
  BY <1>4, NothingMoves, ZenonT(30)
     DEF accept_fails, accept_error_cb, signal_cb, worker_exit,
                            Done, vars
<1> QED
  BY <1>3, <1>4 DEF Next

(* The worker implements the slot pool: accept, promotion, downgrade,      *)
(* keep-alive reset, stream reset and free, on any number of connections   *)
(* and streams, only ever give out, move and take back slots as SlotPool   *)
(* allows.                                                                 *)
THEOREM WorkerImplementsSlotPool == Spec => ImplementsSlotPool
BY InitRefines, NextRefines, WorkerInvariant, PTL
   DEF Spec, ImplementsSlotPool, Pool!Spec
=============================================================================
