------------------------------ MODULE SlotPool ------------------------------
(***************************************************************************)
(* What the tier slots promise, without counters, buffers or callbacks:    *)
(* who holds a slot of which tier.  A connection or a stream holds at most *)
(* one slot, a tier never has more holders than slots, and a stream holds  *)
(* a slot only while its connection does.  Worker implements this          *)
(* specification with three counters and a flag and a tier per holder.     *)
(***************************************************************************)
EXTENDS Integers, FiniteSets

CONSTANTS Conn, StreamIds,
          Tiers,          \* numbered by size
          Lowest,         \* the tier every holder starts in
          SlotMax,        \* slots of each tier
          NoSlot          \* not a tier

VARIABLES conn_slot, stream_slot

pool == <<conn_slot, stream_slot>>

Holders(t) == Cardinality({c \in Conn : conn_slot[c] = t})
              + Cardinality({x \in Conn \X StreamIds : stream_slot[x] = t})

Free(t) == Holders(t) < SlotMax[t]

Init ==
    /\ conn_slot = [c \in Conn |-> NoSlot]
    /\ stream_slot = [x \in Conn \X StreamIds |-> NoSlot]

(* A newcomer gets a slot of the lowest tier if there is one.              *)
ConnTakes(c) ==
    /\ conn_slot[c] = NoSlot
    /\ Free(Lowest)
    /\ conn_slot' = [conn_slot EXCEPT ![c] = Lowest]
    /\ UNCHANGED stream_slot

StreamTakes(x) ==
    /\ conn_slot[x[1]] # NoSlot
    /\ stream_slot[x] = NoSlot
    /\ Free(Lowest)
    /\ stream_slot' = [stream_slot EXCEPT ![x] = Lowest]
    /\ UNCHANGED conn_slot

(* A holder moves to a higher tier, or back to the lowest, if a slot is    *)
(* free there; it never holds two slots, nor none, in between.             *)
MayMove(from, to) == from # NoSlot /\ (from < to \/ to = Lowest) /\ Free(to)

ConnMoves(c, to) ==
    /\ MayMove(conn_slot[c], to)
    /\ conn_slot' = [conn_slot EXCEPT ![c] = to]
    /\ UNCHANGED stream_slot

StreamMoves(x, to) ==
    /\ MayMove(stream_slot[x], to)
    /\ stream_slot' = [stream_slot EXCEPT ![x] = to]
    /\ UNCHANGED conn_slot

(* Streams give their slots back, several at once when their connection is *)
(* flushed; a connection gives back its streams' slots with its own.       *)
StreamsLeave(X) ==
    /\ stream_slot' = [x \in Conn \X StreamIds |->
                          IF x \in X THEN NoSlot ELSE stream_slot[x]]
    /\ UNCHANGED conn_slot

ConnLeaves(c) ==
    /\ conn_slot[c] # NoSlot
    /\ conn_slot' = [conn_slot EXCEPT ![c] = NoSlot]
    /\ stream_slot' = [x \in Conn \X StreamIds |->
                          IF x[1] = c THEN NoSlot ELSE stream_slot[x]]

Next ==
    \/ \E c \in Conn : ConnTakes(c) \/ ConnLeaves(c)
    \/ \E c \in Conn, to \in Tiers : ConnMoves(c, to)
    \/ \E c \in Conn : \E X \in SUBSET ({c} \X StreamIds) : StreamsLeave(X)
    \/ \E x \in Conn \X StreamIds : StreamTakes(x)
    \/ \E x \in Conn \X StreamIds, to \in Tiers : StreamMoves(x, to)

Spec == Init /\ [][Next]_pool
=============================================================================
