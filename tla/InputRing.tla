------------------------------ MODULE InputRing ------------------------------
(***************************************************************************)
(* The kernel's input event ring (src/src/input.c).  input_push() runs on  *)
(* hart 0 in the virtio-input interrupt handler (drv_input.c), one event   *)
(* after the other; input_pull() runs in handle_SYS_INPUT_POP on whatever  *)
(* hart schedules the calling process.  Neither takes a lock, so each      *)
(* plain load and store of ring.len is a step of its own: a push and the   *)
(* pulls interleave between them.  Events are numbered in push order;      *)
(* slot contents, head and len are the ring's fields, head as an index.    *)
(***************************************************************************)
EXTENDS Integers, Sequences

CONSTANTS
    Size,        \* RING_BUFFER_SIZE
    Consumers,   \* processes calling SYS_INPUT_POP, each on its own hart
    MaxEvents    \* bound on the events the device delivers

NoEvent == 0     \* a slot never written (ring is zero-initialised)

VARIABLES
    buff, head, len,     \* the ring
    next_ev,             \* number of the next event the device delivers
    push_pc, push_len,   \* input_push: program point, ring.len as loaded
    pull_pc, pull_len,   \* input_pull of each consumer: point, ring.len as loaded
    delivered            \* history: the events copied out to callers, in order

vars == <<buff, head, len, next_ev, push_pc, push_len, pull_pc, pull_len, delivered>>

Init ==
    /\ buff = [i \in 0..(Size - 1) |-> NoEvent]
    /\ head = 0
    /\ len = 0
    /\ next_ev = 1
    /\ push_pc = "idle" /\ push_len = 0
    /\ pull_pc = [c \in Consumers |-> "idle"] /\ pull_len = [c \in Consumers |-> 0]
    /\ delivered = << >>

push_vars == <<push_pc, push_len>>
pull_vars == <<pull_pc, pull_len, delivered>>

\* line 19: copy the event into the slot after the last one
PushCopy ==
    /\ push_pc = "idle" /\ next_ev <= MaxEvents
    /\ buff' = [buff EXCEPT ![(head + len) % Size] = next_ev]
    /\ next_ev' = next_ev + 1
    /\ push_pc' = "check"
    /\ UNCHANGED <<head, len, push_len, pull_vars>>

\* line 21: load ring.len for the full test (and the increment that follows)
PushCheck ==
    /\ push_pc = "check"
    /\ push_len' = len
    /\ push_pc' = IF len = Size THEN "advance" ELSE "store"
    /\ UNCHANGED <<buff, head, len, next_ev, pull_vars>>

\* lines 22-25: the ring is full, the oldest event is dropped
PushAdvance ==
    /\ push_pc = "advance"
    /\ head' = (head + 1) % Size
    /\ push_pc' = "idle"
    /\ UNCHANGED <<buff, len, next_ev, push_len, pull_vars>>

\* line 27: store the loaded ring.len plus one (then sched_try_wake)
PushStore ==
    /\ push_pc = "store"
    /\ len' = push_len + 1
    /\ push_pc' = "idle"
    /\ UNCHANGED <<buff, head, next_ev, push_len, pull_vars>>

\* line 37: an empty ring returns 0 at once (a step that changes nothing)
PullCheck(c) ==
    /\ pull_pc[c] = "idle"
    /\ len # 0
    /\ pull_pc' = [pull_pc EXCEPT ![c] = "copy"]
    /\ UNCHANGED <<buff, head, len, next_ev, push_vars, pull_len, delivered>>

\* lines 39-45: copy the event at head out, advance head
PullCopy(c) ==
    /\ pull_pc[c] = "copy"
    /\ delivered' = Append(delivered, buff[head])
    /\ head' = (head + 1) % Size
    /\ pull_pc' = [pull_pc EXCEPT ![c] = "load"]
    /\ UNCHANGED <<buff, len, next_ev, push_vars, pull_len>>

\* line 47: old_len = ring.len
PullLoad(c) ==
    /\ pull_pc[c] = "load"
    /\ pull_len' = [pull_len EXCEPT ![c] = len]
    /\ pull_pc' = [pull_pc EXCEPT ![c] = "store"]
    /\ UNCHANGED <<buff, head, len, next_ev, push_vars, delivered>>

\* line 49: ring.len = old_len - 1 (a u32; -1 would stand for 2^32 - 1)
PullStore(c) ==
    /\ pull_pc[c] = "store"
    /\ len' = pull_len[c] - 1
    /\ pull_pc' = [pull_pc EXCEPT ![c] = "idle"]
    /\ UNCHANGED <<buff, head, next_ev, push_vars, pull_len, delivered>>

Next ==
    \/ PushCopy \/ PushCheck \/ PushAdvance \/ PushStore
    \/ \E c \in Consumers :
        PullCheck(c) \/ PullCopy(c) \/ PullLoad(c) \/ PullStore(c)

Spec == Init /\ [][Next]_vars

-----------------------------------------------------------------------------
TypeOK ==
    /\ buff \in [0..(Size - 1) -> 0..MaxEvents]
    /\ head \in 0..(Size - 1)
    /\ len \in Int
    /\ push_pc \in {"idle", "check", "advance", "store"}
    /\ pull_pc \in [Consumers -> {"idle", "copy", "load", "store"}]

(***************************************************************************)
(* Every event popped by SYS_INPUT_POP is one the device delivered, and    *)
(* none is popped twice or before an older one: the events handed to       *)
(* processes form a strictly increasing sequence of pushed events (the     *)
(* overwrite of the oldest event on a full ring may skip some).            *)
(***************************************************************************)
EventsPoppedOnceInOrder ==
    \A i \in 1..Len(delivered) :
        /\ delivered[i] # NoEvent
        /\ i > 1 => delivered[i - 1] < delivered[i]
=============================================================================
