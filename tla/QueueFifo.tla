----------------------------- MODULE QueueFifo -----------------------------
(***************************************************************************)
(* What the item queue of src/src/utils/queue promises its callers: a FIFO *)
(* of at most Bound items. A push into a full queue is refused, or makes   *)
(* room by dropping the oldest item (queue.h, queue_overrun_mode_t).       *)
(***************************************************************************)
EXTENDS Naturals, Sequences

CONSTANTS Producers, Consumers, Items, Zero, Bound, Modes

VARIABLES
  items,     \* the items pushed and not yet popped, oldest first
  mode,      \* the overrun mode
  flushes,   \* the number of flushes, modulo 2
  item,      \* what each producer is about to push, or Zero
  got        \* what the last pop of each consumer left in *dest_item

vars == <<items, mode, flushes, item, got>>

Init ==
  /\ items = <<>>
  /\ mode \in Modes
  /\ flushes = 0
  /\ item = [p \in Producers |-> Zero]
  /\ got = [c \in Consumers |-> Zero]

\* A push that is refused changes nothing.
Offer(p) ==
  /\ item[p] = Zero
  /\ \E x \in Items : item' = [item EXCEPT ![p] = x]
  /\ UNCHANGED <<items, mode, flushes, got>>

Put(p) ==
  /\ item[p] # Zero
  /\ Len(items) < Bound
  /\ items' = Append(items, item[p])
  /\ item' = [item EXCEPT ![p] = Zero]
  /\ UNCHANGED <<mode, flushes, got>>

DropOldest(p) ==
  /\ item[p] # Zero
  /\ mode = "drop_old"
  /\ Len(items) = Bound
  /\ items' = Tail(items)
  /\ UNCHANGED <<mode, flushes, item, got>>

Take(c) ==
  /\ items # <<>>
  /\ got' = [got EXCEPT ![c] = Head(items)]
  /\ items' = Tail(items)
  /\ UNCHANGED <<mode, flushes, item>>

\* An empty queue gives zeros.
Miss(c) ==
  /\ items = <<>>
  /\ got' = [got EXCEPT ![c] = Zero]
  /\ UNCHANGED <<items, mode, flushes, item>>

Flush ==
  /\ items' = <<>>
  /\ mode' \in Modes
  /\ flushes' = 1 - flushes
  /\ UNCHANGED <<item, got>>

Next ==
  \/ \E p \in Producers : Offer(p) \/ Put(p) \/ DropOldest(p)
  \/ \E c \in Consumers : Take(c) \/ Miss(c)
  \/ Flush

Spec == Init /\ [][Next]_vars

=============================================================================
