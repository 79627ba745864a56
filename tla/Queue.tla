------------------------------- MODULE Queue -------------------------------
(***************************************************************************)
(* The queue of fixed-size items of src/src/utils/queue/queue.c: a ring    *)
(* with one slot kept free, and no locking of its own.                     *)
(*                                                                         *)
(* One step is one access to the shared memory: a comparison of index and  *)
(* outdex, one memcpy, one move of an index. Contexts interleave between   *)
(* any two steps, except in the overrun modes for which the callers        *)
(* serialise their calls (Locked): the queue does not ("TODO: make it      *)
(* atomic", queue.h line 1). flushes is a history variable: no guard reads *)
(* it.                                                                     *)
(***************************************************************************)
EXTENDS Integers, Sequences

CONSTANTS
  Producers, Consumers,   \* the contexts that push and those that pop
  Capacity,               \* the len the queue was created with
  Items, Zero,            \* the items that are pushed, and an item of zeros
  Modes,                  \* the overrun modes in use, of "drop_old" and "drop_new"
  Locked                  \* the modes in which calls do not overlap

Contexts == Producers \cup Consumers
Index    == 0 .. Capacity - 1

ASSUME QueueAssumption ==
  /\ Capacity \in Nat \ {0}
  /\ Producers \cap Consumers = {}
  /\ Modes \subseteq {"drop_old", "drop_new"}
  /\ Locked \subseteq Modes
  /\ Zero \notin Items

VARIABLES
  index, outdex, buffer, mode,   \* struct queue_ctx
  pc,                            \* where each context is
  item,                          \* *src_item of each producer
  dest,                          \* *dest_item of each consumer, while it pops ...
  got,                           \* ... and once it returned
  flushes                        \* history: the number of flushes, modulo 2

settings == <<mode, flushes>>
ring     == <<index, outdex, buffer, settings>>
vars     == <<ring, pc, item, dest, got>>

\* Mutant of NextIndex: the slot that Queue_Create allocates in addition is used.
NextIndexPast(dex) == IF dex + 1 > Capacity THEN 0 ELSE dex + 1

NextIndex(dex) == IF dex + 1 >= Capacity THEN 0 ELSE dex + 1

\* Mutant of IsFull: the free slot is given away.
IsFullNever == FALSE

IsFull == NextIndex(index) = outdex

IsEmpty == index = outdex

Init ==
  /\ index = 0 /\ outdex = 0
  /\ buffer = [i \in Index |-> Zero]
  /\ mode \in Modes
  /\ pc = [c \in Contexts |-> "idle"]
  /\ item = [p \in Producers |-> Zero]
  /\ dest = [c \in Consumers |-> Zero]
  /\ got = [c \in Consumers |-> Zero]
  /\ flushes = 0

Quiet(C) == \A c \in C : pc[c] = "idle"

\* Context c calls the queue.
Enter(c) == pc[c] = "idle" /\ (mode \in Locked => Quiet(Contexts))

Goto(c, label) == pc' = [pc EXCEPT ![c] = label]

\* Queue_Flush, called while no other call is in progress. The buffer keeps its bytes.
Flush ==
  /\ Quiet(Contexts)
  /\ index' = 0 /\ outdex' = 0
  /\ flushes' = 1 - flushes
  /\ UNCHANGED <<buffer, mode, pc, item, dest, got>>

\* Queue_Init flushes the queue and sets its overrun mode.
QueueInit(m) ==
  /\ Quiet(Contexts)
  /\ index' = 0 /\ outdex' = 0 /\ mode' = m
  /\ flushes' = 1 - flushes
  /\ UNCHANGED <<buffer, pc, item, dest, got>>

-----------------------------------------------------------------------------
(* Queue_Push.                                                             *)

\* The queue is full and keeps what it has: ERROR_OVERRUN.
PushRefused(p) ==
  /\ Enter(p)
  /\ IsFull /\ mode = "drop_new"
  /\ UNCHANGED vars

PushCheck(p) ==
  /\ Enter(p)
  /\ IsFull => mode = "drop_old"
  /\ \E x \in Items : item' = [item EXCEPT ![p] = x]
  /\ Goto(p, IF IsFull THEN "drop" ELSE "put")
  /\ UNCHANGED <<ring, dest, got>>

\* Mutant of PushDrop: the oldest item stays.
PushDropNot(p) ==
  /\ pc[p] = "drop"
  /\ Goto(p, "put")
  /\ UNCHANGED <<ring, item, dest, got>>

\* The oldest item is dropped.
PushDrop(p) ==
  /\ pc[p] = "drop"
  /\ outdex' = NextIndex(outdex)
  /\ Goto(p, "put")
  /\ UNCHANGED <<index, buffer, settings, item, dest, got>>

PushCopy(p) ==
  /\ pc[p] = "put"
  /\ buffer' = [buffer EXCEPT ![index] = item[p]]
  /\ Goto(p, "publish")
  /\ UNCHANGED <<index, outdex, settings, item, dest, got>>

\* The item is there for the consumers.
PushPublish(p) ==
  /\ pc[p] = "publish"
  /\ index' = NextIndex(index)
  /\ item' = [item EXCEPT ![p] = Zero]
  /\ Goto(p, "idle")
  /\ UNCHANGED <<outdex, buffer, settings, dest, got>>

Push(p) == PushRefused(p) \/ PushCheck(p) \/ PushDrop(p) \/ PushCopy(p) \/ PushPublish(p)

-----------------------------------------------------------------------------
(* Queue_Pop.                                                              *)

\* ERROR_NO_DATA, and zeros for an item.
PopNoData(c) ==
  /\ Enter(c)
  /\ IsEmpty
  /\ got' = [got EXCEPT ![c] = Zero]
  /\ UNCHANGED <<ring, pc, item, dest>>

PopCheck(c) ==
  /\ Enter(c)
  /\ ~IsEmpty
  /\ Goto(c, "get")
  /\ UNCHANGED <<ring, item, dest, got>>

PopCopy(c) ==
  /\ pc[c] = "get"
  /\ dest' = [dest EXCEPT ![c] = buffer[outdex]]
  /\ Goto(c, "free")
  /\ UNCHANGED <<ring, item, got>>

\* The slot is free for the producers.
PopFree(c) ==
  /\ pc[c] = "free"
  /\ outdex' = NextIndex(outdex)
  /\ got' = [got EXCEPT ![c] = dest[c]]
  /\ dest' = [dest EXCEPT ![c] = Zero]
  /\ Goto(c, "idle")
  /\ UNCHANGED <<index, buffer, settings, item>>

Pop(c) == PopNoData(c) \/ PopCheck(c) \/ PopCopy(c) \/ PopFree(c)

-----------------------------------------------------------------------------
Next ==
  \/ Flush
  \/ \E m \in Modes : QueueInit(m)
  \/ \E p \in Producers : Push(p)
  \/ \E c \in Consumers : Pop(c)

Spec == Init /\ [][Next]_vars

-----------------------------------------------------------------------------
(* Properties.                                                             *)

TypeOK ==
  /\ index \in Index /\ outdex \in Index
  /\ buffer \in [Index -> Items \cup {Zero}]
  /\ mode \in Modes /\ flushes \in {0, 1}
  /\ pc \in [Contexts -> {"idle", "drop", "put", "publish", "get", "free"}]
  /\ \A p \in Producers : pc[p] \in {"idle", "drop", "put", "publish"}
  /\ \A c \in Consumers : pc[c] \in {"idle", "get", "free"}
  /\ item \in [Producers -> Items \cup {Zero}]
  /\ dest \in [Consumers -> Items \cup {Zero}]
  /\ got \in [Consumers -> Items \cup {Zero}]

Used == IF index >= outdex THEN index - outdex ELSE index - outdex + Capacity

\* The k-th item of the queue, from 1.
Slot(k) == IF outdex + k - 1 < Capacity THEN outdex + k - 1 ELSE outdex + k - 1 - Capacity

\* A producer and a consumer never work on the same slot, although neither
\* holds anything off (Queue_Push line 86, Queue_Pop line 102).
CopiesApart ==
  \A p \in Producers, c \in Consumers :
    pc[p] \in {"put", "publish"} /\ pc[c] \in {"get", "free"} => index # outdex

\* The queue is a FIFO of at most Capacity - 1 items, in either overrun mode,
\* whatever the interleaving.
Fifo == INSTANCE QueueFifo WITH
  items <- [k \in 1 .. Used |-> buffer[Slot(k)]],
  Bound <- Capacity - 1

FifoSpec == Fifo!Spec

=============================================================================
