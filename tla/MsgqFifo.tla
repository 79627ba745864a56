------------------------------ MODULE MsgqFifo ------------------------------
(***************************************************************************)
(* What the message queue of src/src/utils/message_queue promises its     *)
(* callers, with no ring, no indices and no bytes (msgq.h, lines 10-16):   *)
(* a producer atomically reserves the next place in the order, fills it    *)
(* in, commits it, and the one consumer is handed the messages in the      *)
(* order of the reservations, each once and never before its commit.       *)
(*                                                                         *)
(* A slot whose payload straddles the end of the storage is marked split.  *)
(* It comes out in its turn and with its length, but only the first part   *)
(* of its payload is promised: Copy_From_Queue fetches the second from     *)
(* outside the queue (Msgq.tla, CopyFromQueue).                            *)
(***************************************************************************)
EXTENDS Sequences, Naturals

CONSTANTS Producers,  \* the contexts that push
          Messages,   \* the messages they may push, sequences of bytes
          Foreign     \* the bytes that may replace the second part of a split one

VARIABLES slots,      \* the messages reserved and not yet handed out, oldest first
          out         \* the message the consumer was handed last

vars == <<slots, out>>

Slot == [by: Producers, msg: Messages, ready: BOOLEAN, split: BOOLEAN]

Init == slots = <<>> /\ out = <<>>

\* A producer has at most one reservation it has not committed.
Reserve(p) ==
  /\ \A i \in DOMAIN slots : slots[i].by = p => slots[i].ready
  /\ \E m \in Messages, s \in BOOLEAN :
       slots' = Append(slots, [by |-> p, msg |-> m, ready |-> FALSE, split |-> s])
  /\ UNCHANGED out

Commit(p) ==
  /\ \E i \in DOMAIN slots :
       /\ slots[i].by = p
       /\ ~slots[i].ready
       /\ slots' = [slots EXCEPT ![i].ready = TRUE]
  /\ UNCHANGED out

\* What the consumer may be handed for slot s.
Handed(s) ==
  IF s.split
  THEN {[k \in DOMAIN s.msg |-> IF k < cut THEN s.msg[k] ELSE f] :
          cut \in 2 .. Len(s.msg), f \in Foreign}
  ELSE {s.msg}

\* A reservation that is not committed holds back everything behind it.
Deliver ==
  /\ slots # <<>>
  /\ slots[1].ready
  /\ out' \in Handed(slots[1])
  /\ slots' = Tail(slots)

\* Msgq_Init forgets every message; no reservation may be open.
Reset ==
  /\ \A i \in DOMAIN slots : slots[i].ready
  /\ slots' = <<>>
  /\ UNCHANGED out

Next ==
  \/ \E p \in Producers : Reserve(p) \/ Commit(p)
  \/ Deliver
  \/ Reset

\* What is reserved gets committed and what is committed gets delivered.
Fairness ==
  /\ \A p \in Producers : WF_vars(Commit(p))
  /\ WF_vars(Deliver)

Spec == Init /\ [][Next]_vars /\ Fairness

=============================================================================
