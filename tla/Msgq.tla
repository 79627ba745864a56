-------------------------------- MODULE Msgq --------------------------------
(***************************************************************************)
(* The multiple-producer, single-consumer message queue of                 *)
(* src/src/utils/message_queue/msgq.c: variable-length messages in a ring  *)
(* of bytes, each behind a two-byte header (is_ready, len).                *)
(*                                                                         *)
(* A context is an interrupt handler, a task or the main loop. One step is *)
(* one access to the shared memory: a read or a write of head or tail, one *)
(* memcpy, one byte. While a context has interrupts disabled no context of *)
(* the same core moves (CanRun); contexts of another core do.              *)
(*                                                                         *)
(* inflight is a history variable: the blocks that were reserved and not   *)
(* yet released, oldest first. No guard reads it.                          *)
(***************************************************************************)
EXTENDS Integers, Sequences

CONSTANTS
  Producers,   \* the contexts that call Msgq_Push
  Consumer,    \* the context that calls Msgq_Pop
  CoreOf,      \* the core each context runs on
  Capacity,    \* the number of bytes of the ring
  Messages,    \* the messages the producers push: sequences of bytes
  DestLen,     \* the length of the buffer the consumer passes to Msgq_Pop
  Foreign      \* the bytes found where a stray read of Copy_From_Queue lands

Contexts == Producers \cup {Consumer}
Byte     == 0 .. 255
Index    == 0 .. Capacity - 1
HeaderLen == 2                       \* sizeof(msg_t): is_ready and len

\* Msgq_Create asserts a power of two, and uint16_t holds it. msg_len is a
\* uint8_t. A consumer must offer room for the longest message.
ASSUME CapacityAssumption ==
  /\ Capacity \in Nat \ {0}
  /\ \E k \in 0 .. 15 : Capacity = 2^k

ASSUME ContextAssumption ==
  /\ Consumer \notin Producers
  /\ DOMAIN CoreOf = Contexts

ASSUME MessageAssumption ==
  /\ Messages \subseteq Seq(Byte)
  /\ DestLen \in Byte
  /\ \A m \in Messages : Len(m) \in Byte /\ Len(m) <= DestLen
  /\ Foreign \subseteq Byte

VARIABLES
  head, tail, buffer,   \* struct _msgq_ctx
  pc,                   \* where each context is; "idle": in no call
  msg, pos,             \* each producer's pSrc/msg_len and is_ready_pos
  len, dest,            \* the consumer's msg_len and *pDest
  out,                  \* the message the last successful Msgq_Pop returned
  inflight              \* history: the reserved blocks

ring     == <<head, tail, buffer>>
pushVars == <<msg, pos>>
popVars  == <<len, dest, out>>
vars     == <<ring, pc, pushVars, popVars, inflight>>

Block == [by: Producers, pos: Index, msg: Messages, ready: BOOLEAN]

-----------------------------------------------------------------------------
(* The processor.                                                          *)

IrqOff(c) == pc[c] \in {"reserve", "wrap", "mark"}

\* Mutant of CanRun: disabling interrupts has no effect.
CanRunNoMask(c) == TRUE

CanRun(c) == \A d \in Contexts \ {c} : IrqOff(d) => CoreOf[d] # CoreOf[c]

-----------------------------------------------------------------------------
(* Arithmetic and copies on the ring.                                      *)

\* x & (capacity - 1), capacity being a power of two.
Wrap(x) == x % Capacity

\* Copy_To_Queue: src ends up in the ring from start on, in two parts when it
\* crosses the end of the buffer.
CopyToQueue(src, start) ==
  [i \in Index |-> LET k == Wrap(i - start + Capacity) + 1
                   IN  IF k \in DOMAIN src THEN src[k] ELSE buffer[i]]

\* Copy_From_Queue: the sequences a copy of n bytes from start on may return.
\* The second part of a copy that crosses the end of the buffer is read from
\* the address given by the value of buffer[0], outside the queue.
CopyFromQueue(start, n) ==
  LET remaining == Capacity - start
  IN  IF n <= remaining
      THEN {[k \in 1 .. n |-> buffer[start + k - 1]]}
      ELSE {[k \in 1 .. n |-> IF k <= remaining THEN buffer[start + k - 1] ELSE f] :
              f \in Foreign}

BlockSize(m) == HeaderLen + Len(m)

\* Mutant of SpaceLeft: the used part of an unwrapped ring is taken for the free part.
SpaceLeftUnwrapped ==
  IF tail = head THEN Capacity
  ELSE IF tail >= head THEN tail - head
  ELSE head - tail

SpaceLeft ==
  IF tail = head THEN Capacity
  ELSE IF tail >= head THEN tail - head
  ELSE Capacity - (head - tail)

IsMsgAvailable == head # tail /\ buffer[tail] = 1

-----------------------------------------------------------------------------
Init ==
  /\ head = 0 /\ tail = 0
  /\ buffer = [i \in Index |-> 0]
  /\ pc = [c \in Contexts |-> "idle"]
  /\ msg = [p \in Producers |-> <<>>]
  /\ pos = [p \in Producers |-> 0]
  /\ len = 0 /\ dest = <<>> /\ out = <<>>
  /\ inflight = <<>>

\* Msgq_Init, called while no other call on the queue is in progress.
Reset ==
  /\ \A c \in Contexts : pc[c] = "idle"
  /\ head' = 0 /\ tail' = 0
  /\ buffer' = [i \in Index |-> 0]
  /\ inflight' = <<>>
  /\ UNCHANGED <<pc, pushVars, popVars>>

\* Context c is at `from`, may run, and goes to `to`.
Step(c, from, to) ==
  /\ pc[c] = from
  /\ CanRun(c)
  /\ pc' = [pc EXCEPT ![c] = to]

-----------------------------------------------------------------------------
(* Msgq_Push. From "reserve" to "mark" interrupts are disabled.            *)

\* Mutant of Fits: the header is not counted.
FitsPayload(m) == Len(m) <= SpaceLeft

Fits(m) == BlockSize(m) <= SpaceLeft

\* Interrupts go off and the block fits.
PushCheck(p) ==
  /\ Step(p, "idle", "reserve")
  /\ \E m \in Messages : Fits(m) /\ msg' = [msg EXCEPT ![p] = m]
  /\ UNCHANGED <<ring, pos, popVars, inflight>>

\* The block does not fit: interrupts go on again and the call returns false.
PushReject(p) ==
  /\ pc[p] = "idle"
  /\ CanRun(p)
  /\ \E m \in Messages : ~Fits(m)
  /\ UNCHANGED vars

\* The head moves past the block, and for a moment maybe past the ring.
PushReserve(p) ==
  /\ Step(p, "reserve", "wrap")
  /\ pos' = [pos EXCEPT ![p] = head]
  /\ head' = head + BlockSize(msg[p])
  /\ inflight' = Append(inflight, [by |-> p, pos |-> head, msg |-> msg[p], ready |-> FALSE])
  /\ UNCHANGED <<tail, buffer, msg, popVars>>

\* Mutant of PushWrap: the masking of head is forgotten.
PushWrapNot(p) ==
  /\ Step(p, "wrap", "mark")
  /\ UNCHANGED <<ring, pushVars, popVars, inflight>>

PushWrap(p) ==
  /\ Step(p, "wrap", "mark")
  /\ head' = Wrap(head)
  /\ UNCHANGED <<tail, buffer, pushVars, popVars, inflight>>

\* Mutant of PushMark: interrupts go on with whatever is_ready was there before.
PushMarkNothing(p) ==
  /\ Step(p, "mark", "len")
  /\ UNCHANGED <<ring, pushVars, popVars, inflight>>

\* The block is marked not ready, then interrupts go on.
PushMark(p) ==
  /\ Step(p, "mark", "len")
  /\ buffer' = CopyToQueue(<<0>>, pos[p])
  /\ UNCHANGED <<head, tail, pushVars, popVars, inflight>>

PushLen(p) ==
  /\ Step(p, "len", "data")
  /\ buffer' = CopyToQueue(<<Len(msg[p])>>, Wrap(pos[p] + 1))
  /\ UNCHANGED <<head, tail, pushVars, popVars, inflight>>

\* Mutant of PushData: the payload starts on the length byte.
PushDataEarly(p) ==
  /\ Step(p, "data", "commit")
  /\ buffer' = CopyToQueue(msg[p], Wrap(pos[p] + 1))
  /\ UNCHANGED <<head, tail, pushVars, popVars, inflight>>

PushData(p) ==
  /\ Step(p, "data", "commit")
  /\ buffer' = CopyToQueue(msg[p], Wrap(pos[p] + HeaderLen))
  /\ UNCHANGED <<head, tail, pushVars, popVars, inflight>>

\* The history: the block of p that is not ready becomes ready.
Committed(p) ==
  [i \in DOMAIN inflight |-> IF inflight[i].by = p
                             THEN [inflight[i] EXCEPT !.ready = TRUE]
                             ELSE inflight[i]]

\* Mutant of PushCommit: the block is never marked ready.
PushCommitNothing(p) ==
  /\ Step(p, "commit", "idle")
  /\ inflight' = Committed(p)
  /\ msg' = [msg EXCEPT ![p] = <<>>]
  /\ pos' = [pos EXCEPT ![p] = 0]
  /\ UNCHANGED <<ring, popVars>>

\* The block is marked ready and the call returns true.
PushCommit(p) ==
  /\ Step(p, "commit", "idle")
  /\ buffer' = [buffer EXCEPT ![pos[p]] = 1]
  /\ inflight' = Committed(p)
  /\ msg' = [msg EXCEPT ![p] = <<>>]
  /\ pos' = [pos EXCEPT ![p] = 0]
  /\ UNCHANGED <<head, tail, popVars>>

Push(p) ==
  \/ PushCheck(p) \/ PushReject(p) \/ PushReserve(p) \/ PushWrap(p) \/ PushMark(p)
  \/ PushLen(p) \/ PushData(p) \/ PushCommit(p)

-----------------------------------------------------------------------------
(* Msgq_Pop. Interrupts stay enabled throughout.                           *)

\* Msgq_Is_Msg_Available finds the queue empty: the call returns false.
PopEmpty ==
  /\ pc[Consumer] = "idle"
  /\ CanRun(Consumer)
  /\ head = tail
  /\ UNCHANGED vars

\* Msgq_Is_Msg_Available finds it not empty, and goes on to read is_ready.
PopNotEmpty ==
  /\ Step(Consumer, "idle", "ready")
  /\ head # tail
  /\ UNCHANGED <<ring, pushVars, popVars, inflight>>

\* The oldest block is ready, or the call returns false.
PopReady ==
  /\ Step(Consumer, "ready", IF buffer[tail] = 1 THEN "fetch" ELSE "idle")
  /\ UNCHANGED <<ring, pushVars, popVars, inflight>>

\* The length is read; assert(dest_len >= msg_len) stops the consumer for good.
PopLen ==
  LET n == buffer[Wrap(tail + 1)]
  IN  /\ Step(Consumer, "fetch", IF n <= DestLen THEN "copy" ELSE "halted")
      /\ len' = n
      /\ UNCHANGED <<ring, pushVars, dest, out, inflight>>

PopCopy ==
  /\ Step(Consumer, "copy", "release")
  /\ dest' \in CopyFromQueue(Wrap(tail + HeaderLen), len)
  /\ UNCHANGED <<ring, pushVars, len, out, inflight>>

\* Mutant of PopRelease: the tail stops at the payload.
PopReleaseHeader ==
  /\ Step(Consumer, "release", "idle")
  /\ tail' = Wrap(tail + HeaderLen)
  /\ out' = dest
  /\ len' = 0 /\ dest' = <<>>
  /\ inflight' = SubSeq(inflight, 2, Len(inflight))
  /\ UNCHANGED <<head, buffer, pushVars>>

\* The tail moves past the block and the call returns true.
PopRelease ==
  /\ Step(Consumer, "release", "idle")
  /\ tail' = Wrap(Wrap(tail + HeaderLen) + len)
  /\ out' = dest
  /\ len' = 0 /\ dest' = <<>>
  /\ inflight' = SubSeq(inflight, 2, Len(inflight))
  /\ UNCHANGED <<head, buffer, pushVars>>

Pop == PopEmpty \/ PopNotEmpty \/ PopReady \/ PopLen \/ PopCopy \/ PopRelease

-----------------------------------------------------------------------------
Next ==
  \/ \E p \in Producers : Push(p)
  \/ Pop
  \/ Reset

\* A producer that has reserved a block runs on to its commit, and the
\* consumer polls for ever (msgq.h, lines 14-16).
Fairness ==
  /\ \A p \in Producers : WF_vars(PushReserve(p) \/ PushWrap(p) \/ PushMark(p)
                                  \/ PushLen(p) \/ PushData(p) \/ PushCommit(p))
  /\ WF_vars(Pop)

Spec == Init /\ [][Next]_vars /\ Fairness

-----------------------------------------------------------------------------
(* Properties.                                                             *)

\* The distance of an index from the tail, in the direction of the head.
Off(i) == Wrap(i - tail + Capacity)

End(b) == Off(b.pos) + BlockSize(b.msg)

\* The payload of a block crosses the end of the buffer.
Split(b) == Wrap(b.pos + HeaderLen) + Len(b.msg) > Capacity

PushPc == {"idle", "reserve", "wrap", "mark", "len", "data", "commit"}
PopPc  == {"idle", "ready", "fetch", "copy", "release", "halted"}

\* The index behind the newest block.
Top == Wrap(head)

\* Every variable keeps its type: in particular head is inside the buffer
\* whenever anybody but the producer that is about to mask it can read it.
TypeOK ==
  /\ head \in Nat /\ tail \in Index
  /\ head \notin Index => \E p \in Producers : pc[p] = "wrap"
  /\ buffer \in [Index -> Byte]
  /\ pc \in [Contexts -> PushPc \cup PopPc]
  /\ \A p \in Producers : pc[p] \in PushPc
  /\ pc[Consumer] \in PopPc
  /\ msg \in [Producers -> Messages \cup {<<>>}]
  /\ \A p \in Producers : pc[p] # "idle" => msg[p] \in Messages
  /\ pos \in [Producers -> Index]
  /\ len \in Byte
  /\ dest \in Seq(Byte) /\ out \in Seq(Byte)
  /\ inflight \in Seq(Block)

\* The blocks in flight lie one behind the other from tail to head, do not
\* overlap, and never fill the ring to the last byte, so that head = tail
\* says the queue is empty (Msgq_Push lines 86-108, Msgq_Pop line 161).
BlocksTileRing ==
  LET n == Len(inflight)
  IN  /\ inflight = <<>> <=> Top = tail
      /\ n > 0 => inflight[1].pos = tail /\ End(inflight[n]) = Off(Top)
      /\ \A i \in 1 .. n : End(inflight[i]) < Capacity
      /\ \A i, j \in 1 .. n :
           /\ i < j => End(inflight[i]) <= Off(inflight[j].pos)
           /\ j = i + 1 => End(inflight[i]) = Off(inflight[j].pos)

\* The free space Msgq_Push computes from the two indices (lines 86-96) is
\* what the blocks in flight leave.
SpaceIsExact ==
  head \in Index => SpaceLeft = Capacity - (IF inflight = <<>> THEN 0 ELSE End(inflight[Len(inflight)]))

\* From its commit to its release a block holds the header and the payload it
\* was pushed with: no producer that was preempted in the middle of its push,
\* no later push and no wrapped one touches it (Msgq_Push lines 110-123).
CommittedIntact ==
  \A i \in DOMAIN inflight :
    LET b == inflight[i]
        bytes == <<1, Len(b.msg)>> \o b.msg
    IN  b.ready => \A k \in DOMAIN bytes : buffer[Wrap(b.pos + k - 1)] = bytes[k]

\* What a caller sees of a block, and of the queue.
SlotOf(b) == [by |-> b.by, msg |-> b.msg, ready |-> b.ready, split |-> Split(b)]

Fifo == INSTANCE MsgqFifo WITH slots <- [i \in DOMAIN inflight |-> SlotOf(inflight[i])]

\* A pop that found a message ready works on the oldest reservation and on no
\* other, reads its length and its payload, and never runs into the assertion
\* on the length, whatever is pushed between its steps (Msgq_Pop lines 143-161).
\* Of a split payload only the first part is promised: see CopyFromQueue.
PopTakesOldest ==
  /\ pc[Consumer] # "halted"
  /\ pc[Consumer] \in {"fetch", "copy", "release"} =>
       inflight # <<>> /\ inflight[1].ready
  /\ pc[Consumer] \in {"copy", "release"} => len = Len(inflight[1].msg)
  /\ pc[Consumer] = "release" => dest \in Fifo!Handed(SlotOf(inflight[1]))

\* The queue is a FIFO of reservations (msgq.h, lines 10-11).
FifoSpec == Fifo!Spec

\* No message stays at the tail for ever: the tail leaves every place where
\* blocks are in flight, also when its producer was preempted between the
\* reservation and the commit.
TailMovesOn ==
  \A i \in Index : (inflight # <<>> /\ tail = i) ~> (inflight = <<>> \/ tail # i)

-----------------------------------------------------------------------------
(* A claim of the sources that the code does not keep.                    *)

\* "should have messages available" (test_msgq.c, test_Is_Msg_Available_exactly_full):
\* with no call in progress, a queue that holds messages says so.
StoredIsAvailable ==
  (\A c \in Contexts : pc[c] = "idle") /\ inflight # <<>> => IsMsgAvailable

=============================================================================
