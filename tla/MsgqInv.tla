------------------------------ MODULE MsgqInv ------------------------------
(***************************************************************************)
(* The inductive invariant of the message queue, on a single core and with *)
(* messages that cannot fill the ring to the last byte. MsgqProofs         *)
(* proves it, MCMsgq.cfg checks it.                                        *)
(***************************************************************************)
EXTENDS Msgq

\* All contexts run on the same core.
SingleCore == \A c, d \in Contexts : CoreOf[c] = CoreOf[d]

\* S holds the sums of the sizes of the blocks that may lie one behind the other.
HoldsSums(S) ==
  /\ 0 \in S
  /\ \A x \in S, m \in Messages : x + BlockSize(m) <= Capacity => x + BlockSize(m) \in S

\* No sum of block sizes is the capacity.
NoExactFill == \E S \in SUBSET (0 .. Capacity - 1) : HoldsSums(S)

Sums == CHOOSE S \in SUBSET (0 .. Capacity - 1) : HoldsSums(S)

Writing == {"wrap", "mark", "len", "data", "commit"}

\* The k-th byte, from 0, of a block whose producer is done with it.
Encoded(b, k) ==
  IF k = 0 THEN IF b.ready THEN 1 ELSE 0
  ELSE IF k = 1 THEN Len(b.msg)
  ELSE b.msg[k - 1]

\* How many bytes of a block its producer has written.
Written(b) ==
  IF b.ready THEN BlockSize(b.msg)
  ELSE IF pc[b.by] \in {"wrap", "mark"} THEN 0
  ELSE IF pc[b.by] = "len" THEN 1
  ELSE IF pc[b.by] = "data" THEN HeaderLen
  ELSE BlockSize(b.msg)

-----------------------------------------------------------------------------

\* Interrupts are disabled by one context at most, and what Msgq_Push found out
\* about the free space still holds when it reserves.
CriticalInv ==
  /\ \A c, d \in Contexts : IrqOff(c) /\ IrqOff(d) => c = d
  /\ \A p \in Producers : pc[p] = "reserve" => Fits(msg[p])

\* A block that is not ready is the one its producer is writing.
OwnerInv ==
  /\ \A i \in DOMAIN inflight : ~inflight[i].ready =>
       /\ pc[inflight[i].by] \in Writing
       /\ pos[inflight[i].by] = inflight[i].pos
       /\ msg[inflight[i].by] = inflight[i].msg
  /\ \A p \in Producers : pc[p] \in Writing =>
       \E i \in DOMAIN inflight : inflight[i].by = p /\ ~inflight[i].ready
  /\ \A i, j \in DOMAIN inflight :
       inflight[i].by = inflight[j].by /\ ~inflight[i].ready /\ ~inflight[j].ready => i = j

\* What has been written of a block is there.
BytesInv ==
  \A i \in DOMAIN inflight : \A k \in 0 .. Written(inflight[i]) - 1 :
    buffer[Wrap(inflight[i].pos + k)] = Encoded(inflight[i], k)

\* The blocks from any one to any later one take a sum of block sizes.
SumsInv ==
  \A i, j \in DOMAIN inflight : i <= j => End(inflight[j]) - Off(inflight[i].pos) \in Sums

ConsumerInv ==
  /\ pc[Consumer] = "ready" => inflight # <<>>
  /\ PopTakesOldest

\* TypeOK and these six are preserved by every step.
RingInv ==
  /\ CriticalInv
  /\ OwnerInv
  /\ BlocksTileRing
  /\ BytesInv
  /\ SumsInv
  /\ ConsumerInv

=============================================================================
