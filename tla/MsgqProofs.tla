----------------------------- MODULE MsgqProofs -----------------------------
(***************************************************************************)
(* Proofs about Msgq on a single core, for every capacity, every set of    *)
(* producers and every set of messages: type correctness; and, when no sum *)
(* of block sizes is the capacity, that RingInv is an invariant: the       *)
(* blocks in flight never overlap, a committed one is never touched, and a *)
(* pop takes the oldest. From it follows the safety half of MsgqFifo: the  *)
(* steps of the queue are steps of a FIFO of reservations. On several      *)
(* cores none of it holds (MCMsgqCores.cfg).                               *)
(***************************************************************************)
EXTENDS MsgqInv, SequenceTheorems, TLAPS

-----------------------------------------------------------------------------
(* The arithmetic of the ring.                                             *)

\* Wrap stays inside the buffer.
LEMMA WrapInIndex ==
  ASSUME NEW x \in Nat
  PROVE  Wrap(x) \in Index
BY CapacityAssumption DEF Wrap, Index

\* On the sums the code forms, x & (capacity - 1) subtracts the capacity once or not at all.
LEMMA WrapOnce ==
  ASSUME NEW x \in 0 .. 2 * Capacity - 1
  PROVE  Wrap(x) = IF x < Capacity THEN x ELSE x - Capacity
BY CapacityAssumption DEF Wrap

-----------------------------------------------------------------------------
(* Types.                                                                  *)

LEMMA MessageType ==
  ASSUME NEW m \in Messages
  PROVE  m \in Seq(Byte) /\ Len(m) \in Byte /\ Len(m) \in Nat /\ BlockSize(m) \in Nat
<1>1. m \in Seq(Byte) /\ Len(m) \in Byte
  BY MessageAssumption
<1>2. Len(m) \in Nat
  BY <1>1 DEF Byte
<1>. QED BY <1>1, <1>2 DEF BlockSize, HeaderLen

\* Copying bytes into the ring leaves a ring of bytes.
LEMMA CopyToType ==
  ASSUME buffer \in [Index -> Byte], NEW src \in Seq(Byte), NEW start
  PROVE  CopyToQueue(src, start) \in [Index -> Byte]
<1>1. ASSUME NEW k \in DOMAIN src PROVE src[k] \in Byte
  BY <1>1, ElementOfSeq
<1>. QED BY <1>1 DEF CopyToQueue

\* What a copy out of the ring returns is a sequence of n bytes.
LEMMA CopyFromType ==
  ASSUME buffer \in [Index -> Byte], NEW start \in Index, NEW n \in Nat,
         NEW d \in CopyFromQueue(start, n)
  PROVE  d \in Seq(Byte) /\ Len(d) = n
<1>. USE CapacityAssumption DEF Index
<1>1. CASE n <= Capacity - start
  <2>1. d = [k \in 1 .. n |-> buffer[start + k - 1]]
    BY <1>1 DEF CopyFromQueue
  <2>2. \A k \in 1 .. n : buffer[start + k - 1] \in Byte
    BY <1>1
  <2>3. d \in [1 .. n -> Byte]
    BY <2>1, <2>2
  <2>. QED BY <2>3
<1>2. CASE ~(n <= Capacity - start)
  <2>1. PICK f \in Foreign :
          d = [k \in 1 .. n |-> IF k <= Capacity - start THEN buffer[start + k - 1] ELSE f]
    BY <1>2 DEF CopyFromQueue
  <2>2. \A k \in 1 .. n : k <= Capacity - start => buffer[start + k - 1] \in Byte
    BY <1>2
  <2>3. d \in [1 .. n -> Byte]
    BY <2>1, <2>2, MessageAssumption
  <2>. QED BY <2>3
<1>. QED BY <1>1, <1>2

\* Where the contexts are: the part of TypeOK that every step of a call changes.
PcType ==
  /\ pc \in [Contexts -> PushPc \cup PopPc]
  /\ \A p \in Producers : pc[p] \in PushPc
  /\ pc[Consumer] \in PopPc

\* Context c, and no other, went from one label to another.
Moved(c, from, to) ==
  /\ PcType'
  /\ pc[c] = from /\ pc'[c] = to
  /\ \A d \in Contexts \ {c} : pc'[d] = pc[d]

\* A step of a context changes its own pc only, and keeps the types of pc.
LEMMA StepMoves ==
  ASSUME TypeOK, NEW c \in Contexts, NEW from, NEW to, Step(c, from, to),
         c \in Producers => to \in PushPc,
         c = Consumer => to \in PopPc
  PROVE  Moved(c, from, to)
BY ContextAssumption DEF TypeOK, Step, Contexts, Moved, PcType

\* Only the producer that is about to mask head finds it outside the ring.
LEMMA HeadIn ==
  ASSUME TypeOK, SingleCore, NEW c \in Contexts, CanRun(c), pc[c] # "wrap"
  PROVE  head \in Index
<1>. SUFFICES ASSUME NEW p \in Producers, pc[p] = "wrap" PROVE FALSE
  BY DEF TypeOK
<1>. QED BY DEF CanRun, IrqOff, SingleCore, Contexts

LEMMA TopType ==
  ASSUME TypeOK
  PROVE  /\ Top \in Index
         /\ head \in Index => Top = head
         /\ Wrap(Top) = Top
<1>1. Top \in Index
  BY WrapInIndex DEF TypeOK, Top
<1>2. \A i \in Index : Wrap(i) = i
  BY CapacityAssumption, WrapOnce DEF Index
<1>. QED BY <1>1, <1>2 DEF Top

LEMMA TypeInit == Init => TypeOK
<1>. SUFFICES ASSUME Init PROVE TypeOK
  OBVIOUS
<1>1. 0 \in Index
  BY CapacityAssumption DEF Index
<1>2. \A c \in Contexts : pc[c] = "idle" /\ "idle" \in PushPc \cap PopPc
  BY DEF Init, PushPc, PopPc
<1>. QED BY <1>1, <1>2 DEF Init, TypeOK, Contexts, Byte

LEMMA TypeStep ==
  ASSUME SingleCore
  PROVE  TypeOK /\ [Next]_vars => TypeOK'
<1>. SUFFICES ASSUME TypeOK, [Next]_vars PROVE TypeOK'
  OBVIOUS
<1>. USE DEF ring, pushVars, popVars
<1>0. 0 \in Index /\ 0 \in Byte /\ 1 \in Byte /\ <<>> \in Seq(Byte)
  BY CapacityAssumption DEF Index, Byte
<1>1. ASSUME NEW p \in Producers, Push(p) PROVE TypeOK'
  <2>0. p \in Contexts /\ p # Consumer /\ pos[p] \in Index /\ pos[p] \in Nat
    BY ContextAssumption, CapacityAssumption DEF Contexts, TypeOK, Index
  <2>1. CASE PushCheck(p)
    <3>1. Moved(p, "idle", "reserve")
      BY <2>0, <2>1, StepMoves DEF PushCheck, PushPc
    <3>2. PICK m \in Messages : msg' = [msg EXCEPT ![p] = m]
      BY <2>1 DEF PushCheck
    <3>h. head \in Index
      BY <2>0, <2>1, HeadIn DEF PushCheck, Step
    <3>. QED BY <3>h, <2>0, <2>1, <3>1, <3>2, ContextAssumption DEF PushCheck, TypeOK, Moved, PcType, Contexts
  <2>2. CASE PushReject(p)
    BY <2>2 DEF PushReject, TypeOK, vars
  <2>3. CASE PushReserve(p)
    <3>1. Moved(p, "reserve", "wrap")
      BY <2>0, <2>3, StepMoves DEF PushReserve, PushPc
    <3>2. msg[p] \in Messages /\ head \in Index
      BY <2>0, <2>3, HeadIn DEF PushReserve, Step, TypeOK
    <3>3. head' \in Nat /\ pc'[p] = "wrap"
      BY <2>3, <3>1, <3>2, MessageType DEF PushReserve, TypeOK, Moved
    <3>4. [by |-> p, pos |-> head, msg |-> msg[p], ready |-> FALSE] \in Block
      BY <3>2 DEF Block
    <3>5. inflight' \in Seq(Block)
      BY <2>3, <3>4, AppendProperties DEF PushReserve, TypeOK
    <3>. QED BY <2>0, <2>3, <3>1, <3>2, <3>3, <3>5, ContextAssumption DEF PushReserve, TypeOK, Moved, PcType, Contexts
  <2>8. CASE PushWrap(p)
    <3>1. Moved(p, "wrap", "mark")
      BY <2>0, <2>8, StepMoves DEF PushWrap, PushPc
    <3>2. head' \in Index /\ head' \in Nat
      BY <2>8, TopType, CapacityAssumption DEF PushWrap, Top, Index
    <3>. QED BY <2>0, <2>8, <3>1, <3>2, ContextAssumption DEF PushWrap, TypeOK, Moved, PcType, Contexts
  <2>4. CASE PushMark(p)
    <3>1. Moved(p, "mark", "len")
      BY <2>0, <2>4, StepMoves DEF PushMark, PushPc
    <3>2. buffer' \in [Index -> Byte]
      BY <1>0, <2>0, <2>4, CopyToType, <<0>> \in Seq(Byte) DEF PushMark, TypeOK
    <3>h. head \in Index
      BY <2>0, <2>4, HeadIn DEF PushMark, Step
    <3>. QED BY <3>h, <2>0, <2>4, <3>1, <3>2, ContextAssumption DEF PushMark, TypeOK, Moved, PcType, Contexts
  <2>5. CASE PushLen(p)
    <3>1. Moved(p, "len", "data")
      BY <2>0, <2>5, StepMoves DEF PushLen, PushPc
    <3>2. msg[p] \in Messages
      BY <2>5 DEF PushLen, Step, TypeOK
    <3>3. <<Len(msg[p])>> \in Seq(Byte)
      BY <3>2, MessageType
    <3>4. buffer' \in [Index -> Byte]
      BY <2>5, <3>3, CopyToType DEF PushLen, TypeOK
    <3>h. head \in Index
      BY <2>0, <2>5, HeadIn DEF PushLen, Step
    <3>. QED BY <3>h, <2>0, <2>5, <3>1, <3>4, ContextAssumption DEF PushLen, TypeOK, Moved, PcType, Contexts
  <2>6. CASE PushData(p)
    <3>1. Moved(p, "data", "commit")
      BY <2>0, <2>6, StepMoves DEF PushData, PushPc
    <3>2. msg[p] \in Seq(Byte)
      BY <2>6, MessageType DEF PushData, Step, TypeOK
    <3>3. buffer' \in [Index -> Byte]
      BY <2>6, <3>2, CopyToType DEF PushData, TypeOK
    <3>h. head \in Index
      BY <2>0, <2>6, HeadIn DEF PushData, Step
    <3>. QED BY <3>h, <2>0, <2>6, <3>1, <3>3, ContextAssumption DEF PushData, TypeOK, Moved, PcType, Contexts
  <2>7. CASE PushCommit(p)
    <3>1. Moved(p, "commit", "idle")
      BY <2>0, <2>7, StepMoves DEF PushCommit, PushPc
    <3>2. buffer' \in [Index -> Byte]
      BY <1>0, <2>7 DEF PushCommit, TypeOK
    <3>3. inflight' \in Seq(Block)
      <4>1. inflight \in [1 .. Len(inflight) -> Block] /\ Len(inflight) \in Nat
        BY DEF TypeOK
      <4>2. Committed(p) \in [1 .. Len(inflight) -> Block]
        BY <4>1 DEF Committed, Block
      <4>. QED BY <2>7, <4>1, <4>2 DEF PushCommit
    <3>h. head \in Index
      BY <2>0, <2>7, HeadIn DEF PushCommit, Step
    <3>. QED BY <3>h, <1>0, <2>0, <2>7, <3>1, <3>2, <3>3, ContextAssumption DEF PushCommit, TypeOK, Moved, PcType, Contexts
  <2>. QED BY <1>1, <2>1, <2>2, <2>3, <2>4, <2>5, <2>6, <2>7, <2>8 DEF Push
<1>2. ASSUME Pop PROVE TypeOK'
  <2>0. /\ Consumer \in Contexts /\ Consumer \notin Producers
        /\ tail \in Nat /\ len \in Nat
    BY ContextAssumption, CapacityAssumption DEF Contexts, TypeOK, Index, Byte
  <2>h. head \in Index
    BY <1>2, <2>0, HeadIn DEF Pop, PopEmpty, PopNotEmpty, PopReady, PopLen, PopCopy, PopRelease, Step
  <2>1. CASE PopEmpty
    BY <2>1 DEF PopEmpty, TypeOK, vars
  <2>2. CASE PopNotEmpty
    <3>1. Moved(Consumer, "idle", "ready")
      BY <2>0, <2>2, StepMoves DEF PopNotEmpty, PopPc
    <3>. QED BY <2>h, <2>0, <2>2, <3>1, ContextAssumption DEF PopNotEmpty, TypeOK, Moved, PcType, Contexts
  <2>3. CASE PopReady
    <3>1. PICK to \in {"fetch", "idle"} : Moved(Consumer, "ready", to)
      BY <2>0, <2>3, StepMoves DEF PopReady, PopPc
    <3>. QED BY <2>h, <2>0, <2>3, <3>1, ContextAssumption DEF PopReady, TypeOK, Moved, PcType, Contexts
  <2>4. CASE PopLen
    <3>1. PICK to \in {"copy", "halted"} : Moved(Consumer, "fetch", to)
      BY <2>0, <2>4, StepMoves DEF PopLen, PopPc
    <3>2. Wrap(tail + 1) \in Index
      BY <2>0, WrapInIndex
    <3>3. len' \in Byte
      BY <2>4, <3>2 DEF PopLen, TypeOK
    <3>. QED BY <2>h, <2>0, <2>4, <3>1, <3>3, ContextAssumption DEF PopLen, TypeOK, Moved, PcType, Contexts
  <2>5. CASE PopCopy
    <3>1. Moved(Consumer, "copy", "release")
      BY <2>0, <2>5, StepMoves DEF PopCopy, PopPc
    <3>2. Wrap(tail + HeaderLen) \in Index
      BY <2>0, WrapInIndex DEF HeaderLen
    <3>3. dest' \in Seq(Byte)
      BY <2>0, <2>5, <3>2, CopyFromType DEF PopCopy, TypeOK
    <3>. QED BY <2>h, <2>0, <2>5, <3>1, <3>3, ContextAssumption DEF PopCopy, TypeOK, Moved, PcType, Contexts
  <2>6. CASE PopRelease
    <3>1. Moved(Consumer, "release", "idle")
      BY <2>0, <2>6, StepMoves DEF PopRelease, PopPc
    <3>2. Wrap(tail + HeaderLen) \in Nat
      BY <2>0, WrapInIndex, CapacityAssumption DEF HeaderLen, Index
    <3>3. tail' \in Index
      BY <2>0, <2>6, <3>2, WrapInIndex DEF PopRelease
    <3>4. inflight' \in Seq(Block)
      <4>1. inflight \in Seq(Block) /\ Len(inflight) \in Nat
        BY DEF TypeOK
      <4>2. \A i \in 2 .. Len(inflight) : inflight[i] \in Block
        BY <4>1, ElementOfSeq
      <4>. QED BY <2>6, <4>1, <4>2, SubSeqProperties DEF PopRelease
    <3>. QED BY <2>h, <1>0, <2>0, <2>6, <3>1, <3>3, <3>4, ContextAssumption DEF PopRelease, TypeOK, Moved, PcType, Contexts
  <2>. QED BY <1>2, <2>1, <2>2, <2>3, <2>4, <2>5, <2>6 DEF Pop
<1>3. CASE Reset
  BY <1>0, <1>3, CapacityAssumption DEF Reset, TypeOK, Index
<1>4. CASE UNCHANGED vars
  BY <1>4 DEF vars, TypeOK
<1>. QED BY <1>1, <1>2, <1>3, <1>4 DEF Next

\* On one core every behaviour of the queue keeps its types, also when the ring
\* is filled to the last byte: head, stored past the ring (msgq.c line 106), is
\* masked before any other context reads it.
THEOREM TypeCorrect ==
  ASSUME SingleCore
  PROVE  Spec => []TypeOK
<1>1. TypeOK /\ [Next]_vars => TypeOK'
  BY TypeStep
<1>. QED BY TypeInit, <1>1, PTL DEF Spec

-----------------------------------------------------------------------------
(* Offsets from the tail.                                                  *)

\* Off is a bijection from the indices to 0 .. Capacity - 1, and 0 is the tail.
LEMMA OffType ==
  ASSUME tail \in Index, NEW i \in Index
  PROVE  /\ Off(i) \in 0 .. Capacity - 1
         /\ Off(i) = IF i >= tail THEN i - tail ELSE i - tail + Capacity
         /\ Off(i) = 0 <=> i = tail
<1>. USE CapacityAssumption DEF Index
<1>1. i - tail + Capacity \in 0 .. 2 * Capacity - 1
  OBVIOUS
<1>. QED BY <1>1, WrapOnce DEF Off

LEMMA OffInjective ==
  ASSUME tail \in Index, NEW i \in Index, NEW j \in Index, Off(i) = Off(j)
  PROVE  i = j
BY OffType, CapacityAssumption DEF Index

\* Going on by a places, short of a full turn, adds a to the offset.
LEMMA OffAdd ==
  ASSUME tail \in Index, NEW i \in Index, NEW a \in Nat, Off(i) + a < Capacity
  PROVE  Wrap(i + a) \in Index /\ Off(Wrap(i + a)) = Off(i) + a
<1>. USE CapacityAssumption DEF Index
<1>1. a < Capacity /\ i + a \in 0 .. 2 * Capacity - 1
  BY OffType
<1>2. Wrap(i + a) = IF i + a < Capacity THEN i + a ELSE i + a - Capacity
  BY <1>1, WrapOnce
<1>3. Wrap(i + a) \in Index
  BY <1>1, <1>2
<1>. QED BY <1>1, <1>2, <1>3, OffType

\* Two steps around the ring are one.
LEMMA WrapWrap ==
  ASSUME NEW i \in Index, NEW a \in 0 .. Capacity, NEW b \in 0 .. Capacity, a + b <= Capacity
  PROVE  Wrap(Wrap(i + a) + b) = Wrap(i + (a + b))
<1>. USE CapacityAssumption DEF Index
<1>1. i + a \in 0 .. 2 * Capacity - 1 /\ i + (a + b) \in 0 .. 2 * Capacity - 1
  OBVIOUS
<1>2. Wrap(i + a) = IF i + a < Capacity THEN i + a ELSE i + a - Capacity
  BY <1>1, WrapOnce
<1>3. Wrap(i + a) + b \in 0 .. 2 * Capacity - 1
  BY <1>1, <1>2
<1>4. Wrap(Wrap(i + a) + b) = IF Wrap(i + a) + b < Capacity THEN Wrap(i + a) + b
                              ELSE Wrap(i + a) + b - Capacity
  BY <1>3, WrapOnce
<1>5. Wrap(i + (a + b)) = IF i + (a + b) < Capacity THEN i + (a + b) ELSE i + (a + b) - Capacity
  BY <1>1, WrapOnce
<1>. QED BY <1>2, <1>4, <1>5

\* When the tail moves on by s, what lies further than s comes s closer.
LEMMA OffShift ==
  ASSUME tail \in Index, NEW s \in 0 .. Capacity - 1, tail' = Wrap(tail + s),
         NEW i \in Index, Off(i) >= s
  PROVE  tail' \in Index /\ Off(i)' = Off(i) - s
<1>. USE CapacityAssumption DEF Index
<1>1. tail + s \in 0 .. 2 * Capacity - 1
  OBVIOUS
<1>2. tail' = IF tail + s < Capacity THEN tail + s ELSE tail + s - Capacity
  BY <1>1, WrapOnce
<1>3. tail' \in Index
  BY <1>1, <1>2
<1>4. i - tail' + Capacity \in 0 .. 2 * Capacity - 1
  BY <1>3
<1>5. Off(i)' = IF i >= tail' THEN i - tail' ELSE i - tail' + Capacity
  BY <1>4, WrapOnce DEF Off
<1>. QED BY <1>2, <1>3, <1>5, OffType

\* A copy into the ring writes the source from the start on ...
LEMMA CopyToThere ==
  ASSUME tail \in Index, NEW src, NEW n \in Nat, DOMAIN src = 1 .. n,
         NEW start \in Index, NEW k \in 1 .. n, Off(start) + n <= Capacity
  PROVE  CopyToQueue(src, start)[Wrap(start + (k - 1))] = src[k]
<1>. USE CapacityAssumption DEF Index
<1>. DEFINE i == Wrap(start + (k - 1))
<1>1. i \in Index /\ i = IF start + (k - 1) < Capacity THEN start + (k - 1)
                         ELSE start + (k - 1) - Capacity
  <2>1. Off(start) \in 0 .. Capacity - 1
    BY OffType
  <2>2. start + (k - 1) \in 0 .. 2 * Capacity - 1
    BY <2>1
  <2>3. i = IF start + (k - 1) < Capacity THEN start + (k - 1) ELSE start + (k - 1) - Capacity
    BY <2>2, WrapOnce
  <2>. QED BY <2>2, <2>3
<1>. HIDE DEF i
<1>2. Wrap(i - start + Capacity) = k - 1
  <2>1. Off(start) \in 0 .. Capacity - 1
    BY OffType
  <2>2. i - start + Capacity \in 0 .. 2 * Capacity - 1
    BY <1>1
  <2>3. Wrap(i - start + Capacity) = IF i - start + Capacity < Capacity THEN i - start + Capacity
                                     ELSE i - start
    BY <1>1, <2>2, WrapOnce
  <2>. QED BY <1>1, <2>1, <2>3
<1>3. CopyToQueue(src, start)[i] = src[k]
  <2>1. i \in Index /\ Wrap(i - start + Capacity) + 1 = k /\ k \in DOMAIN src
    BY <1>1, <1>2
  <2>. HIDE DEF Index
  <2>. QED BY <2>1, Zenon DEF CopyToQueue
<1>. QED BY <1>3 DEF i

\* ... and nothing outside.
LEMMA CopyToElsewhere ==
  ASSUME tail \in Index, NEW src, NEW n \in Nat, DOMAIN src = 1 .. n,
         NEW start \in Index, Off(start) + n <= Capacity,
         NEW i \in Index, Off(i) < Off(start) \/ Off(i) >= Off(start) + n
  PROVE  CopyToQueue(src, start)[i] = buffer[i]
<1>. USE CapacityAssumption DEF Index
<1>1. /\ Off(start) \in 0 .. Capacity - 1
      /\ Off(start) = IF start >= tail THEN start - tail ELSE start - tail + Capacity
      /\ Off(i) \in 0 .. Capacity - 1
      /\ Off(i) = IF i >= tail THEN i - tail ELSE i - tail + Capacity
  BY OffType
<1>2. i - start + Capacity \in 0 .. 2 * Capacity - 1
  OBVIOUS
<1>3. Wrap(i - start + Capacity) = IF i - start + Capacity < Capacity THEN i - start + Capacity
                                   ELSE i - start
  BY <1>2, WrapOnce
<1>4. Wrap(i - start + Capacity) >= n
  BY <1>1, <1>3
<1>. QED BY <1>3, <1>4 DEF CopyToQueue

-----------------------------------------------------------------------------
(* Blocks.                                                                 *)

LEMMA BlockType ==
  ASSUME NEW b \in Block
  PROVE  /\ b.by \in Producers /\ b.pos \in Index /\ b.msg \in Messages /\ b.ready \in BOOLEAN
         /\ b.msg \in Seq(Byte) /\ Len(b.msg) \in Nat
         /\ BlockSize(b.msg) = 2 + Len(b.msg)
BY MessageType DEF Block, BlockSize, HeaderLen

LEMMA InflightType ==
  ASSUME TypeOK
  PROVE  /\ Len(inflight) \in Nat
         /\ DOMAIN inflight = 1 .. Len(inflight)
         /\ inflight = <<>> <=> Len(inflight) = 0
         /\ \A i \in DOMAIN inflight :
              /\ inflight[i] \in Block
              /\ Off(inflight[i].pos) \in 0 .. Capacity - 1
              /\ Off(inflight[i].pos) \in Nat
              /\ BlockSize(inflight[i].msg) \in Nat
              /\ End(inflight[i]) = Off(inflight[i].pos) + BlockSize(inflight[i].msg)
<1>1. Len(inflight) \in Nat /\ DOMAIN inflight = 1 .. Len(inflight)
  BY DEF TypeOK
<1>2. inflight = <<>> <=> Len(inflight) = 0
  BY DEF TypeOK
<1>3. \A i \in DOMAIN inflight : inflight[i] \in Block
  BY <1>1, ElementOfSeq DEF TypeOK
<1>4. ASSUME NEW i \in DOMAIN inflight
      PROVE  /\ Off(inflight[i].pos) \in 0 .. Capacity - 1
             /\ Off(inflight[i].pos) \in Nat
             /\ BlockSize(inflight[i].msg) \in Nat
  <2>1. inflight[i].pos \in Index /\ tail \in Index
    BY <1>3, BlockType DEF TypeOK
  <2>2. Off(inflight[i].pos) \in 0 .. Capacity - 1
    BY <2>1, OffType
  <2>3. BlockSize(inflight[i].msg) = 2 + Len(inflight[i].msg) /\ Len(inflight[i].msg) \in Nat
    BY <1>3, BlockType
  <2>. QED BY <2>2, <2>3, CapacityAssumption
<1>. QED BY <1>1, <1>2, <1>3, <1>4 DEF End

\* The free space the code computes is what lies between the last block and the tail.
LEMMA SpaceLeftIs ==
  ASSUME TypeOK, BlocksTileRing, head \in Index
  PROVE  SpaceLeft = Capacity - Off(Top)
<1>1. Top = head /\ tail \in Index
  BY TopType DEF TypeOK
<1>. QED BY <1>1, OffType, CapacityAssumption DEF SpaceLeft, Index

\* The k-th byte of a block is at a place of its own: between its first and its last offset.
LEMMA ByteOffset ==
  ASSUME TypeOK, BlocksTileRing, NEW i \in DOMAIN inflight,
         NEW k \in 0 .. BlockSize(inflight[i].msg) - 1
  PROVE  /\ Wrap(inflight[i].pos + k) \in Index
         /\ Off(Wrap(inflight[i].pos + k)) = Off(inflight[i].pos) + k
<1>1. /\ inflight[i] \in Block /\ i \in 1 .. Len(inflight)
      /\ inflight[i].pos \in Index /\ tail \in Index /\ Capacity \in Nat
  BY InflightType, BlockType, CapacityAssumption DEF TypeOK
<1>2. PICK o \in Nat, s \in Nat : /\ o = Off(inflight[i].pos) /\ s = BlockSize(inflight[i].msg)
                                  /\ End(inflight[i]) = o + s
  BY InflightType
<1>3. o + s < Capacity
  BY <1>1, <1>2 DEF BlocksTileRing
<1>4. k \in Nat /\ o + k < Capacity
  BY <1>1, <1>2, <1>3
<1>. QED BY <1>1, <1>2, <1>4, OffAdd

\* A copy into a block changes that part of the block and nothing else of any block.
LEMMA CopySomeInBlock ==
  ASSUME TypeOK, BlocksTileRing, NEW i \in DOMAIN inflight,
         NEW src, NEW n \in Nat, DOMAIN src = 1 .. n,
         NEW a \in 0 .. BlockSize(inflight[i].msg) - 1, a + n <= BlockSize(inflight[i].msg),
         NEW j \in DOMAIN inflight, NEW k \in 0 .. BlockSize(inflight[j].msg) - 1
  PROVE  CopyToQueue(src, Wrap(inflight[i].pos + a))[Wrap(inflight[j].pos + k)] =
           IF i = j /\ a <= k /\ k < a + n THEN src[k - a + 1]
           ELSE buffer[Wrap(inflight[j].pos + k)]
<1>1. /\ inflight[i] \in Block /\ inflight[j] \in Block
      /\ i \in 1 .. Len(inflight) /\ j \in 1 .. Len(inflight) /\ Len(inflight) \in Nat
  BY InflightType
<1>2. tail \in Index /\ Capacity \in Nat
  BY CapacityAssumption DEF TypeOK
<1>i. PICK oi \in Nat, si \in Nat : /\ oi = Off(inflight[i].pos) /\ End(inflight[i]) = oi + si
                                    /\ si = BlockSize(inflight[i].msg)
  BY InflightType
<1>j. PICK oj \in Nat, sj \in Nat : /\ oj = Off(inflight[j].pos) /\ End(inflight[j]) = oj + sj
                                    /\ sj = BlockSize(inflight[j].msg)
  BY InflightType
<1>s. PICK start \in Index : start = Wrap(inflight[i].pos + a) /\ Off(start) = oi + a
  BY <1>i, ByteOffset
<1>t. PICK there \in Index : there = Wrap(inflight[j].pos + k) /\ Off(there) = oj + k
  BY <1>j, ByteOffset
<1>3. a \in 0 .. si - 1 /\ a + n <= si /\ k \in 0 .. sj - 1 /\ (i = j => oi = oj /\ si = sj)
  BY <1>i, <1>j
<1>4. /\ oi + si < Capacity
      /\ i < j => oi + si <= oj
      /\ j < i => oj + sj <= oi
  BY <1>1, <1>i, <1>j DEF BlocksTileRing
<1>5. Off(start) + n <= Capacity
  BY <1>2, <1>s, <1>3, <1>4
<1>6. CASE i = j /\ a <= k /\ k < a + n
  <2>1. k - a + 1 \in 1 .. n /\ Off(start) + (k - a) < Capacity /\ k - a \in Nat
    BY <1>2, <1>s, <1>3, <1>4, <1>6
  <2>2. Wrap(start + (k - a)) \in Index /\ Off(Wrap(start + (k - a))) = Off(start) + (k - a)
    BY <1>2, <2>1, OffAdd
  <2>3. Off(Wrap(start + (k - a))) = Off(there)
    BY <1>s, <1>t, <1>3, <1>6, <2>2
  <2>4. Wrap(start + (k - a)) = there
    BY <1>2, <2>2, <2>3, OffInjective
  <2>5. CopyToQueue(src, start)[Wrap(start + ((k - a + 1) - 1))] = src[k - a + 1]
    BY <1>2, <1>5, <2>1, CopyToThere
  <2>6. (k - a + 1) - 1 = k - a
    BY <2>1
  <2>7. CopyToQueue(src, start)[there] = src[k - a + 1]
    BY <2>4, <2>5, <2>6
  <2>. QED BY <1>s, <1>t, <1>6, <2>7
<1>7. CASE ~(i = j /\ a <= k /\ k < a + n)
  <2>1. Off(there) < Off(start) \/ Off(there) >= Off(start) + n
    BY <1>1, <1>2, <1>s, <1>t, <1>3, <1>4, <1>7
  <2>2. CopyToQueue(src, start)[there] = buffer[there]
    BY <1>2, <1>5, <2>1, CopyToElsewhere
  <2>. QED BY <1>s, <1>t, <1>7, <2>2
<1>. QED BY <1>6, <1>7

\* The same for a copy that may be empty: the payload of a message of no bytes.
LEMMA CopyInBlock ==
  ASSUME TypeOK, BlocksTileRing, NEW i \in DOMAIN inflight,
         NEW src, NEW n \in Nat, DOMAIN src = 1 .. n,
         NEW a \in Nat, a + n <= BlockSize(inflight[i].msg),
         NEW j \in DOMAIN inflight, NEW k \in 0 .. BlockSize(inflight[j].msg) - 1
  PROVE  CopyToQueue(src, Wrap(inflight[i].pos + a))[Wrap(inflight[j].pos + k)] =
           IF i = j /\ a <= k /\ k < a + n THEN src[k - a + 1]
           ELSE buffer[Wrap(inflight[j].pos + k)]
<1>1. CASE n = 0
  <2>1. DOMAIN src = {} /\ ~(a <= k /\ k < a + n)
    BY <1>1, InflightType
  <2>2. Wrap(inflight[j].pos + k) \in Index
    BY ByteOffset
  <2>. QED BY <2>1, <2>2 DEF CopyToQueue
<1>2. CASE n # 0
  <2>1. PICK s \in Nat : s = BlockSize(inflight[i].msg)
    BY InflightType
  <2>2. a \in 0 .. s - 1
    BY <1>2, <2>1
  <2>. QED BY <2>1, <2>2, CopySomeInBlock
<1>. QED BY <1>1, <1>2

-----------------------------------------------------------------------------
(* What the steps leave alone.                                             *)

\* After a step of c, no context but c has interrupts disabled.
LEMMA CriticalStep ==
  ASSUME SingleCore, NEW c \in Contexts, NEW from, NEW to,
         Moved(c, from, to), CanRun(c), to = "reserve" => Fits(msg[c])'
  PROVE  CriticalInv'
<1>1. \A d \in Contexts \ {c} : ~IrqOff(d)
  BY DEF SingleCore, CanRun
<1>2. \A d \in Contexts \ {c} : ~IrqOff(d)'
  BY <1>1 DEF IrqOff, Moved
<1>3. \A p \in Producers : pc'[p] = "reserve" => p = c
  BY <1>2 DEF IrqOff, Contexts
<1>4. \A p \in Producers : pc'[p] = "reserve" => Fits(msg[p])'
  BY <1>3 DEF Moved
<1>. QED BY <1>2, <1>4 DEF CriticalInv

\* The tiling is about the places and the sizes of the blocks, not about their readiness.
LEMMA TilesKept ==
  ASSUME BlocksTileRing, SumsInv, Top' = Top, tail' = tail,
         Len(inflight) \in Nat, DOMAIN inflight = 1 .. Len(inflight),
         Len(inflight') = Len(inflight), DOMAIN inflight' = DOMAIN inflight,
         (inflight = <<>>) <=> (inflight' = <<>>),
         \A i \in DOMAIN inflight : /\ inflight'[i].pos = inflight[i].pos
                                    /\ inflight'[i].msg = inflight[i].msg
  PROVE  BlocksTileRing' /\ SumsInv'
<1>1. \A i \in Index : Off(i)' = Off(i)
  BY DEF Off
<1>2. \A i \in DOMAIN inflight : /\ Off(inflight[i].pos)' = Off(inflight[i].pos)
                                 /\ End(inflight[i])' = End(inflight[i])
  BY DEF Off, End
<1>3. Off(Top)' = Off(Top)
  BY DEF Off
<1>4. BlocksTileRing'
  BY <1>2, <1>3 DEF BlocksTileRing
<1>5. SumsInv'
  BY <1>2 DEF SumsInv
<1>. QED BY <1>4, <1>5

\* A producer changes nothing that the consumer relies on.
LEMMA ConsumerKept ==
  ASSUME ConsumerInv, UNCHANGED popVars, pc'[Consumer] = pc[Consumer],
         inflight # <<>> => /\ inflight' # <<>>
                            /\ inflight'[1].pos = inflight[1].pos
                            /\ inflight'[1].msg = inflight[1].msg
                            /\ inflight[1].ready => inflight'[1].ready
  PROVE  ConsumerInv'
BY DEF ConsumerInv, PopTakesOldest, popVars, SlotOf, Split, Fifo!Handed

-----------------------------------------------------------------------------
(* The steps of a producer.                                                *)

\* A step that touches neither the ring nor the blocks nor what is written of them.
LEMMA QuietStep ==
  ASSUME RingInv, SingleCore, UNCHANGED <<ring, pos, inflight>>,
         NEW c \in Contexts, NEW from, NEW to, Moved(c, from, to), CanRun(c),
         to = "reserve" => Fits(msg[c])',
         from \notin Writing, to \notin Writing,
         \A q \in Producers : pc[q] \in Writing => msg'[q] = msg[q],
         TypeOK, ConsumerInv'
  PROVE  RingInv'
<1>. USE DEF ring
<1>1. CriticalInv'
  BY CriticalStep
<1>2. \A q \in Producers : /\ pc[q] \in Writing <=> pc'[q] \in Writing
                           /\ pc[q] \in Writing => pc'[q] = pc[q] /\ msg'[q] = msg[q]
  BY DEF Moved, Contexts
<1>3. \A i \in DOMAIN inflight : inflight[i].by \in Producers
  BY InflightType, BlockType
<1>4. OwnerInv'
  BY <1>2, <1>3 DEF RingInv, OwnerInv
<1>5. BlocksTileRing' /\ SumsInv'
  BY InflightType, TilesKept DEF RingInv, Top
<1>6. \A i \in DOMAIN inflight : Written(inflight[i])' = Written(inflight[i])
  BY <1>2, <1>3 DEF Written, RingInv, OwnerInv
<1>7. BytesInv'
  BY <1>6 DEF RingInv, BytesInv, Encoded
<1>. QED BY <1>1, <1>4, <1>5, <1>7 DEF RingInv

\* The three copies into a reserved block: is_ready, len and the payload.
LEMMA CopyStep ==
  ASSUME TypeOK, RingInv, SingleCore, NEW p \in Producers,
         NEW from \in Writing, NEW to \in Writing, Moved(p, from, to), CanRun(p),
         UNCHANGED <<head, tail, pushVars, popVars, inflight>>,
         NEW i \in DOMAIN inflight, inflight[i].by = p, ~inflight[i].ready,
         NEW a \in Nat, NEW n \in Nat, NEW src, DOMAIN src = 1 .. n,
         a + n <= BlockSize(inflight[i].msg),
         buffer' = CopyToQueue(src, Wrap(inflight[i].pos + a)),
         Written(inflight[i]) = a, Written(inflight[i])' = a + n,
         \A k \in a .. a + n - 1 : src[k - a + 1] = Encoded(inflight[i], k)
  PROVE  RingInv'
<1>. USE DEF pushVars
<1>0. p \in Contexts /\ p # Consumer /\ Consumer \in Contexts
  BY ContextAssumption DEF Contexts
<1>1. CriticalInv'
  BY <1>0, CriticalStep DEF Writing
<1>2. \A q \in Producers : /\ pc[q] \in Writing <=> pc'[q] \in Writing
                           /\ q # p => pc'[q] = pc[q]
  BY DEF Moved, Contexts
<1>3. \A j \in DOMAIN inflight : inflight[j].by \in Producers
  BY InflightType, BlockType
<1>4. OwnerInv'
  BY <1>2, <1>3 DEF RingInv, OwnerInv
<1>5. BlocksTileRing' /\ SumsInv'
  BY InflightType, TilesKept DEF RingInv, Top
<1>6. ConsumerInv'
  BY <1>0, ConsumerKept DEF RingInv, Moved
<1>7. \A j \in DOMAIN inflight : j # i => Written(inflight[j])' = Written(inflight[j])
  BY <1>2, <1>3 DEF Written, RingInv, OwnerInv
<1>8. BytesInv'
  <2>. SUFFICES ASSUME NEW j \in DOMAIN inflight, NEW k \in 0 .. Written(inflight[j])' - 1
                PROVE  buffer'[Wrap(inflight[j].pos + k)] = Encoded(inflight[j], k)
    BY DEF BytesInv, Encoded
  <2>1. PICK s \in Nat : s = BlockSize(inflight[j].msg)
    BY InflightType
  <2>2. CASE j # i
    <3>1. k \in 0 .. Written(inflight[j]) - 1
      BY <1>7, <2>2
    <3>2. Written(inflight[j]) \in 0 .. s
      <4>1. inflight[j] \in Block
        BY InflightType
      <4>2. s >= 2
        BY <2>1, <4>1, BlockType
      <4>. QED BY <2>1, <4>2 DEF Written, HeaderLen
    <3>3. k \in 0 .. BlockSize(inflight[j].msg) - 1
      BY <2>1, <3>1, <3>2
    <3>4. buffer'[Wrap(inflight[j].pos + k)] =
            IF i = j /\ a <= k /\ k < a + n THEN src[k - a + 1]
            ELSE buffer[Wrap(inflight[j].pos + k)]
      <4>1. BlocksTileRing
        BY DEF RingInv
      <4>. QED BY <3>3, <4>1, CopyInBlock
    <3>. QED BY <2>2, <3>1, <3>4 DEF RingInv, BytesInv
  <2>3. CASE j = i
    <3>1. k \in 0 .. a + n - 1 /\ a + n <= s
      BY <2>1, <2>3
    <3>2. k \in 0 .. BlockSize(inflight[j].msg) - 1
      BY <2>1, <3>1
    <3>3. buffer'[Wrap(inflight[j].pos + k)] =
            IF a <= k /\ k < a + n THEN src[k - a + 1] ELSE buffer[Wrap(inflight[j].pos + k)]
      <4>1. BlocksTileRing
        BY DEF RingInv
      <4>2. buffer'[Wrap(inflight[j].pos + k)] =
              IF i = j /\ a <= k /\ k < a + n THEN src[k - a + 1]
              ELSE buffer[Wrap(inflight[j].pos + k)]
        BY <3>2, <4>1, CopyInBlock
      <4>. QED BY <2>3, <4>2
    <3>4. CASE a <= k
      <4>1. k \in a .. a + n - 1 /\ k < a + n
        BY <3>1, <3>4
      <4>. QED BY <2>3, <3>3, <3>4, <4>1
    <3>5. CASE ~(a <= k)
      <4>1. k \in 0 .. Written(inflight[i]) - 1
        BY <3>1, <3>5
      <4>. QED BY <2>3, <3>3, <3>5, <4>1 DEF RingInv, BytesInv
    <3>. QED BY <3>4, <3>5
  <2>. QED BY <2>2, <2>3
<1>. QED BY <1>1, <1>4, <1>5, <1>6, <1>8 DEF RingInv

LEMMA CheckStep ==
  ASSUME TypeOK, TypeOK', RingInv, SingleCore, NEW p \in Producers, PushCheck(p)
  PROVE  RingInv'
<1>. USE DEF ring
<1>1. p \in Contexts /\ p # Consumer /\ Consumer \in Contexts
  BY ContextAssumption DEF Contexts
<1>2. Moved(p, "idle", "reserve") /\ CanRun(p)
  BY <1>1, StepMoves DEF PushCheck, Step, PushPc
<1>3. PICK m \in Messages : Fits(m) /\ msg' = [msg EXCEPT ![p] = m]
  BY DEF PushCheck
<1>4. msg'[p] = m
  BY <1>3 DEF TypeOK
<1>5. Fits(msg[p])'
  BY <1>3, <1>4 DEF PushCheck, Fits, SpaceLeft
<1>6. \A q \in Producers : pc[q] \in Writing => msg'[q] = msg[q]
  BY <1>2, <1>3 DEF Moved, Writing, TypeOK
<1>7. ConsumerInv'
  BY <1>1, <1>2, ConsumerKept DEF PushCheck, Moved, RingInv
<1>8. "idle" \notin Writing /\ "reserve" \notin Writing /\ UNCHANGED <<ring, pos, inflight>>
  BY DEF PushCheck, Writing
<1>. QED BY <1>1, <1>2, <1>5, <1>6, <1>7, <1>8, QuietStep

\* Producer p is writing block i.
Writes(p, i) ==
  /\ inflight[i].by = p /\ ~inflight[i].ready
  /\ pos[p] = inflight[i].pos /\ msg[p] = inflight[i].msg
  /\ inflight[i].msg \in Messages /\ Len(inflight[i].msg) \in Nat
  /\ BlockSize(inflight[i].msg) = 2 + Len(inflight[i].msg)
  /\ DOMAIN inflight[i].msg = 1 .. Len(inflight[i].msg)
  /\ Wrap(inflight[i].pos + 0) = inflight[i].pos

\* A producer between the reservation and the commit has a block.
LEMMA OwnBlock ==
  ASSUME TypeOK, RingInv, NEW p \in Producers, pc[p] \in Writing
  PROVE  \E i \in DOMAIN inflight : Writes(p, i)
<1>1. PICK i \in DOMAIN inflight : inflight[i].by = p /\ ~inflight[i].ready
  BY DEF RingInv, OwnerInv
<1>2. pos[p] = inflight[i].pos /\ msg[p] = inflight[i].msg
  BY <1>1 DEF RingInv, OwnerInv
<1>3. inflight[i] \in Block
  BY InflightType
<1>4. inflight[i].msg \in Seq(Byte) /\ inflight[i].pos \in Index
  BY <1>3, BlockType
<1>5. Wrap(inflight[i].pos + 0) = inflight[i].pos
  BY <1>4, CapacityAssumption, WrapOnce DEF Index
<1>. QED BY <1>1, <1>2, <1>3, <1>4, <1>5, BlockType DEF Writes

LEMMA MarkStep ==
  ASSUME TypeOK, RingInv, SingleCore, NEW p \in Producers, PushMark(p)
  PROVE  RingInv'
<1>1. p \in Contexts /\ p # Consumer
  BY ContextAssumption DEF Contexts
<1>2. Moved(p, "mark", "len") /\ CanRun(p) /\ "mark" \in Writing /\ "len" \in Writing
  BY <1>1, StepMoves DEF PushMark, Step, PushPc, Writing
<1>3. pc[p] = "mark" /\ pc'[p] = "len"
  BY <1>2 DEF Moved
<1>4. PICK i \in DOMAIN inflight : Writes(p, i)
  BY <1>2, <1>3, OwnBlock
<1>. USE DEF Writes
<1>5. UNCHANGED <<head, tail, pushVars, popVars, inflight>>
  BY DEF PushMark
<1>0. PICK a \in Nat : a = 0
  OBVIOUS
<1>6. Written(inflight[i]) = a /\ Written(inflight[i])' = a + 1
  BY <1>0, <1>3, <1>4, <1>5 DEF Written
<1>7. PICK src : src = <<0>>
  OBVIOUS
<1>8. buffer' = CopyToQueue(src, Wrap(inflight[i].pos + a))
  BY <1>0, <1>4, <1>7 DEF PushMark
<1>9. DOMAIN src = 1 .. 1 /\ a + 1 <= BlockSize(inflight[i].msg)
  BY <1>0, <1>4, <1>7
<1>10. \A k \in a .. a + 1 - 1 : src[k - a + 1] = Encoded(inflight[i], k)
  BY <1>0, <1>4, <1>7 DEF Encoded
<1>. QED BY <1>2, <1>4, <1>5, <1>6, <1>8, <1>9, <1>10, CopyStep

LEMMA LenStep ==
  ASSUME TypeOK, RingInv, SingleCore, NEW p \in Producers, PushLen(p)
  PROVE  RingInv'
<1>1. p \in Contexts /\ p # Consumer
  BY ContextAssumption DEF Contexts
<1>2. Moved(p, "len", "data") /\ CanRun(p) /\ "len" \in Writing /\ "data" \in Writing
  BY <1>1, StepMoves DEF PushLen, Step, PushPc, Writing
<1>3. pc[p] = "len" /\ pc'[p] = "data"
  BY <1>2 DEF Moved
<1>4. PICK i \in DOMAIN inflight : Writes(p, i)
  BY <1>2, <1>3, OwnBlock
<1>. USE DEF Writes
<1>5. UNCHANGED <<head, tail, pushVars, popVars, inflight>>
  BY DEF PushLen
<1>6. Written(inflight[i]) = 1 /\ Written(inflight[i])' = 1 + 1
  BY <1>3, <1>4, <1>5 DEF Written, HeaderLen
<1>7. PICK src : src = <<Len(inflight[i].msg)>>
  OBVIOUS
<1>8. buffer' = CopyToQueue(src, Wrap(inflight[i].pos + 1))
  BY <1>4, <1>7 DEF PushLen
<1>9. DOMAIN src = 1 .. 1 /\ 1 + 1 <= BlockSize(inflight[i].msg)
  BY <1>4, <1>7
<1>10. \A k \in 1 .. 1 + 1 - 1 : src[k - 1 + 1] = Encoded(inflight[i], k)
  BY <1>4, <1>7 DEF Encoded
<1>. QED BY <1>2, <1>4, <1>5, <1>6, <1>8, <1>9, <1>10, CopyStep

LEMMA DataStep ==
  ASSUME TypeOK, RingInv, SingleCore, NEW p \in Producers, PushData(p)
  PROVE  RingInv'
<1>1. p \in Contexts /\ p # Consumer
  BY ContextAssumption DEF Contexts
<1>2. Moved(p, "data", "commit") /\ CanRun(p) /\ "data" \in Writing /\ "commit" \in Writing
  BY <1>1, StepMoves DEF PushData, Step, PushPc, Writing
<1>3. pc[p] = "data" /\ pc'[p] = "commit"
  BY <1>2 DEF Moved
<1>4. PICK i \in DOMAIN inflight : Writes(p, i)
  BY <1>2, <1>3, OwnBlock
<1>. USE DEF Writes
<1>5. UNCHANGED <<head, tail, pushVars, popVars, inflight>>
  BY DEF PushData
<1>6. PICK n \in Nat : n = Len(inflight[i].msg)
  BY <1>4
<1>7. Written(inflight[i]) = 2 /\ Written(inflight[i])' = 2 + n
  BY <1>3, <1>4, <1>5, <1>6 DEF Written, HeaderLen
<1>8. buffer' = CopyToQueue(inflight[i].msg, Wrap(inflight[i].pos + 2))
  BY <1>4 DEF PushData, HeaderLen
<1>9. DOMAIN inflight[i].msg = 1 .. n /\ 2 + n <= BlockSize(inflight[i].msg)
  BY <1>4, <1>6
<1>10. \A k \in 2 .. 2 + n - 1 : inflight[i].msg[k - 2 + 1] = Encoded(inflight[i], k)
  <2>. TAKE k \in 2 .. 2 + n - 1
  <2>1. k - 2 + 1 = k - 1 /\ k # 0 /\ k # 1
    OBVIOUS
  <2>. QED BY <2>1 DEF Encoded
<1>. QED BY <1>2, <1>4, <1>5, <1>7, <1>8, <1>9, <1>10, CopyStep

\* Marking a block ready is a copy of one byte.
LEMMA CommitByte ==
  ASSUME TypeOK, NEW i \in Index
  PROVE  [buffer EXCEPT ![i] = 1] = CopyToQueue(<<1>>, i)
<1>. USE CapacityAssumption DEF Index
<1>1. ASSUME NEW j \in Index
      PROVE  Wrap(j - i + Capacity) + 1 \in DOMAIN <<1>> <=> j = i
  <2>1. Wrap(j - i + Capacity) = IF j - i + Capacity < Capacity THEN j - i + Capacity ELSE j - i
    BY WrapOnce
  <2>. QED BY <2>1
<1>2. Wrap(i - i + Capacity) + 1 = 1
  <2>1. i - i + Capacity = Capacity /\ Wrap(Capacity) = 0
    BY WrapOnce
  <2>. QED BY <2>1
<1>3. buffer \in [Index -> Byte]
  BY DEF TypeOK
<1>4. ASSUME NEW j \in Index
      PROVE  CopyToQueue(<<1>>, i)[j] = IF j = i THEN 1 ELSE buffer[j]
  <2>1. CASE j = i
    BY <1>2, <2>1 DEF CopyToQueue
  <2>2. CASE j # i
    BY <1>1, <2>2 DEF CopyToQueue
  <2>. QED BY <2>1, <2>2
<1>5. CopyToQueue(<<1>>, i) = [j \in Index |-> CopyToQueue(<<1>>, i)[j]]
  BY DEF CopyToQueue
<1>. QED BY <1>3, <1>4, <1>5

\* An interval from 1 has one length.
LEMMA SameInterval ==
  ASSUME NEW a \in Nat, NEW b \in Nat, 1 .. a = 1 .. b
  PROVE  a = b
<1>1. a # 0 => a \in 1 .. b
  OBVIOUS
<1>2. b # 0 => b \in 1 .. a
  OBVIOUS
<1>. QED BY <1>1, <1>2

LEMMA CommitStep ==
  ASSUME TypeOK, TypeOK', RingInv, SingleCore, NEW p \in Producers, PushCommit(p)
  PROVE  RingInv'
<1>1. p \in Contexts /\ p # Consumer /\ Consumer \in Contexts
  BY ContextAssumption DEF Contexts
<1>2. Moved(p, "commit", "idle") /\ CanRun(p)
  BY <1>1, StepMoves DEF PushCommit, Step, PushPc
<1>3. pc[p] = "commit" /\ pc'[p] = "idle"
  BY <1>2 DEF Moved
<1>4. PICK i \in DOMAIN inflight : Writes(p, i)
  BY <1>3, OwnBlock DEF Writing
<1>. USE DEF Writes
<1>5. /\ Len(inflight) \in Nat /\ DOMAIN inflight = 1 .. Len(inflight)
      /\ Len(inflight') \in Nat /\ DOMAIN inflight' = 1 .. Len(inflight')
      /\ inflight' \in Seq(Block)
  BY InflightType DEF TypeOK
<1>6. \A j \in DOMAIN inflight : inflight[j] \in Block /\ inflight[j].by \in Producers
  BY InflightType, BlockType
<1>7. /\ DOMAIN inflight' = DOMAIN inflight
      /\ \A j \in DOMAIN inflight :
           /\ inflight'[j].pos = inflight[j].pos /\ inflight'[j].msg = inflight[j].msg
           /\ inflight'[j].by = inflight[j].by
           /\ inflight'[j].ready = IF inflight[j].by = p THEN TRUE ELSE inflight[j].ready
  BY <1>6 DEF PushCommit, Committed, Block
<1>8. Len(inflight') = Len(inflight) /\ (inflight = <<>> <=> inflight' = <<>>)
  <2>1. Len(inflight') = Len(inflight)
    BY <1>5, <1>7, SameInterval
  <2>. QED BY <1>5, <2>1, EmptySeq
<1>9. CriticalInv'
  BY <1>1, <1>2, CriticalStep
<1>10. \A q \in Producers \ {p} : pc'[q] = pc[q] /\ msg'[q] = msg[q] /\ pos'[q] = pos[q]
  BY <1>2 DEF Moved, Contexts, PushCommit, TypeOK
<1>11. \A j \in DOMAIN inflight : j # i /\ inflight[j].by = p => inflight[j].ready
  BY <1>4 DEF RingInv, OwnerInv
<1>12. OwnerInv'
  <2>1. \A j \in DOMAIN inflight : ~inflight'[j].ready =>
          inflight[j].by \in Producers \ {p} /\ ~inflight[j].ready
    BY <1>6, <1>7
  <2>2. \A j \in DOMAIN inflight' : ~inflight'[j].ready =>
         /\ pc'[inflight'[j].by] \in Writing
         /\ pos'[inflight'[j].by] = inflight'[j].pos
         /\ msg'[inflight'[j].by] = inflight'[j].msg
    <3>. SUFFICES ASSUME NEW j \in DOMAIN inflight, ~inflight'[j].ready
                  PROVE  /\ pc'[inflight[j].by] \in Writing
                         /\ pos'[inflight[j].by] = inflight[j].pos
                         /\ msg'[inflight[j].by] = inflight[j].msg
      BY <1>7
    <3>1. inflight[j].by \in Producers \ {p} /\ ~inflight[j].ready
      BY <2>1
    <3>2. /\ pc[inflight[j].by] \in Writing
          /\ pos[inflight[j].by] = inflight[j].pos
          /\ msg[inflight[j].by] = inflight[j].msg
      BY <3>1 DEF RingInv, OwnerInv
    <3>. QED BY <1>10, <3>1, <3>2
  <2>3. \A q \in Producers : pc'[q] \in Writing =>
          \E j \in DOMAIN inflight' : inflight'[j].by = q /\ ~inflight'[j].ready
    <3>. SUFFICES ASSUME NEW q \in Producers, pc'[q] \in Writing
                  PROVE  \E j \in DOMAIN inflight' : inflight'[j].by = q /\ ~inflight'[j].ready
      OBVIOUS
    <3>1. q # p
      BY <1>3 DEF Writing
    <3>2. pc[q] \in Writing
      BY <1>10, <3>1
    <3>3. PICK j \in DOMAIN inflight : inflight[j].by = q /\ ~inflight[j].ready
      BY <3>2 DEF RingInv, OwnerInv
    <3>. QED BY <1>7, <3>1, <3>3
  <2>4. \A j, k \in DOMAIN inflight' :
          inflight'[j].by = inflight'[k].by /\ ~inflight'[j].ready /\ ~inflight'[k].ready => j = k
    BY <1>7, <2>1 DEF RingInv, OwnerInv
  <2>. QED BY <2>2, <2>3, <2>4 DEF OwnerInv
<1>13. BlocksTileRing' /\ SumsInv'
  BY <1>5, <1>7, <1>8, TilesKept DEF RingInv, PushCommit, Top
<1>14. ConsumerInv'
  <2>1. inflight # <<>> => 1 \in DOMAIN inflight
    BY <1>5, InflightType
  <2>2. inflight # <<>> => /\ inflight' # <<>>
                           /\ inflight'[1].pos = inflight[1].pos
                           /\ inflight'[1].msg = inflight[1].msg
                           /\ inflight[1].ready => inflight'[1].ready
    BY <1>7, <1>8, <2>1
  <2>. QED BY <1>1, <1>2, <2>2, ConsumerKept DEF RingInv, Moved, PushCommit
<1>15. BytesInv'
  <2>. SUFFICES ASSUME NEW j \in DOMAIN inflight, NEW k \in 0 .. Written(inflight[j])' - 1
                PROVE  buffer'[Wrap(inflight[j].pos + k)] = Encoded(inflight'[j], k)
    <3>1. \A j \in DOMAIN inflight : \A k : Encoded(inflight[j], k)' = Encoded(inflight'[j], k)
      BY DEF Encoded
    <3>. QED BY <1>7, <3>1 DEF BytesInv
  <2>0. PICK a \in Nat, n \in Nat, src \in {<<1>>} : a = 0 /\ n = 1 /\ src = <<1>>
    OBVIOUS
  <2>n. a \in Nat /\ n \in Nat
    BY <2>0
  <2>1. PICK s \in Nat : s = BlockSize(inflight[j].msg)
    BY InflightType
  <2>2. buffer' = CopyToQueue(src, Wrap(inflight[i].pos + a))
    <3>1. inflight[i].pos \in Index /\ pos[p] = inflight[i].pos
      BY <1>4, InflightType, BlockType
    <3>. QED BY <1>4, <2>0, <3>1, CommitByte DEF PushCommit
  <2>3. DOMAIN src = 1 .. n /\ a + n <= BlockSize(inflight[i].msg)
    BY <1>4, <2>0
  <2>4. Written(inflight[j])' = Written(inflight[j]) /\ Written(inflight[j]) \in 0 .. s
    <3>1. s >= 2
      BY <1>6, <2>1, BlockType
    <3>2. Written(inflight[j]) \in 0 .. s
      BY <2>1, <3>1 DEF Written, HeaderLen
    <3>3. CASE inflight[j].by = p
      <4>1. Written(inflight[j])' = BlockSize(inflight[j].msg)
        BY <1>7, <3>3 DEF Written
      <4>2. Written(inflight[j]) = BlockSize(inflight[j].msg)
        BY <1>3, <1>11, <3>3 DEF Written
      <4>. QED BY <3>2, <4>1, <4>2
    <3>4. CASE inflight[j].by # p
      <4>1. /\ inflight'[j].by = inflight[j].by /\ inflight'[j].msg = inflight[j].msg
            /\ inflight'[j].ready = inflight[j].ready
            /\ pc'[inflight[j].by] = pc[inflight[j].by]
        BY <1>6, <1>7, <1>10, <3>4
      <4>2. Written(inflight[j])' = Written(inflight[j])
        BY <4>1 DEF Written
      <4>. QED BY <3>2, <4>2
    <3>. QED BY <3>3, <3>4
  <2>5. k \in 0 .. BlockSize(inflight[j].msg) - 1 /\ k \in 0 .. Written(inflight[j]) - 1
    BY <2>1, <2>4
  <2>6. buffer'[Wrap(inflight[j].pos + k)] =
          IF i = j /\ a <= k /\ k < a + n THEN src[k - a + 1]
          ELSE buffer[Wrap(inflight[j].pos + k)]
    <3>1. BlocksTileRing
      BY DEF RingInv
    <3>. QED BY <2>n, <2>2, <2>3, <2>5, <3>1, CopyInBlock
  <2>7. buffer[Wrap(inflight[j].pos + k)] = Encoded(inflight[j], k)
    BY <2>5 DEF RingInv, BytesInv
  <2>8. CASE i = j /\ k = 0
    <3>1. buffer'[Wrap(inflight[j].pos + k)] = 1
      BY <2>0, <2>6, <2>8
    <3>2. inflight'[j].ready
      BY <1>4, <1>7, <2>8
    <3>. QED BY <2>8, <3>1, <3>2 DEF Encoded
  <2>9. CASE k # 0
    <3>1. Encoded(inflight'[j], k) = Encoded(inflight[j], k)
      BY <1>7, <2>9 DEF Encoded
    <3>2. ~(a <= k /\ k < a + n)
      BY <2>0, <2>5, <2>9
    <3>. QED BY <2>6, <2>7, <3>1, <3>2
  <2>10. CASE i # j
    <3>1. inflight'[j].ready = inflight[j].ready
      BY <1>6, <1>7, <1>11, <2>10, BlockType
    <3>2. Encoded(inflight'[j], k) = Encoded(inflight[j], k)
      BY <1>7, <3>1 DEF Encoded
    <3>. QED BY <2>6, <2>7, <2>10, <3>2
  <2>. QED BY <2>8, <2>9, <2>10
<1>. QED BY <1>9, <1>12, <1>13, <1>14, <1>15 DEF RingInv

\* What the assumption on the messages says of the sums of block sizes.
LEMMA SumsType ==
  ASSUME NoExactFill
  PROVE  /\ Sums \subseteq 0 .. Capacity - 1
         /\ 0 \in Sums
         /\ \A x \in Sums, m \in Messages :
              x + BlockSize(m) <= Capacity => x + BlockSize(m) \in Sums
<1>1. Sums \in SUBSET (0 .. Capacity - 1) /\ HoldsSums(Sums)
  BY DEF NoExactFill, Sums
<1>. QED BY <1>1 DEF HoldsSums

\* What lies from a block to the head is a sum of block sizes, and the block is
\* not behind the head.
LEMMA ToHead ==
  ASSUME TypeOK, BlocksTileRing, SumsInv, NEW i \in DOMAIN inflight
  PROVE  /\ End(inflight[i]) <= Off(Top)
         /\ Off(Top) - Off(inflight[i].pos) \in Nat
         /\ Off(Top) - Off(inflight[i].pos) \in Sums
<1>1. PICK n \in Nat : n = Len(inflight) /\ DOMAIN inflight = 1 .. n
  BY InflightType
<1>2. n > 0 /\ n \in DOMAIN inflight /\ i \in 1 .. n
  BY <1>1
<1>3. End(inflight[n]) = Off(Top)
  BY <1>1, <1>2 DEF BlocksTileRing
<1>4. Off(Top) - Off(inflight[i].pos) \in Sums
  BY <1>2, <1>3 DEF SumsInv
<1>i. PICK oi \in Nat, si \in Nat : /\ oi = Off(inflight[i].pos) /\ End(inflight[i]) = oi + si
  BY InflightType
<1>n. PICK on \in Nat, sn \in Nat : /\ on = Off(inflight[n].pos) /\ End(inflight[n]) = on + sn
  BY <1>2, InflightType
<1>5. i < n => oi + si <= on
  BY <1>1, <1>2, <1>i, <1>n DEF BlocksTileRing
<1>6. oi + si <= on + sn
  <2>1. CASE i = n
    BY <2>1, <1>i, <1>n
  <2>2. CASE i # n
    BY <2>2, <1>2, <1>5
  <2>. QED BY <2>1, <2>2
<1>. QED BY <1>3, <1>4, <1>i, <1>n, <1>6

\* The block a producer reserves ends short of the tail.
LEMMA ReserveFits ==
  ASSUME TypeOK, RingInv, NoExactFill, NEW p \in Producers, pc[p] = "reserve",
         head \in Index
  PROVE  /\ msg[p] \in Messages
         /\ BlockSize(msg[p]) \in Nat /\ BlockSize(msg[p]) >= 2
         /\ Off(Top) \in Nat
         /\ Off(Top) + BlockSize(msg[p]) < Capacity
<1>1. msg[p] \in Messages
  BY DEF TypeOK
<1>2. PICK s \in Nat : s = BlockSize(msg[p]) /\ s >= 2
  <2>1. Len(msg[p]) \in Nat /\ BlockSize(msg[p]) = 2 + Len(msg[p])
    BY <1>1, MessageType DEF BlockSize, HeaderLen
  <2>. QED BY <2>1
<1>3. Top \in Index /\ tail \in Index /\ Capacity \in Nat
  BY CapacityAssumption, TopType DEF TypeOK
<1>4. PICK o \in Nat : o = Off(Top)
  BY <1>3, OffType
<1>5. s <= Capacity - o
  BY <1>2, <1>4, SpaceLeftIs DEF RingInv, CriticalInv, Fits
<1>6. o \in Sums
  <2>1. CASE inflight = <<>>
    <3>1. Top = tail
      BY <2>1 DEF RingInv, BlocksTileRing
    <3>2. o = 0
      BY <1>3, <1>4, <3>1, OffType
    <3>. QED BY <3>2, SumsType
  <2>2. CASE inflight # <<>>
    <3>1. 1 \in DOMAIN inflight /\ Len(inflight) > 0
      BY <2>2, InflightType
    <3>2. inflight[1].pos = tail
      BY <3>1 DEF RingInv, BlocksTileRing
    <3>3. Off(inflight[1].pos) = 0
      BY <1>3, <3>2, OffType
    <3>. QED BY <1>4, <3>1, <3>3, ToHead DEF RingInv
  <2>. QED BY <2>1, <2>2
<1>7. o + s \in Sums
  BY <1>1, <1>2, <1>3, <1>5, <1>6, SumsType
<1>8. o + s # Capacity
  BY <1>3, <1>7, SumsType
<1>. QED BY <1>1, <1>2, <1>3, <1>4, <1>5, <1>8

LEMMA ReserveStep ==
  ASSUME TypeOK, TypeOK', RingInv, SingleCore, NoExactFill, NEW p \in Producers, PushReserve(p)
  PROVE  RingInv'
<1>1. p \in Contexts /\ p # Consumer /\ Consumer \in Contexts
  BY ContextAssumption DEF Contexts
<1>2. Moved(p, "reserve", "wrap") /\ CanRun(p)
  BY <1>1, StepMoves DEF PushReserve, Step, PushPc
<1>3. pc[p] = "reserve" /\ pc'[p] = "wrap"
  BY <1>2 DEF Moved
<1>0. head \in Index /\ Top = head
  BY <1>1, <1>2, <1>3, HeadIn, TopType
<1>. DEFINE b == [by |-> p, pos |-> head, msg |-> msg[p], ready |-> FALSE]
<1>4. /\ UNCHANGED <<tail, buffer, msg, popVars>>
      /\ inflight' = Append(inflight, b)
      /\ head' = head + BlockSize(msg[p])
      /\ pos' = [pos EXCEPT ![p] = head]
  BY DEF PushReserve
<1>5. PICK n \in Nat : n = Len(inflight) /\ DOMAIN inflight = 1 .. n
  BY InflightType
<1>6. /\ Len(inflight') = n + 1 /\ DOMAIN inflight' = 1 .. n + 1
      /\ \A i \in 1 .. n : inflight'[i] = inflight[i]
      /\ inflight'[n + 1] = b
      /\ inflight' # <<>>
  <2>1. inflight \in Seq(Block) /\ b \in Block
    BY <1>0, <1>3 DEF TypeOK, Block
  <2>. HIDE DEF b
  <2>2. inflight' = Append(inflight, b)
    BY <1>4 DEF b
  <2>. QED BY <1>5, <2>1, <2>2, AppendProperties
<1>7. PICK o \in Nat, s \in Nat : /\ o = Off(Top) /\ s = BlockSize(msg[p]) /\ s >= 2
                                  /\ o + s < Capacity /\ msg[p] \in Messages
  BY <1>0, <1>3, ReserveFits
<1>8. Top \in Index /\ tail \in Index /\ Capacity \in Nat
  BY <1>0, CapacityAssumption DEF TypeOK
<1>9. Top' \in Index /\ Off(Top') = o + s
  BY <1>0, <1>4, <1>7, <1>8, OffAdd DEF Top
<1>10. /\ \A i : Off(i)' = Off(i')
       /\ Off(Top)' = o + s
  BY <1>4, <1>9 DEF Off
<1>11. \A q \in Producers \ {p} : pc'[q] = pc[q] /\ msg'[q] = msg[q] /\ pos'[q] = pos[q]
  BY <1>2, <1>4 DEF Moved, Contexts, TypeOK
<1>12. pos'[p] = head /\ msg'[p] = msg[p]
  BY <1>4 DEF TypeOK
<1>13. \A i \in 1 .. n : inflight[i].by \in Producers
  BY <1>5, InflightType, BlockType
<1>14. \A i \in 1 .. n : ~inflight[i].ready => inflight[i].by \in Producers \ {p}
  BY <1>3, <1>5, <1>13 DEF RingInv, OwnerInv, Writing
<1>15. CriticalInv'
  BY <1>1, <1>2, CriticalStep
<1>16. OwnerInv'
  <2>1. \A i \in 1 .. n : ~inflight[i].ready =>
         /\ pc'[inflight[i].by] \in Writing
         /\ pos'[inflight[i].by] = inflight[i].pos
         /\ msg'[inflight[i].by] = inflight[i].msg
    BY <1>5, <1>11, <1>14 DEF RingInv, OwnerInv
  <2>2. pc'[p] \in Writing /\ b.by = p /\ ~b.ready /\ pos'[p] = b.pos /\ msg'[p] = b.msg
    BY <1>3, <1>12 DEF Writing
  <2>. HIDE DEF b
  <2>3. \A i \in DOMAIN inflight' : i \in 1 .. n \/ i = n + 1
    BY <1>6
  <2>4. \A i \in DOMAIN inflight' : ~inflight'[i].ready =>
         /\ pc'[inflight'[i].by] \in Writing
         /\ pos'[inflight'[i].by] = inflight'[i].pos
         /\ msg'[inflight'[i].by] = inflight'[i].msg
    BY <1>6, <2>1, <2>2, <2>3
  <2>5. \A q \in Producers : pc'[q] \in Writing =>
          \E i \in DOMAIN inflight' : inflight'[i].by = q /\ ~inflight'[i].ready
    <3>. SUFFICES ASSUME NEW q \in Producers, pc'[q] \in Writing
                  PROVE  \E i \in DOMAIN inflight' : inflight'[i].by = q /\ ~inflight'[i].ready
      OBVIOUS
    <3>1. CASE q = p
      <4>1. n + 1 \in DOMAIN inflight'
        BY <1>6
      <4>. QED BY <3>1, <4>1, <1>6, <2>2
    <3>2. CASE q # p
      <4>1. PICK i \in 1 .. n : inflight[i].by = q /\ ~inflight[i].ready
        BY <1>5, <1>11, <3>2 DEF RingInv, OwnerInv
      <4>2. i \in DOMAIN inflight'
        BY <1>6
      <4>. QED BY <1>6, <4>1, <4>2
    <3>. QED BY <3>1, <3>2
  <2>6. \A i, j \in DOMAIN inflight' :
          inflight'[i].by = inflight'[j].by /\ ~inflight'[i].ready /\ ~inflight'[j].ready => i = j
    BY <1>5, <1>6, <1>14, <2>2, <2>3 DEF RingInv, OwnerInv
  <2>. QED BY <2>4, <2>5, <2>6 DEF OwnerInv
<1>17. /\ \A i \in 1 .. n : /\ Off(inflight[i].pos) \in Nat /\ End(inflight[i]) \in Nat
                            /\ (Off(inflight[i].pos))' = Off(inflight'[i].pos)
                            /\ End(inflight[i])' = End(inflight[i])
                            /\ Off(inflight'[i].pos) = Off(inflight[i].pos)
       /\ Off(b.pos) = o
       /\ \A i \in 1 .. n + 1 : End(inflight[i])' = Off(inflight'[i].pos) + BlockSize(inflight'[i].msg)
  <2>1. Off(b.pos) = o
    BY <1>0, <1>7
  <2>. HIDE DEF b
  <2>. QED BY <1>4, <1>5, <1>6, <1>10, <2>1, InflightType DEF End, Off
<1>. HIDE DEF b
<1>18. \A i \in 1 .. n : End(inflight[i]) <= o
  BY <1>5, <1>7, ToHead DEF RingInv
<1>19. BlocksTileRing'
  <2>1. inflight' = <<>> <=> Top' = tail'
    <3>1. Top' # tail
      BY <1>7, <1>8, <1>9, OffType
    <3>. QED BY <1>4, <1>6, <3>1
  <2>2. inflight'[1].pos = tail'
    <3>1. CASE n = 0
      <4>1. inflight = <<>>
        BY <1>5, <3>1, InflightType
      <4>2. Top = tail
        BY <4>1 DEF RingInv, BlocksTileRing
      <4>. QED BY <1>0, <1>4, <1>6, <3>1, <4>2 DEF b
    <3>2. CASE n # 0
      <4>1. 1 \in 1 .. n
        BY <3>2
      <4>2. inflight[1].pos = tail
        BY <1>5, <3>2 DEF RingInv, BlocksTileRing
      <4>. QED BY <1>4, <1>6, <4>1, <4>2
    <3>. QED BY <3>1, <3>2
  <2>3. End(inflight[n + 1])' = o + s
    <3>1. b.msg = msg[p] /\ n + 1 \in 1 .. n + 1
      BY <1>5 DEF b
    <3>. QED BY <1>6, <1>7, <1>17, <3>1
  <2>4. \A i \in 1 .. n + 1 : End(inflight[i])' < Capacity
    <3>1. \A i \in 1 .. n : End(inflight[i])' < Capacity
      BY <1>5, <1>17 DEF RingInv, BlocksTileRing
    <3>. QED BY <1>7, <2>3, <3>1
  <2>5. Off(inflight[n + 1].pos)' = o
    BY <1>6, <1>10, <1>17
  <2>6. \A i, j \in 1 .. n + 1 :
          /\ i < j => End(inflight[i])' <= Off(inflight[j].pos)'
          /\ j = i + 1 => End(inflight[i])' = Off(inflight[j].pos)'
    <3>. SUFFICES ASSUME NEW i \in 1 .. n + 1, NEW j \in 1 .. n + 1
                  PROVE  /\ i < j => End(inflight[i])' <= Off(inflight[j].pos)'
                         /\ j = i + 1 => End(inflight[i])' = Off(inflight[j].pos)'
      OBVIOUS
    <3>1. CASE j \in 1 .. n
      <4>1. i < j \/ j = i + 1 => i \in 1 .. n
        BY <3>1
      <4>2. Off(inflight[j].pos)' = Off(inflight[j].pos)
        BY <1>17, <3>1
      <4>. QED BY <1>5, <1>17, <3>1, <4>1, <4>2 DEF RingInv, BlocksTileRing
    <3>2. CASE j = n + 1
      <4>1. i < j \/ j = i + 1 => i \in 1 .. n
        BY <3>2
      <4>2. i < j => End(inflight[i])' <= o
        BY <1>17, <1>18, <4>1
      <4>3. ASSUME j = i + 1 PROVE End(inflight[i])' = o
        <5>1. i = n /\ n \in 1 .. n
          BY <3>2, <4>1, <4>3
        <5>2. End(inflight[n]) = Off(Top)
          BY <1>5, <5>1 DEF RingInv, BlocksTileRing
        <5>. QED BY <1>7, <1>17, <5>1, <5>2
      <4>. QED BY <2>5, <3>2, <4>2, <4>3
    <3>. QED BY <3>1, <3>2
  <2>. QED BY <1>6, <1>10, <2>1, <2>2, <2>3, <2>4, <2>6 DEF BlocksTileRing
<1>20. SumsInv'
  <2>. SUFFICES ASSUME NEW i \in 1 .. n + 1, NEW j \in 1 .. n + 1, i <= j
                PROVE  End(inflight[j])' - Off(inflight[i].pos)' \in Sums
    BY <1>6 DEF SumsInv
  <2>1. CASE j \in 1 .. n
    <3>1. i \in 1 .. n
      BY <2>1
    <3>. QED BY <1>5, <1>17, <2>1, <3>1 DEF RingInv, SumsInv
  <2>2. CASE j = n + 1
    <3>1. End(inflight[j])' = o + s
      <4>1. b.msg = msg[p] /\ n + 1 \in 1 .. n + 1
        BY <1>5 DEF b
      <4>. QED BY <1>6, <1>7, <1>17, <2>2, <4>1
    <3>2. 0 + s \in Sums
      BY <1>7, <1>8, SumsType
    <3>3. CASE i = n + 1
      <4>1. Off(inflight[i].pos)' = o
        BY <1>6, <1>10, <1>17, <3>3
      <4>2. (o + s) - o = 0 + s
        OBVIOUS
      <4>. QED BY <3>1, <3>2, <4>1, <4>2
    <3>4. CASE i \in 1 .. n
      <4>1. PICK oi \in Nat : oi = Off(inflight[i].pos)
        BY <1>17, <3>4
      <4>2. o - oi \in Nat /\ o - oi \in Sums
        BY <1>5, <1>7, <3>4, <4>1, ToHead DEF RingInv
      <4>3. (o - oi) + s \in Sums
        BY <1>7, <1>8, <4>2, SumsType
      <4>4. (o - oi) + s = (o + s) - oi
        OBVIOUS
      <4>5. Off(inflight[i].pos)' = oi
        BY <1>17, <3>4, <4>1
      <4>. QED BY <3>1, <4>3, <4>4, <4>5
    <3>. QED BY <3>3, <3>4
  <2>. QED BY <2>1, <2>2
<1>21. BytesInv'
  <2>1. \A i \in 1 .. n : Written(inflight[i])' = Written(inflight[i])
    BY <1>6, <1>11, <1>14 DEF Written
  <2>2. Written(inflight[n + 1])' = 0
    BY <1>3, <1>6 DEF Written, b
  <2>3. ASSUME NEW i \in 1 .. n + 1, NEW k \in 0 .. Written(inflight[i])' - 1
        PROVE  buffer'[Wrap(inflight'[i].pos + k)] = Encoded(inflight'[i], k)
    <3>1. i \in 1 .. n
      BY <2>2, <2>3
    <3>. QED BY <1>4, <1>5, <1>6, <2>1, <2>3, <3>1 DEF RingInv, BytesInv
  <2>4. \A i : \A k : Encoded(inflight[i], k)' = Encoded(inflight'[i], k)
    BY DEF Encoded
  <2>. QED BY <1>6, <2>3, <2>4 DEF BytesInv
<1>22. ConsumerInv'
  <2>1. inflight # <<>> => 1 \in 1 .. n
    BY <1>5, InflightType
  <2>2. inflight # <<>> => /\ inflight' # <<>>
                           /\ inflight'[1].pos = inflight[1].pos
                           /\ inflight'[1].msg = inflight[1].msg
                           /\ inflight[1].ready => inflight'[1].ready
    BY <1>6, <2>1
  <2>. QED BY <1>1, <1>2, <1>4, <2>2, ConsumerKept DEF RingInv, Moved
<1>. QED BY <1>15, <1>16, <1>19, <1>20, <1>21, <1>22 DEF RingInv

\* Masking head moves nothing: the place behind the newest block is the same.
LEMMA WrapStep ==
  ASSUME TypeOK, RingInv, SingleCore, NEW p \in Producers, PushWrap(p)
  PROVE  RingInv'
<1>1. p \in Contexts /\ p # Consumer /\ Consumer \in Contexts
  BY ContextAssumption DEF Contexts
<1>2. Moved(p, "wrap", "mark") /\ CanRun(p)
  BY <1>1, StepMoves DEF PushWrap, Step, PushPc
<1>3. UNCHANGED <<tail, buffer, pushVars, popVars, inflight>> /\ Top' = Top
  BY TopType DEF PushWrap, Top
<1>4. CriticalInv'
  BY <1>1, <1>2, CriticalStep
<1>5. \A q \in Producers : /\ pc[q] \in Writing <=> pc'[q] \in Writing
                           /\ q # p => pc'[q] = pc[q]
  BY <1>2 DEF Moved, Contexts, Writing
<1>6. \A i \in DOMAIN inflight : inflight[i].by \in Producers
  BY InflightType, BlockType
<1>7. OwnerInv'
  BY <1>3, <1>5, <1>6 DEF RingInv, OwnerInv, pushVars
<1>8. BlocksTileRing' /\ SumsInv'
  BY <1>3, InflightType, TilesKept DEF RingInv
<1>9. \A i \in DOMAIN inflight : Written(inflight[i])' = Written(inflight[i])
  BY <1>2, <1>3, <1>5, <1>6 DEF Written, Moved
<1>10. BytesInv'
  BY <1>3, <1>9 DEF RingInv, BytesInv, Encoded
<1>11. ConsumerInv'
  BY <1>1, <1>2, <1>3, ConsumerKept DEF RingInv, Moved
<1>. QED BY <1>4, <1>7, <1>8, <1>10, <1>11 DEF RingInv

-----------------------------------------------------------------------------
(* The steps of the consumer.                                              *)

\* What the invariant says of the oldest block.
LEMMA OldestBlock ==
  ASSUME TypeOK, RingInv, inflight # <<>>
  PROVE  /\ 1 \in DOMAIN inflight /\ Len(inflight) > 0 /\ inflight[1] \in Block
         /\ inflight[1].pos = tail /\ tail \in Index
         /\ inflight[1].msg \in Messages /\ inflight[1].msg \in Seq(Byte)
         /\ Len(inflight[1].msg) \in Nat
         /\ BlockSize(inflight[1].msg) = 2 + Len(inflight[1].msg)
         /\ Off(tail) = 0
         /\ End(inflight[1]) = BlockSize(inflight[1].msg)
         /\ BlockSize(inflight[1].msg) < Capacity
         /\ inflight[1].ready => Written(inflight[1]) = BlockSize(inflight[1].msg)
<1>1. 1 \in DOMAIN inflight /\ Len(inflight) > 0 /\ inflight[1] \in Block
  BY InflightType
<1>2. inflight[1].pos = tail /\ End(inflight[1]) < Capacity /\ tail \in Index
  BY <1>1, InflightType DEF RingInv, BlocksTileRing, TypeOK
<1>3. Off(tail) = 0
  BY <1>2, OffType
<1>4. PICK s \in Nat : s = BlockSize(inflight[1].msg) /\ End(inflight[1]) = Off(inflight[1].pos) + s
  BY <1>1, InflightType
<1>5. End(inflight[1]) = s
  BY <1>2, <1>3, <1>4
<1>. QED BY <1>1, <1>2, <1>3, <1>4, <1>5, BlockType DEF Written

\* head and tail differ, so there is an oldest block.
LEMMA NotEmptyStep ==
  ASSUME TypeOK, RingInv, SingleCore, PopNotEmpty
  PROVE  RingInv'
<1>1. Consumer \in Contexts /\ Consumer \notin Producers
  BY ContextAssumption DEF Contexts
<1>2. Moved(Consumer, "idle", "ready") /\ CanRun(Consumer)
  BY <1>1, StepMoves DEF PopNotEmpty, Step, PopPc
<1>0. Top = head
  BY <1>1, HeadIn, TopType DEF PopNotEmpty, Step
<1>3. ConsumerInv'
  BY <1>0, <1>2 DEF RingInv, BlocksTileRing, ConsumerInv, PopTakesOldest, PopNotEmpty, Moved
<1>. QED BY <1>1, <1>2, <1>3, QuietStep DEF PopNotEmpty, Writing, pushVars

\* is_ready read as 1 is that of a committed block: while its producer has not
\* written it yet, interrupts are disabled.
LEMMA ReadyStep ==
  ASSUME TypeOK, RingInv, SingleCore, PopReady
  PROVE  RingInv'
<1>1. Consumer \in Contexts /\ Consumer \notin Producers
  BY ContextAssumption DEF Contexts
<1>2. PICK to \in {"fetch", "idle"} :
        /\ Moved(Consumer, "ready", to)
        /\ to = IF buffer[tail] = 1 THEN "fetch" ELSE "idle"
  BY <1>1, StepMoves DEF PopReady, PopPc
<1>3. CanRun(Consumer) /\ pc[Consumer] = "ready"
  BY DEF PopReady, Step
<1>4. inflight # <<>>
  BY <1>3 DEF RingInv, ConsumerInv
<1>5. ASSUME to = "fetch" PROVE inflight[1].ready
  <2>. SUFFICES ASSUME ~inflight[1].ready PROVE FALSE
    OBVIOUS
  <2>1. 1 \in DOMAIN inflight /\ inflight[1].by \in Producers
    BY <1>4, OldestBlock, BlockType
  <2>2. pc[inflight[1].by] \in Writing
    BY <2>1 DEF RingInv, OwnerInv
  <2>3. pc[inflight[1].by] \notin {"wrap", "mark"}
    BY <1>1, <1>3, <2>1 DEF CanRun, IrqOff, SingleCore, Contexts
  <2>4. PICK w \in Nat : w = Written(inflight[1]) /\ w > 0
    BY <1>4, <2>3, OldestBlock DEF Written, HeaderLen
  <2>5. 0 \in 0 .. w - 1
    BY <2>4
  <2>6. buffer[Wrap(inflight[1].pos + 0)] = Encoded(inflight[1], 0)
    BY <2>1, <2>4, <2>5 DEF RingInv, BytesInv
  <2>7. Wrap(inflight[1].pos + 0) = tail
    BY <1>4, OldestBlock, CapacityAssumption, WrapOnce DEF Index
  <2>. QED BY <1>2, <1>5, <2>6, <2>7 DEF Encoded
<1>6. ConsumerInv'
  BY <1>2, <1>4, <1>5 DEF RingInv, ConsumerInv, PopTakesOldest, PopReady, Moved, ring, popVars
<1>. QED BY <1>1, <1>2, <1>3, <1>6, QuietStep DEF PopReady, Writing, pushVars

\* The length read is that of the oldest block, and fits the destination.
LEMMA PopLenStep ==
  ASSUME TypeOK, RingInv, SingleCore, PopLen
  PROVE  RingInv'
<1>1. Consumer \in Contexts /\ Consumer \notin Producers
  BY ContextAssumption DEF Contexts
<1>2. CanRun(Consumer) /\ pc[Consumer] = "fetch"
  BY DEF PopLen, Step
<1>3. inflight # <<>> /\ inflight[1].ready
  BY <1>2 DEF RingInv, ConsumerInv, PopTakesOldest
<1>4. PICK s \in Nat : s = Written(inflight[1]) /\ s >= 2
  BY <1>3, OldestBlock
<1>5. 1 \in 0 .. s - 1 /\ 1 \in DOMAIN inflight
  BY <1>3, <1>4, OldestBlock
<1>6. buffer[Wrap(tail + 1)] = Len(inflight[1].msg)
  <2>1. buffer[Wrap(inflight[1].pos + 1)] = Encoded(inflight[1], 1)
    BY <1>4, <1>5 DEF RingInv, BytesInv
  <2>. QED BY <1>3, <2>1, OldestBlock DEF Encoded
<1>7. Len(inflight[1].msg) <= DestLen
  BY <1>3, OldestBlock, MessageAssumption
<1>8. Moved(Consumer, "fetch", "copy") /\ len' = Len(inflight[1].msg)
  BY <1>1, <1>6, <1>7, StepMoves DEF PopLen, PopPc
<1>9. ConsumerInv'
  BY <1>3, <1>8 DEF ConsumerInv, PopTakesOldest, PopLen, Moved
<1>. QED BY <1>1, <1>2, <1>8, <1>9, QuietStep DEF PopLen, Writing, pushVars

\* Where it stays inside the buffer, a pop copies the payload of the oldest block.
LEMMA CopiedByte ==
  ASSUME TypeOK, RingInv, pc[Consumer] = "copy",
         NEW k \in 1 .. len, Wrap(tail + HeaderLen) + (k - 1) < Capacity
  PROVE  buffer[Wrap(tail + HeaderLen) + k - 1] = inflight[1].msg[k]
<1>. USE CapacityAssumption DEF HeaderLen
<1>1. inflight # <<>> /\ inflight[1].ready /\ len = Len(inflight[1].msg)
  BY DEF RingInv, ConsumerInv, PopTakesOldest
<1>2. PICK n \in Nat : n = len /\ n + 2 < Capacity /\ Written(inflight[1]) = 2 + n
  BY <1>1, OldestBlock
<1>3. tail \in Index /\ inflight[1].pos = tail /\ 1 \in DOMAIN inflight
  BY <1>1, OldestBlock
<1>4. PICK start \in Index : start = Wrap(tail + 2)
  BY <1>3, WrapInIndex DEF Index
<1>5. start + (k - 1) \in 0 .. Capacity - 1
  BY <1>2, <1>4 DEF Index
<1>6. Wrap(start + (k - 1)) = start + (k - 1)
  BY <1>5, WrapOnce
<1>7. Wrap(Wrap(tail + 2) + (k - 1)) = Wrap(tail + (2 + (k - 1)))
  <2>1. 2 \in 0 .. Capacity /\ k - 1 \in 0 .. Capacity /\ 2 + (k - 1) <= Capacity
    BY <1>2
  <2>. QED BY <1>3, <2>1, WrapWrap
<1>8. buffer[Wrap(inflight[1].pos + (k + 1))] = Encoded(inflight[1], k + 1)
  <2>1. k + 1 \in 0 .. (2 + n) - 1
    BY <1>2
  <2>. QED BY <1>2, <1>3, <2>1 DEF RingInv, BytesInv
<1>9. Encoded(inflight[1], k + 1) = inflight[1].msg[k]
  <2>1. k + 1 # 0 /\ k + 1 # 1 /\ (k + 1) - 1 = k
    BY <1>2
  <2>. QED BY <2>1 DEF Encoded
<1>10. 2 + (k - 1) = k + 1 /\ start + (k - 1) = start + k - 1
  BY <1>2 DEF Index
<1>. QED BY <1>3, <1>4, <1>6, <1>7, <1>8, <1>9, <1>10

\* What a copy out of the ring returns is what MsgqFifo lets the consumer be handed.
LEMMA CopyIsHanded ==
  ASSUME TypeOK, RingInv, PopCopy
  PROVE  dest' \in Fifo!Handed(SlotOf(inflight[1]))
<1>. USE CapacityAssumption
<1>1. /\ pc[Consumer] = "copy" /\ inflight # <<>> /\ len = Len(inflight[1].msg)
      /\ dest' \in CopyFromQueue(Wrap(tail + HeaderLen), len)
  BY DEF RingInv, ConsumerInv, PopTakesOldest, PopCopy, Step
<1>2. PICK m \in Seq(Byte), n \in Nat :
        m = inflight[1].msg /\ n = len /\ DOMAIN m = 1 .. n /\ inflight[1].pos = tail
  BY <1>1, OldestBlock
<1>3. PICK start \in Index : start = Wrap(tail + HeaderLen)
  <2>1. tail + HeaderLen \in Nat
    BY <1>1, OldestBlock DEF Index, HeaderLen
  <2>. QED BY <2>1, WrapInIndex
<1>4. SlotOf(inflight[1]).msg = m /\ (SlotOf(inflight[1]).split <=> start + n > Capacity)
  BY <1>1, <1>2, <1>3 DEF SlotOf, Split
<1>5. ASSUME NEW k \in 1 .. n, k <= Capacity - start
      PROVE  buffer[start + k - 1] = m[k]
  <2>1. start + (k - 1) < Capacity
    BY <1>5 DEF Index
  <2>. QED BY <1>1, <1>2, <1>3, <2>1, CopiedByte
<1>6. CASE n <= Capacity - start
  <2>1. dest' = [k \in 1 .. n |-> buffer[start + k - 1]]
    BY <1>1, <1>2, <1>3, <1>6 DEF CopyFromQueue
  <2>2. \A k \in 1 .. n : k <= Capacity - start
    BY <1>6 DEF Index
  <2>3. dest' = [k \in 1 .. n |-> m[k]]
    BY <1>5, <2>1, <2>2
  <2>4. m = [k \in 1 .. n |-> m[k]]
    BY <1>2
  <2>5. ~(start + n > Capacity)
    BY <1>6 DEF Index
  <2>. QED BY <1>4, <2>3, <2>4, <2>5 DEF Fifo!Handed
<1>7. CASE ~(n <= Capacity - start)
  <2>1. PICK f \in Foreign :
          dest' = [k \in 1 .. n |-> IF k <= Capacity - start THEN buffer[start + k - 1] ELSE f]
    BY <1>1, <1>2, <1>3, <1>7 DEF CopyFromQueue
  <2>2. PICK cut \in 2 .. n : cut = Capacity - start + 1
    BY <1>7 DEF Index
  <2>3. \A k \in 1 .. n : k <= Capacity - start <=> k < cut
    BY <2>2 DEF Index
  <2>4. dest' = [k \in 1 .. n |-> IF k < cut THEN m[k] ELSE f]
    BY <1>5, <2>1, <2>3
  <2>5. start + n > Capacity
    BY <1>7 DEF Index
  <2>6. dest' = [k \in DOMAIN m |-> IF k < cut THEN m[k] ELSE f] /\ cut \in 2 .. Len(m)
    BY <1>1, <1>2, <2>2, <2>4
  <2>7. dest' \in {[k \in DOMAIN m |-> IF k < c THEN m[k] ELSE g] : c \in 2 .. Len(m), g \in Foreign}
    BY <2>6
  <2>. QED BY <1>4, <2>5, <2>7 DEF Fifo!Handed
<1>. QED BY <1>6, <1>7

LEMMA PopCopyStep ==
  ASSUME TypeOK, RingInv, SingleCore, PopCopy
  PROVE  RingInv'
<1>1. Consumer \in Contexts /\ Consumer \notin Producers
  BY ContextAssumption DEF Contexts
<1>2. CanRun(Consumer) /\ pc[Consumer] = "copy" /\ Moved(Consumer, "copy", "release")
  BY <1>1, StepMoves DEF PopCopy, Step, PopPc
<1>3. inflight # <<>> /\ inflight[1].ready /\ len = Len(inflight[1].msg)
  BY <1>2 DEF RingInv, ConsumerInv, PopTakesOldest
<1>4. dest' \in Fifo!Handed(SlotOf(inflight[1]))'
  BY CopyIsHanded DEF PopCopy, SlotOf, Split, Fifo!Handed
<1>5. ConsumerInv'
  BY <1>2, <1>3, <1>4 DEF ConsumerInv, PopTakesOldest, PopCopy, Moved
<1>. QED BY <1>1, <1>2, <1>5, QuietStep DEF PopCopy, Writing, pushVars

LEMMA ReleaseStep ==
  ASSUME TypeOK, TypeOK', RingInv, SingleCore, PopRelease
  PROVE  RingInv'
<1>. USE CapacityAssumption
<1>1. Consumer \in Contexts /\ Consumer \notin Producers
  BY ContextAssumption DEF Contexts
<1>2. CanRun(Consumer) /\ pc[Consumer] = "release" /\ Moved(Consumer, "release", "idle")
  BY <1>1, StepMoves DEF PopRelease, Step, PopPc
<1>3. inflight # <<>> /\ inflight[1].ready /\ len = Len(inflight[1].msg)
  BY <1>2 DEF RingInv, ConsumerInv, PopTakesOldest
<1>4. PICK n \in Nat : n = Len(inflight) /\ n > 0 /\ DOMAIN inflight = 1 .. n
  BY <1>3, InflightType, OldestBlock
<1>5. PICK s \in Nat : /\ s = BlockSize(inflight[1].msg) /\ s = 2 + len /\ s < Capacity
                       /\ End(inflight[1]) = s
  BY <1>3, OldestBlock
<1>6. tail \in Index /\ Top \in Index /\ len \in Nat
  BY <1>3, OldestBlock, TopType DEF TypeOK
<1>7. tail' = Wrap(tail + s)
  BY <1>5, <1>6, WrapWrap DEF PopRelease, HeaderLen
<1>8. /\ Len(inflight') = n - 1 /\ DOMAIN inflight' = 1 .. n - 1
      /\ \A i \in 1 .. n - 1 : inflight'[i] = inflight[i + 1]
  BY <1>4, SubSeqProperties DEF PopRelease, TypeOK
<1>9. UNCHANGED <<Top, buffer, msg, pos>> /\ \A p \in Producers : pc'[p] = pc[p]
  BY <1>1, <1>2 DEF PopRelease, pushVars, Moved, Contexts, Top
<1>10. CriticalInv'
  BY <1>1, <1>2, CriticalStep
<1>11. \A i \in 1 .. n : /\ inflight[i] \in Block /\ inflight[i].by \in Producers
                         /\ inflight[i].pos \in Index
  BY <1>4, InflightType, BlockType
<1>12. OwnerInv'
  <2>1. \A i \in 1 .. n - 1 : i + 1 \in DOMAIN inflight
    BY <1>4
  <2>2. \A i \in DOMAIN inflight' : ~inflight'[i].ready =>
         /\ pc'[inflight'[i].by] \in Writing
         /\ pos'[inflight'[i].by] = inflight'[i].pos
         /\ msg'[inflight'[i].by] = inflight'[i].msg
    <3>. SUFFICES ASSUME NEW i \in 1 .. n - 1, ~inflight'[i].ready
                  PROVE  /\ pc'[inflight'[i].by] \in Writing
                         /\ pos'[inflight'[i].by] = inflight'[i].pos
                         /\ msg'[inflight'[i].by] = inflight'[i].msg
      BY <1>8
    <3>1. inflight'[i] = inflight[i + 1] /\ i + 1 \in DOMAIN inflight /\ inflight[i + 1].by \in Producers
      BY <1>4, <1>8, <1>11, <2>1
    <3>2. /\ pc[inflight[i + 1].by] \in Writing
          /\ pos[inflight[i + 1].by] = inflight[i + 1].pos
          /\ msg[inflight[i + 1].by] = inflight[i + 1].msg
      BY <3>1 DEF RingInv, OwnerInv
    <3>. QED BY <1>9, <3>1, <3>2
  <2>3. ASSUME NEW p \in Producers, pc'[p] \in Writing
        PROVE  \E i \in DOMAIN inflight' : inflight'[i].by = p /\ ~inflight'[i].ready
    <3>1. PICK i \in 1 .. n : inflight[i].by = p /\ ~inflight[i].ready
      BY <1>4, <1>9, <2>3 DEF RingInv, OwnerInv
    <3>2. i # 1
      BY <1>3, <3>1
    <3>3. i - 1 \in 1 .. n - 1 /\ (i - 1) + 1 = i
      BY <3>2
    <3>4. inflight'[i - 1] = inflight[i]
      BY <1>8, <3>3
    <3>. QED BY <1>8, <3>1, <3>3, <3>4
  <2>4. \A i, j \in DOMAIN inflight' :
          inflight'[i].by = inflight'[j].by /\ ~inflight'[i].ready /\ ~inflight'[j].ready => i = j
    <3>. SUFFICES ASSUME NEW i \in 1 .. n - 1, NEW j \in 1 .. n - 1,
                         inflight'[i].by = inflight'[j].by, ~inflight'[i].ready, ~inflight'[j].ready
                  PROVE  i = j
      BY <1>8
    <3>1. i + 1 = j + 1
      BY <1>8, <2>1 DEF RingInv, OwnerInv
    <3>. QED BY <3>1
  <2>. QED BY <2>2, <2>3, <2>4 DEF OwnerInv
<1>13. ASSUME NEW x \in Index, Off(x) >= s
       PROVE  tail' \in Index /\ Off(x)' = Off(x) - s /\ Off(x) \in Nat
  BY <1>5, <1>6, <1>7, <1>13, OffType, OffShift
<1>14. PICK h \in Nat : h = Off(Top) /\ h >= s
  BY <1>3, <1>4, <1>5, <1>6, OffType, ToHead, OldestBlock DEF RingInv
<1>15. Off(Top)' = h - s /\ tail' \in Index
  <2>1. Off(Top)' = Off(Top) - s /\ tail' \in Index
    <3>1. PICK x \in Index : x = Top /\ x' = Top'
      BY <1>6, <1>9
    <3>. QED BY <1>5, <1>6, <1>7, <1>9, <1>14, OffShift DEF Off
  <2>. QED BY <1>14, <2>1
<1>16. ASSUME NEW i \in 1 .. n - 1
       PROVE  /\ Off(inflight'[i].pos) \in Nat /\ End(inflight'[i]) \in Nat
              /\ Off(inflight'[i].pos) >= s
              /\ Off(inflight[i].pos)' = Off(inflight'[i].pos) - s
              /\ End(inflight[i])' = End(inflight'[i]) - s
  <2>1. i + 1 \in 1 .. n /\ i + 1 > 1 /\ 1 \in 1 .. n /\ inflight'[i] = inflight[i + 1]
    BY <1>4, <1>8
  <2>2. PICK x \in Index : x = inflight[i + 1].pos
    BY <1>11, <2>1
  <2>3. End(inflight[1]) <= Off(inflight[i + 1].pos)
    BY <1>4, <2>1 DEF RingInv, BlocksTileRing
  <2>4. PICK o \in Nat, z \in Nat : /\ o = Off(x) /\ z = BlockSize(inflight[i + 1].msg)
                                    /\ End(inflight[i + 1]) = o + z
    BY <1>4, <2>1, <2>2, InflightType
  <2>5. o >= s
    BY <1>5, <2>2, <2>3, <2>4
  <2>6. Off(x)' = o - s
    BY <1>13, <2>4, <2>5
  <2>7. Off(inflight[i].pos)' = Off(x)'
    BY <2>1, <2>2 DEF Off
  <2>8. End(inflight[i])' = Off(inflight[i].pos)' + BlockSize(inflight'[i].msg)
    BY DEF End, Off
  <2>9. End(inflight[i])' = (o - s) + z
    BY <2>1, <2>4, <2>6, <2>7, <2>8
  <2>. QED BY <2>1, <2>2, <2>4, <2>5, <2>6, <2>7, <2>9
<1>17. BlocksTileRing'
  <2>1. inflight' = <<>> <=> n = 1
    <3>1. inflight' \in Seq(Block)
      BY DEF TypeOK
    <3>2. inflight' = <<>> <=> Len(inflight') = 0
      BY <3>1
    <3>. QED BY <1>4, <1>8, <3>2
  <2>2. n = 1 => h = s
    BY <1>4, <1>5, <1>14 DEF RingInv, BlocksTileRing
  <2>3. n # 1 => h > s
    <3>. SUFFICES ASSUME n # 1 PROVE h > s
      OBVIOUS
    <3>1. 2 \in 1 .. n /\ 1 \in 1 .. n - 1
      BY <1>4
    <3>2. PICK z \in Nat : z = BlockSize(inflight[2].msg) /\ z >= 2
      BY <1>4, <3>1, InflightType, BlockType
    <3>3. End(inflight[2]) <= h
      BY <1>4, <1>14, <3>1, ToHead DEF RingInv
    <3>4. End(inflight[2]) = Off(inflight[2].pos) + z /\ Off(inflight[2].pos) \in Nat
      BY <1>4, <3>1, <3>2, InflightType
    <3>5. Off(inflight[2].pos) >= s
      BY <1>4, <1>5, <3>1 DEF RingInv, BlocksTileRing
    <3>. QED BY <3>2, <3>3, <3>4, <3>5
  <2>4. inflight' = <<>> <=> Top' = tail'
    <3>1. Top' \in Index
      BY <1>6, <1>9
    <3>2. PICK x \in Index, t \in Index : x = Top' /\ t = tail'
      BY <1>15, <3>1
    <3>3. Off(Top)' = IF x >= t THEN x - t ELSE x - t + Capacity
      <4>1. x - t + Capacity \in 0 .. 2 * Capacity - 1
        BY DEF Index
      <4>2. Wrap(x - t + Capacity) = IF x - t + Capacity < Capacity THEN x - t + Capacity
                                     ELSE x - t + Capacity - Capacity
        BY <4>1, WrapOnce DEF Index
      <4>3. Off(Top)' = Wrap(x - t + Capacity)
        BY <3>2 DEF Off
      <4>. QED BY <4>2, <4>3 DEF Index
    <3>4. h - s = 0 <=> x = t
      BY <1>15, <3>3 DEF Index
    <3>5. h - s = 0 <=> n = 1
      BY <2>2, <2>3
    <3>. QED BY <2>1, <3>2, <3>4, <3>5
  <2>5. n # 1 => inflight'[1].pos = tail' /\ End(inflight[n - 1])' = Off(Top)'
    <3>. SUFFICES ASSUME n # 1 PROVE inflight'[1].pos = tail' /\ End(inflight[n - 1])' = Off(Top)'
      OBVIOUS
    <3>1. 2 \in 1 .. n /\ 1 \in 1 .. n - 1 /\ n - 1 \in 1 .. n - 1 /\ 1 + 1 = 2
          /\ (n - 1) + 1 = n
      BY <1>4
    <3>2. inflight'[1] = inflight[2] /\ inflight'[n - 1] = inflight[n]
      BY <1>8, <3>1
    <3>3. Off(inflight[2].pos) = s
      BY <1>4, <1>5, <3>1 DEF RingInv, BlocksTileRing
    <3>4. End(inflight[n - 1])' = Off(Top)'
      <4>1. End(inflight[n]) = h
        BY <1>4, <1>14 DEF RingInv, BlocksTileRing
      <4>. QED BY <1>15, <1>16, <3>1, <3>2, <4>1
    <3>5. inflight'[1].pos = tail'
      <4>1. inflight[2].pos \in Index
        BY <1>11, <3>1
      <4>2. PICK x \in Index : x = inflight[2].pos
        BY <4>1
      <4>3. x = IF tail + s < Capacity THEN tail + s ELSE tail + s - Capacity
        <5>1. Off(x) = IF x >= tail THEN x - tail ELSE x - tail + Capacity
          BY <1>6, OffType
        <5>2. Off(x) = s
          BY <3>3, <4>2
        <5>. QED BY <1>5, <1>6, <5>1, <5>2 DEF Index
      <4>4. tail + s \in 0 .. 2 * Capacity - 1
        BY <1>5, <1>6 DEF Index
      <4>5. tail' = IF tail + s < Capacity THEN tail + s ELSE tail + s - Capacity
        <5>1. Wrap(tail + s) = IF tail + s < Capacity THEN tail + s ELSE tail + s - Capacity
          BY <1>5, <1>6, <4>4, WrapOnce DEF Index
        <5>. QED BY <1>7, <5>1
      <4>. QED BY <3>2, <4>2, <4>3, <4>5
    <3>. QED BY <3>4, <3>5
  <2>6. \A i \in 1 .. n - 1 : End(inflight[i])' < Capacity
    <3>. SUFFICES ASSUME NEW i \in 1 .. n - 1 PROVE End(inflight[i])' < Capacity
      OBVIOUS
    <3>1. i + 1 \in 1 .. n /\ inflight'[i] = inflight[i + 1]
      BY <1>4, <1>8
    <3>2. End(inflight[i + 1]) < Capacity
      BY <1>4, <3>1 DEF RingInv, BlocksTileRing
    <3>. QED BY <1>16, <3>1, <3>2
  <2>7. \A i, j \in 1 .. n - 1 :
          /\ i < j => End(inflight[i])' <= Off(inflight[j].pos)'
          /\ j = i + 1 => End(inflight[i])' = Off(inflight[j].pos)'
    <3>. SUFFICES ASSUME NEW i \in 1 .. n - 1, NEW j \in 1 .. n - 1
                  PROVE  /\ i < j => End(inflight[i])' <= Off(inflight[j].pos)'
                         /\ j = i + 1 => End(inflight[i])' = Off(inflight[j].pos)'
      OBVIOUS
    <3>1. PICK x \in Int, y \in Int : x = i + 1 /\ y = j + 1
      OBVIOUS
    <3>2. /\ x \in 1 .. n /\ y \in 1 .. n
          /\ inflight'[i] = inflight[x] /\ inflight'[j] = inflight[y]
      BY <1>4, <1>8, <3>1
    <3>3. /\ x < y => End(inflight[x]) <= Off(inflight[y].pos)
          /\ y = x + 1 => End(inflight[x]) = Off(inflight[y].pos)
      BY <1>4, <3>2 DEF RingInv, BlocksTileRing
    <3>4. PICK e \in Nat, o \in Nat : e = End(inflight[x]) /\ o = Off(inflight[y].pos)
      BY <1>16, <3>2
    <3>5. End(inflight[i])' = e - s /\ Off(inflight[j].pos)' = o - s
      BY <1>16, <3>2, <3>4
    <3>6. (i < j => e <= o) /\ (j = i + 1 => e = o)
      BY <3>1, <3>3, <3>4
    <3>. QED BY <3>5, <3>6
  <2>. QED BY <1>4, <1>8, <2>1, <2>4, <2>5, <2>6, <2>7 DEF BlocksTileRing
<1>18. SumsInv'
  <2>. SUFFICES ASSUME NEW i \in 1 .. n - 1, NEW j \in 1 .. n - 1, i <= j
                PROVE  End(inflight[j])' - Off(inflight[i].pos)' \in Sums
    BY <1>8 DEF SumsInv
  <2>1. /\ i + 1 \in 1 .. n /\ j + 1 \in 1 .. n /\ i + 1 <= j + 1
        /\ inflight'[i] = inflight[i + 1] /\ inflight'[j] = inflight[j + 1]
    BY <1>4, <1>8
  <2>2. PICK e \in Nat, o \in Nat : e = End(inflight'[j]) /\ o = Off(inflight'[i].pos)
    BY <1>16
  <2>3. e - o \in Sums
    BY <1>4, <2>1, <2>2 DEF RingInv, SumsInv
  <2>4. End(inflight[j])' = e - s /\ Off(inflight[i].pos)' = o - s
    BY <1>16, <2>2
  <2>5. (e - s) - (o - s) = e - o
    OBVIOUS
  <2>. QED BY <2>3, <2>4, <2>5
<1>19. BytesInv'
  <2>1. \A i \in 1 .. n - 1 : i + 1 \in DOMAIN inflight /\ Written(inflight[i])' = Written(inflight[i + 1])
    BY <1>4, <1>8, <1>9, <1>11 DEF Written
  <2>2. ASSUME NEW i \in 1 .. n - 1, NEW k \in 0 .. Written(inflight[i])' - 1
        PROVE  buffer'[Wrap(inflight'[i].pos + k)] = Encoded(inflight'[i], k)
    BY <1>8, <1>9, <2>1 DEF RingInv, BytesInv
  <2>3. \A i : \A k : Encoded(inflight[i], k)' = Encoded(inflight'[i], k)
    BY DEF Encoded
  <2>. QED BY <1>8, <2>2, <2>3 DEF BytesInv
<1>20. ConsumerInv'
  BY <1>2 DEF ConsumerInv, PopTakesOldest, Moved
<1>. QED BY <1>10, <1>12, <1>17, <1>18, <1>19, <1>20 DEF RingInv

-----------------------------------------------------------------------------
(* The whole.                                                              *)

LEMMA RingInit == Init => RingInv
<1>. SUFFICES ASSUME Init PROVE RingInv
  OBVIOUS
<1>1. \A c \in Contexts : pc[c] = "idle"
  BY DEF Init
<1>2. inflight = <<>> /\ DOMAIN inflight = {} /\ Len(inflight) = 0 /\ Top = tail
  BY CapacityAssumption, WrapOnce DEF Init, Top
<1>. QED BY <1>1, <1>2 DEF RingInv, CriticalInv, OwnerInv, BlocksTileRing, BytesInv, SumsInv,
                          ConsumerInv, PopTakesOldest, IrqOff, Contexts, Writing

LEMMA ResetStep ==
  ASSUME Reset
  PROVE  RingInv'
<1>1. \A c \in Contexts : pc'[c] = "idle"
  BY DEF Reset
<1>2. inflight' = <<>> /\ DOMAIN inflight' = {} /\ Len(inflight') = 0 /\ Top' = tail'
  BY CapacityAssumption, WrapOnce DEF Reset, Top
<1>. QED BY <1>1, <1>2 DEF RingInv, CriticalInv, OwnerInv, BlocksTileRing, BytesInv, SumsInv,
                          ConsumerInv, PopTakesOldest, IrqOff, Contexts, Writing

LEMMA RingStutter ==
  ASSUME RingInv, UNCHANGED vars
  PROVE  RingInv'
<1>. USE DEF vars, ring, pushVars, popVars
<1>1. CriticalInv' /\ OwnerInv'
  BY DEF RingInv, CriticalInv, OwnerInv, IrqOff, Fits, SpaceLeft
<1>2. BlocksTileRing' /\ SumsInv'
  BY DEF RingInv, BlocksTileRing, SumsInv, End, Off, Top
<1>3. BytesInv'
  BY DEF RingInv, BytesInv, Written, Encoded
<1>4. ConsumerInv'
  BY DEF RingInv, ConsumerInv, PopTakesOldest, SlotOf, Split, Fifo!Handed
<1>. QED BY <1>1, <1>2, <1>3, <1>4 DEF RingInv

LEMMA RingStep ==
  ASSUME SingleCore, NoExactFill
  PROVE  TypeOK /\ TypeOK' /\ RingInv /\ [Next]_vars => RingInv'
<1>. SUFFICES ASSUME TypeOK, TypeOK', RingInv, [Next]_vars PROVE RingInv'
  OBVIOUS
<1>1. ASSUME NEW p \in Producers, Push(p) PROVE RingInv'
  <2>1. CASE PushReject(p)
    BY <2>1, RingStutter DEF PushReject
  <2>. QED BY <1>1, <2>1, CheckStep, ReserveStep, WrapStep, MarkStep, LenStep, DataStep, CommitStep DEF Push
<1>2. ASSUME Pop PROVE RingInv'
  <2>1. CASE PopEmpty
    BY <2>1, RingStutter DEF PopEmpty
  <2>. QED BY <1>2, <2>1, NotEmptyStep, ReadyStep, PopLenStep, PopCopyStep, ReleaseStep DEF Pop
<1>. QED BY <1>1, <1>2, ResetStep, RingStutter DEF Next

\* On one core, with messages that never fill the ring to the last byte, the
\* blocks in flight tile the ring from tail to head whatever the contexts do.
THEOREM RingCorrect ==
  ASSUME SingleCore, NoExactFill
  PROVE  Spec => []RingInv
<1>1. Init => RingInv
  BY RingInit
<1>2. TypeOK /\ TypeOK' /\ RingInv /\ [Next]_vars => RingInv'
  BY RingStep
<1>. QED BY <1>1, <1>2, TypeCorrect, PTL DEF Spec

\* Blocks never overlap and head = tail says the queue is empty (Msgq_Push
\* lines 86-108, Msgq_Pop line 161).
THEOREM TilingCorrect ==
  ASSUME SingleCore, NoExactFill
  PROVE  Spec => []BlocksTileRing
<1>1. RingInv => BlocksTileRing
  BY DEF RingInv
<1>. QED BY <1>1, RingCorrect, PTL

\* The free space Msgq_Push computes is what the blocks in flight leave.
THEOREM SpaceCorrect ==
  ASSUME SingleCore, NoExactFill
  PROVE  Spec => []SpaceIsExact
<1>1. TypeOK /\ RingInv => SpaceIsExact
  <2>. SUFFICES ASSUME TypeOK, RingInv, head \in Index PROVE SpaceIsExact
    BY DEF SpaceIsExact
  <2>1. Top \in Index /\ tail \in Index
    BY TopType DEF TypeOK
  <2>2. SpaceLeft = Capacity - Off(Top)
    BY SpaceLeftIs DEF RingInv
  <2>3. CASE inflight = <<>>
    <3>1. Off(Top) = 0
      BY <2>1, <2>3, OffType DEF RingInv, BlocksTileRing
    <3>. QED BY <2>2, <2>3, <3>1 DEF SpaceIsExact
  <2>4. CASE inflight # <<>>
    <3>1. End(inflight[Len(inflight)]) = Off(Top)
      BY <2>4, InflightType DEF RingInv, BlocksTileRing
    <3>. QED BY <2>2, <2>4, <3>1 DEF SpaceIsExact
  <2>. QED BY <2>3, <2>4
<1>. QED BY <1>1, RingCorrect, TypeCorrect, PTL

\* From its commit to its release no step of any context touches a block.
THEOREM CommittedCorrect ==
  ASSUME SingleCore, NoExactFill
  PROVE  Spec => []CommittedIntact
<1>1. TypeOK /\ RingInv => CommittedIntact
  <2>. SUFFICES ASSUME TypeOK, RingInv, NEW i \in DOMAIN inflight, inflight[i].ready,
                       NEW k \in DOMAIN (<<1, Len(inflight[i].msg)>> \o inflight[i].msg)
                PROVE  buffer[Wrap(inflight[i].pos + k - 1)] =
                         (<<1, Len(inflight[i].msg)>> \o inflight[i].msg)[k]
    BY DEF CommittedIntact
  <2>1. inflight[i] \in Block
    BY InflightType
  <2>2. PICK m \in Seq(Byte) : m = inflight[i].msg
    BY <2>1, BlockType
  <2>3. PICK n \in Nat : n = Len(m) /\ DOMAIN m = 1 .. n
    BY <2>2
  <2>4. Written(inflight[i]) = 2 + n
    BY <2>2, <2>3, <2>1, BlockType DEF Written
  <2>5. DOMAIN (<<1, Len(m)>> \o m) = 1 .. 2 + n
    BY <2>2, <2>3
  <2>6. k \in 1 .. 2 + n /\ k - 1 \in 0 .. (2 + n) - 1
    BY <2>2, <2>5
  <2>7. buffer[Wrap(inflight[i].pos + (k - 1))] = Encoded(inflight[i], k - 1)
    BY <2>4, <2>6 DEF RingInv, BytesInv
  <2>8. Encoded(inflight[i], k - 1) = (<<1, Len(m)>> \o m)[k]
    <3>1. CASE k = 1
      BY <2>2, <2>3, <3>1 DEF Encoded
    <3>2. CASE k = 2
      BY <2>2, <2>3, <3>2 DEF Encoded
    <3>3. CASE k \in 3 .. 2 + n
      <4>1. k - 1 # 0 /\ k - 1 # 1 /\ (k - 1) - 1 = k - 2
        BY <3>3
      <4>2. (<<1, Len(m)>> \o m)[k] = m[k - 2]
        BY <2>2, <2>3, <3>3
      <4>. QED BY <2>2, <4>1, <4>2 DEF Encoded
    <3>4. k = 1 \/ k = 2 \/ k \in 3 .. 2 + n
      BY <2>3, <2>6
    <3>. QED BY <3>1, <3>2, <3>3, <3>4
  <2>9. inflight[i].pos + (k - 1) = inflight[i].pos + k - 1
    BY <2>1, <2>6, BlockType, CapacityAssumption DEF Index
  <2>. QED BY <2>2, <2>7, <2>8, <2>9
<1>. QED BY <1>1, RingCorrect, TypeCorrect, PTL

\* A pop works on the oldest reservation, once committed, and on no other; it
\* never reaches the assertion on the length.
THEOREM PopCorrect ==
  ASSUME SingleCore, NoExactFill
  PROVE  Spec => []PopTakesOldest
<1>1. RingInv => PopTakesOldest
  BY DEF RingInv, ConsumerInv
<1>. QED BY <1>1, RingCorrect, PTL

-----------------------------------------------------------------------------
(* The queue is a FIFO of reservations.                                    *)

LEMMA SlotType ==
  ASSUME NEW b \in Block
  PROVE  Split(b) \in BOOLEAN /\ SlotOf(b) \in Fifo!Slot
<1>1. b.pos + HeaderLen \in Nat /\ Len(b.msg) \in Nat
  BY BlockType, CapacityAssumption DEF Index, HeaderLen
<1>2. PICK x \in Int : x = Wrap(b.pos + HeaderLen) + Len(b.msg)
  <2>1. Wrap(b.pos + HeaderLen) \in Index
    BY <1>1, WrapInIndex
  <2>. QED BY <1>1, <2>1, CapacityAssumption DEF Index
<1>3. (x > Capacity) \in BOOLEAN
  BY CapacityAssumption
<1>4. Split(b) \in BOOLEAN
  BY <1>2, <1>3, Zenon DEF Split
<1>. QED BY <1>4, BlockType DEF SlotOf, Fifo!Slot

\* The slots of MsgqFifo are read off the blocks in flight.
SlotsOf(q) == [i \in DOMAIN q |-> SlotOf(q[i])]

LEMMA SlotsType ==
  ASSUME NEW q \in Seq(Block)
  PROVE  /\ SlotsOf(q) \in Seq(Fifo!Slot) /\ Len(SlotsOf(q)) = Len(q)
         /\ Len(q) \in Nat /\ DOMAIN q = 1 .. Len(q) /\ DOMAIN SlotsOf(q) = 1 .. Len(q)
         /\ \A i \in 1 .. Len(q) : SlotsOf(q)[i] = SlotOf(q[i])
<1>1. PICK n \in Nat : n = Len(q) /\ DOMAIN q = 1 .. n
  OBVIOUS
<1>2. \A i \in 1 .. n : SlotOf(q[i]) \in Fifo!Slot
  BY <1>1, ElementOfSeq, SlotType
<1>3. SlotsOf(q) = [i \in 1 .. n |-> SlotOf(q[i])]
  BY <1>1 DEF SlotsOf
<1>. QED BY <1>1, <1>2, <1>3

LEMMA FifoReserve ==
  ASSUME TypeOK, TypeOK', RingInv, SingleCore, NEW p \in Producers, PushReserve(p)
  PROVE  Fifo!Reserve(p)
<1>. DEFINE b == [by |-> p, pos |-> head, msg |-> msg[p], ready |-> FALSE]
<1>1. inflight' = Append(inflight, b) /\ pc[p] = "reserve"
  BY DEF PushReserve, Step
<1>0. head \in Index
  BY HeadIn DEF PushReserve, Step, Contexts
<1>2. b \in Block /\ b.by = p /\ b.msg = msg[p] /\ b.ready = FALSE
  BY <1>0, <1>1 DEF TypeOK, Block
<1>3. \A i \in DOMAIN SlotsOf(inflight) : SlotsOf(inflight)[i].by = p => SlotsOf(inflight)[i].ready
  <2>1. \A i \in DOMAIN inflight : inflight[i].by = p => inflight[i].ready
    BY <1>1 DEF RingInv, OwnerInv, Writing
  <2>. QED BY <2>1 DEF SlotsOf, SlotOf
<1>. HIDE DEF b
<1>4. PICK n \in Nat : n = Len(inflight) /\ DOMAIN inflight = 1 .. n
  BY InflightType
<1>5. /\ Len(inflight') = n + 1 /\ DOMAIN inflight' = 1 .. n + 1
      /\ \A i \in 1 .. n : inflight'[i] = inflight[i]
      /\ inflight'[n + 1] = b
  BY <1>1, <1>2, <1>4, AppendProperties DEF TypeOK
<1>6. /\ SlotsOf(inflight) \in Seq(Fifo!Slot) /\ Len(SlotsOf(inflight)) = n
      /\ \A i \in 1 .. n : SlotsOf(inflight)[i] = SlotOf(inflight[i])
      /\ SlotsOf(inflight') \in Seq(Fifo!Slot) /\ Len(SlotsOf(inflight')) = n + 1
      /\ \A i \in 1 .. n + 1 : SlotsOf(inflight')[i] = SlotOf(inflight'[i])
  BY <1>4, <1>5, SlotsType DEF TypeOK
<1>7. SlotOf(b) \in Fifo!Slot /\ Split(b) \in BOOLEAN
  BY <1>2, SlotType
<1>8. SlotsOf(inflight') = Append(SlotsOf(inflight), SlotOf(b))
  BY <1>5, <1>6, <1>7, AppendProperties, SeqEqual
<1>9. SlotOf(b) = [by |-> p, msg |-> msg[p], ready |-> FALSE, split |-> Split(b)]
  BY <1>2 DEF SlotOf
<1>10. msg[p] \in Messages /\ out' = out
  BY <1>1 DEF TypeOK, PushReserve, popVars
<1>. QED BY <1>3, <1>7, <1>8, <1>9, <1>10 DEF Fifo!Reserve, SlotsOf

LEMMA FifoCommit ==
  ASSUME TypeOK, TypeOK', RingInv, NEW p \in Producers, PushCommit(p)
  PROVE  Fifo!Commit(p)
<1>1. pc[p] = "commit" /\ out' = out /\ inflight' = Committed(p)
  BY DEF PushCommit, Step, popVars
<1>2. PICK i \in DOMAIN inflight : inflight[i].by = p /\ ~inflight[i].ready
  BY <1>1, OwnBlock DEF Writing, Writes
<1>3. \A j \in DOMAIN inflight : inflight[j] \in Block /\ inflight[j].ready \in BOOLEAN
  BY InflightType, BlockType
<1>4. \A j \in DOMAIN inflight : inflight[j].by = p => j = i \/ inflight[j].ready
  BY <1>2 DEF RingInv, OwnerInv
<1>5. /\ DOMAIN inflight' = DOMAIN inflight
      /\ \A j \in DOMAIN inflight : inflight'[j] = IF j = i THEN [inflight[j] EXCEPT !.ready = TRUE]
                                                   ELSE inflight[j]
  BY <1>1, <1>2, <1>3, <1>4 DEF Committed, Block
<1>6. SlotsOf(inflight') = [j \in DOMAIN inflight |-> SlotOf(inflight'[j])]
  BY <1>5 DEF SlotsOf
<1>7. \A j \in DOMAIN inflight : SlotOf(inflight'[j]) = IF j = i THEN [SlotOf(inflight[j]) EXCEPT !.ready = TRUE]
                                                        ELSE SlotOf(inflight[j])
  BY <1>3, <1>5 DEF SlotOf, Split, Block
<1>8. SlotsOf(inflight') = [SlotsOf(inflight) EXCEPT ![i].ready = TRUE]
  BY <1>6, <1>7 DEF SlotsOf
<1>9. SlotsOf(inflight)[i].by = p /\ ~SlotsOf(inflight)[i].ready /\ i \in DOMAIN SlotsOf(inflight)
  BY <1>2 DEF SlotsOf, SlotOf
<1>. QED BY <1>1, <1>8, <1>9 DEF Fifo!Commit, SlotsOf

LEMMA FifoDeliver ==
  ASSUME TypeOK, TypeOK', RingInv, PopRelease
  PROVE  Fifo!Deliver
<1>1. inflight # <<>> /\ inflight[1].ready /\ out' = dest /\ dest \in Fifo!Handed(SlotOf(inflight[1]))
  BY DEF RingInv, ConsumerInv, PopTakesOldest, PopRelease, Step
<1>2. PICK n \in Nat : n = Len(inflight) /\ n > 0 /\ DOMAIN inflight = 1 .. n
  BY <1>1, InflightType, OldestBlock
<1>3. /\ Len(inflight') = n - 1 /\ DOMAIN inflight' = 1 .. n - 1
      /\ \A i \in 1 .. n - 1 : inflight'[i] = inflight[i + 1]
  BY <1>2, SubSeqProperties DEF PopRelease, TypeOK
<1>4. /\ SlotsOf(inflight) \in Seq(Fifo!Slot) /\ Len(SlotsOf(inflight)) = n
      /\ \A i \in 1 .. n : SlotsOf(inflight)[i] = SlotOf(inflight[i])
      /\ SlotsOf(inflight') \in Seq(Fifo!Slot) /\ Len(SlotsOf(inflight')) = n - 1
      /\ \A i \in 1 .. n - 1 : SlotsOf(inflight')[i] = SlotOf(inflight'[i])
  BY <1>2, <1>3, SlotsType DEF TypeOK
<1>5. SlotsOf(inflight) # <<>> /\ SlotsOf(inflight)[1] = SlotOf(inflight[1]) /\ SlotsOf(inflight)[1].ready
  <2>1. SlotsOf(inflight) # <<>>
    BY <1>2, <1>4, EmptySeq
  <2>2. SlotsOf(inflight)[1] = SlotOf(inflight[1])
    BY <1>2, <1>4
  <2>. QED BY <1>1, <2>1, <2>2 DEF SlotOf
<1>6. SlotsOf(inflight') = Tail(SlotsOf(inflight))
  <2>1. \A i \in 1 .. n - 1 : i + 1 \in 1 .. n
    BY <1>2
  <2>. QED BY <1>2, <1>3, <1>4, <1>5, <2>1, HeadTailProperties, SeqEqual
<1>. QED BY <1>1, <1>5, <1>6 DEF Fifo!Deliver, SlotsOf

LEMMA FifoReset ==
  ASSUME TypeOK, RingInv, Reset
  PROVE  Fifo!Reset
<1>1. inflight' = <<>> /\ out' = out /\ \A c \in Contexts : pc[c] = "idle"
  BY DEF Reset, popVars
<1>2. \A i \in DOMAIN inflight : inflight[i].ready
  <2>1. \A i \in DOMAIN inflight : inflight[i].by \in Contexts
    BY InflightType, BlockType DEF Contexts
  <2>. QED BY <1>1, <2>1 DEF RingInv, OwnerInv, Writing
<1>3. SlotsOf(inflight') = <<>>
  BY <1>1 DEF SlotsOf
<1>4. \A i \in DOMAIN SlotsOf(inflight) : SlotsOf(inflight)[i].ready
  BY <1>2 DEF SlotsOf, SlotOf
<1>. QED BY <1>1, <1>3, <1>4 DEF Fifo!Reset, SlotsOf

\* A step of the queue reserves, commits, delivers or forgets, or MsgqFifo sees
\* nothing of it.
LEMMA FifoStep ==
  ASSUME TypeOK, TypeOK', RingInv, SingleCore, [Next]_vars
  PROVE  [Fifo!Next]_(Fifo!vars)
<1>1. ASSUME UNCHANGED <<inflight, out>> PROVE UNCHANGED Fifo!vars
  BY <1>1 DEF Fifo!vars, SlotOf, Split
<1>2. ASSUME NEW p \in Producers, Push(p) PROVE [Fifo!Next]_(Fifo!vars)
  <2>1. CASE PushReserve(p)
    BY <2>1, FifoReserve DEF Fifo!Next
  <2>2. CASE PushCommit(p)
    BY <2>2, FifoCommit DEF Fifo!Next
  <2>3. CASE ~PushReserve(p) /\ ~PushCommit(p)
    BY <1>1, <1>2, <2>3 DEF Push, PushCheck, PushReject, PushWrap, PushMark, PushLen, PushData, vars, popVars
  <2>. QED BY <2>1, <2>2, <2>3
<1>3. CASE PopRelease
  BY <1>3, FifoDeliver DEF Fifo!Next
<1>4. CASE PopEmpty \/ PopNotEmpty \/ PopReady \/ PopLen \/ PopCopy \/ UNCHANGED vars
  BY <1>1, <1>4 DEF PopEmpty, PopNotEmpty, PopReady, PopLen, PopCopy, vars, popVars
<1>5. CASE Reset
  BY <1>5, FifoReset DEF Fifo!Next
<1>. QED BY <1>2, <1>3, <1>4, <1>5 DEF Next, Pop

\* On one core, with messages that never fill the ring to the last byte, every
\* step of the queue is a step of MsgqFifo or none: the consumer is handed the
\* messages in the order of their reservations, each once, after its commit,
\* and whole unless it was split (msgq.h lines 10-16).
THEOREM MsgqIsFifo ==
  ASSUME SingleCore, NoExactFill
  PROVE  Spec => Fifo!Init /\ [][Fifo!Next]_(Fifo!vars)
<1>1. Init => Fifo!Init
  BY DEF Init, Fifo!Init
<1>2. TypeOK /\ TypeOK' /\ RingInv /\ [Next]_vars => [Fifo!Next]_(Fifo!vars)
  BY FifoStep
<1>. QED BY <1>1, <1>2, TypeCorrect, RingCorrect, PTL DEF Spec

=============================================================================
