---------------------------- MODULE QueueProofs ----------------------------
(***************************************************************************)
(* Proofs about Queue, for every capacity, every set of items and, where   *)
(* the calls are serialised, every set of contexts.                        *)
(***************************************************************************)
EXTENDS Queue, SequenceTheorems, TLAPS

\* How the queue may be used: calls overlap in drop-new mode only, and then only
\* those of one producer with those of one consumer.
Discipline ==
  Modes = Locked \/ /\ \A p, q \in Producers : p = q
                    /\ \A c, d \in Consumers : c = d
                    /\ "drop_old" \in Modes => "drop_old" \in Locked

-----------------------------------------------------------------------------
(* Types.                                                                  *)

LEMMA NextType ==
  ASSUME NEW i \in Index
  PROVE  NextIndex(i) \in Index
BY QueueAssumption DEF NextIndex, Index

LEMMA TypeInit == Init => TypeOK
<1>. SUFFICES ASSUME Init PROVE TypeOK
  OBVIOUS
<1>1. 0 \in Index
  BY QueueAssumption DEF Index
<1>. QED BY <1>1 DEF Init, TypeOK, Contexts

LEMMA TypeStep == TypeOK /\ [Next]_vars => TypeOK'
<1>. SUFFICES ASSUME TypeOK, [Next]_vars PROVE TypeOK'
  OBVIOUS
<1>. USE QueueAssumption DEF TypeOK, Contexts, Goto, ring, settings
<1>0. 0 \in Index
  BY DEF Index
<1>1. CASE Flush \/ \E m \in Modes : QueueInit(m)
  BY <1>0, <1>1 DEF Flush, QueueInit
<1>2. ASSUME NEW p \in Producers, Push(p) PROVE TypeOK'
  <2>1. CASE PushRefused(p)
    BY <2>1 DEF PushRefused, vars
  <2>2. CASE PushCheck(p)
    BY <2>2 DEF PushCheck
  <2>3. CASE PushDrop(p)
    BY <2>3, NextType DEF PushDrop
  <2>4. CASE PushCopy(p)
    BY <2>4 DEF PushCopy
  <2>5. CASE PushPublish(p)
    BY <2>5, NextType DEF PushPublish
  <2>. QED BY <1>2, <2>1, <2>2, <2>3, <2>4, <2>5 DEF Push
<1>3. ASSUME NEW c \in Consumers, Pop(c) PROVE TypeOK'
  <2>1. CASE PopNoData(c)
    BY <2>1 DEF PopNoData
  <2>2. CASE PopCheck(c)
    BY <2>2 DEF PopCheck
  <2>3. CASE PopCopy(c)
    BY <2>3 DEF PopCopy
  <2>4. CASE PopFree(c)
    BY <2>4, NextType DEF PopFree
  <2>. QED BY <1>3, <2>1, <2>2, <2>3, <2>4 DEF Pop
<1>4. CASE UNCHANGED vars
  BY <1>4 DEF vars
<1>. QED BY <1>1, <1>2, <1>3, <1>4 DEF Next

\* The indices stay inside the ring, in any mode, with any number of contexts.
THEOREM QueueTypeCorrect == Spec => []TypeOK
<1>. QED BY TypeInit, TypeStep, PTL DEF Spec

-----------------------------------------------------------------------------
(* The inductive invariant.                                                *)

\* No two producers and no two consumers are in a call, nor any two contexts
\* where calls are serialised.
SerialInv ==
  /\ mode \in Locked => \A c, d \in Contexts : pc[c] # "idle" /\ pc[d] # "idle" => c = d
  /\ \A p, q \in Producers : pc[p] # "idle" /\ pc[q] # "idle" => p = q
  /\ \A c, d \in Consumers : pc[c] # "idle" /\ pc[d] # "idle" => c = d

\* What a producer found out still holds: the oldest item is to be dropped, or
\* the slot at index is free.
ProducerInv ==
  \A p \in Producers :
    /\ pc[p] = "drop" => IsFull /\ mode = "drop_old" /\ mode \in Locked
    /\ pc[p] \in {"put", "publish"} => ~IsFull
    /\ pc[p] = "publish" => buffer[index] = item[p]
    /\ IF pc[p] = "idle" THEN item[p] = Zero ELSE item[p] \in Items

\* What a consumer found out still holds: there is an oldest item, and no
\* producer writes over the copy that is being made of it.
ConsumerInv ==
  \A c \in Consumers :
    /\ pc[c] \in {"get", "free"} => ~IsEmpty
    /\ pc[c] = "free" => dest[c] = buffer[outdex]

QueueInv == SerialInv /\ ProducerInv /\ ConsumerInv

LEMMA InvInit == Init => QueueInv
BY DEF Init, QueueInv, SerialInv, ProducerInv, ConsumerInv, Contexts

\* Going on from a slot leads to another one.
LEMMA NextMoves ==
  ASSUME NEW i \in Index, NEW j \in Index, Capacity > 1
  PROVE  /\ NextIndex(i) # i
         /\ NextIndex(i) = NextIndex(j) => i = j
BY QueueAssumption DEF NextIndex, Index

LEMMA InvStep ==
  ASSUME Discipline, Capacity > 1
  PROVE  TypeOK /\ QueueInv /\ [Next]_vars => QueueInv'
<1>. SUFFICES ASSUME TypeOK, QueueInv, [Next]_vars PROVE QueueInv'
  OBVIOUS
<1>. USE QueueAssumption DEF QueueInv, ring, settings
<1>0. /\ \A p \in Producers : p \in Contexts /\ p \notin Consumers
      /\ \A c \in Consumers : c \in Contexts /\ c \notin Producers
  BY DEF Contexts
<1>1. CASE Flush \/ \E m \in Modes : QueueInit(m)
  BY <1>1 DEF Flush, QueueInit, Quiet, SerialInv, ProducerInv, ConsumerInv, Contexts
<1>2. ASSUME NEW p \in Producers, Push(p) PROVE QueueInv'
  <2>1. CASE PushRefused(p)
    BY <2>1 DEF PushRefused, vars, SerialInv, ProducerInv, ConsumerInv, IsFull, IsEmpty
  <2>2. CASE PushCheck(p)
    <3>1. /\ pc'[p] \in {"drop", "put"} /\ \A d \in Contexts \ {p} : pc'[d] = pc[d]
          /\ pc'[p] = "drop" <=> IsFull
      BY <2>2, <1>0 DEF PushCheck, Goto, TypeOK
    <3>2. mode \in Locked => \A d \in Contexts : pc[d] = "idle"
      BY <2>2 DEF PushCheck, Enter, Quiet
    <3>3. SerialInv'
      BY <2>2, <1>0, <3>1, <3>2 DEF PushCheck, SerialInv, Discipline, TypeOK
    <3>4. pc'[p] = "drop" => mode = "drop_old" /\ mode \in Locked
      BY <2>2, <3>1 DEF PushCheck, Discipline, TypeOK
    <3>5. item'[p] \in Items /\ \A q \in Producers \ {p} : item'[q] = item[q]
      BY <2>2 DEF PushCheck, TypeOK
    <3>6. ProducerInv'
      BY <2>2, <1>0, <3>1, <3>4, <3>5 DEF PushCheck, ProducerInv, IsFull, NextIndex
    <3>7. ConsumerInv'
      BY <2>2, <1>0, <3>1 DEF PushCheck, ConsumerInv, IsEmpty
    <3>. QED BY <3>3, <3>6, <3>7
  <2>3. CASE PushDrop(p)
    <3>1. /\ pc[p] = "drop" /\ pc'[p] = "put" /\ \A d \in Contexts \ {p} : pc'[d] = pc[d]
      BY <2>3, <1>0 DEF PushDrop, Goto, TypeOK
    <3>2. \A d \in Contexts \ {p} : pc[d] = "idle" /\ pc'[d] = "idle"
      BY <1>0, <3>1 DEF ProducerInv, SerialInv
    <3>3. IsFull /\ index \in Index /\ outdex \in Index
      BY <3>1 DEF ProducerInv, TypeOK
    <3>4. ~IsFull'
      BY <2>3, <3>3, NextMoves DEF PushDrop, IsFull, NextIndex
    <3>5. SerialInv'
      BY <1>0, <3>2 DEF SerialInv
    <3>6. ProducerInv'
      BY <2>3, <1>0, <3>1, <3>2, <3>4 DEF PushDrop, ProducerInv
    <3>7. ConsumerInv'
      BY <1>0, <3>2 DEF ConsumerInv
    <3>. QED BY <3>5, <3>6, <3>7
  <2>4. CASE PushCopy(p)
    <3>1. /\ pc[p] = "put" /\ pc'[p] = "publish" /\ \A d \in Contexts \ {p} : pc'[d] = pc[d]
      BY <2>4, <1>0 DEF PushCopy, Goto, TypeOK
    <3>2. SerialInv'
      BY <2>4, <1>0, <3>1 DEF PushCopy, SerialInv
    <3>3. buffer'[index] = item[p] /\ \A i \in Index \ {index} : buffer'[i] = buffer[i]
      BY <2>4 DEF PushCopy, TypeOK
    <3>4. \A q \in Producers \ {p} : pc[q] = "idle" /\ pc'[q] = "idle"
      BY <1>0, <3>1 DEF SerialInv
    <3>5. ProducerInv'
      BY <2>4, <1>0, <3>1, <3>3, <3>4 DEF PushCopy, ProducerInv, IsFull, NextIndex
    <3>6. \A c \in Consumers : pc[c] = "free" => outdex # index
      BY DEF ConsumerInv, IsEmpty
    <3>7. ConsumerInv'
      BY <2>4, <1>0, <3>1, <3>3, <3>6 DEF PushCopy, ConsumerInv, IsEmpty, TypeOK
    <3>. QED BY <3>2, <3>5, <3>7
  <2>5. CASE PushPublish(p)
    <3>1. /\ pc[p] = "publish" /\ pc'[p] = "idle" /\ \A d \in Contexts \ {p} : pc'[d] = pc[d]
      BY <2>5, <1>0 DEF PushPublish, Goto, TypeOK
    <3>2. SerialInv'
      BY <2>5, <1>0, <3>1 DEF PushPublish, SerialInv
    <3>3. \A q \in Producers : pc'[q] = "idle"
      BY <1>0, <3>1 DEF SerialInv
    <3>4. ProducerInv'
      <4>1. item' = [item EXCEPT ![p] = Zero] /\ \A q \in Producers \ {p} : item[q] = Zero
        BY <2>5, <1>0, <3>1, <3>3 DEF PushPublish, ProducerInv
      <4>2. \A q \in Producers : item'[q] = Zero
        BY <4>1 DEF TypeOK
      <4>. QED BY <3>3, <4>2 DEF ProducerInv
    <3>5. ~IsEmpty'
      BY <2>5, <3>1 DEF PushPublish, ProducerInv, IsFull, IsEmpty
    <3>6. ConsumerInv'
      BY <2>5, <1>0, <3>1, <3>5 DEF PushPublish, ConsumerInv
    <3>. QED BY <3>2, <3>4, <3>6
  <2>. QED BY <1>2, <2>1, <2>2, <2>3, <2>4, <2>5 DEF Push
<1>3. ASSUME NEW c \in Consumers, Pop(c) PROVE QueueInv'
  <2>1. CASE PopNoData(c)
    BY <2>1 DEF PopNoData, SerialInv, ProducerInv, ConsumerInv, IsFull, IsEmpty, NextIndex
  <2>2. CASE PopCheck(c)
    <3>1. /\ pc'[c] = "get" /\ \A d \in Contexts \ {c} : pc'[d] = pc[d]
      BY <2>2, <1>0 DEF PopCheck, Goto, TypeOK
    <3>2. mode \in Locked => \A d \in Contexts : pc[d] = "idle"
      BY <2>2 DEF PopCheck, Enter, Quiet
    <3>3. SerialInv'
      BY <2>2, <1>0, <3>1, <3>2 DEF PopCheck, SerialInv, Discipline, TypeOK
    <3>4. ProducerInv'
      BY <2>2, <1>0, <3>1 DEF PopCheck, ProducerInv, IsFull, NextIndex
    <3>5. ConsumerInv'
      BY <2>2, <1>0, <3>1 DEF PopCheck, ConsumerInv, IsEmpty, Contexts
    <3>. QED BY <3>3, <3>4, <3>5
  <2>3. CASE PopCopy(c)
    <3>1. /\ pc[c] = "get" /\ pc'[c] = "free" /\ \A d \in Contexts \ {c} : pc'[d] = pc[d]
      BY <2>3, <1>0 DEF PopCopy, Goto, TypeOK
    <3>2. SerialInv'
      BY <2>3, <1>0, <3>1 DEF PopCopy, SerialInv
    <3>3. ProducerInv'
      BY <2>3, <1>0, <3>1 DEF PopCopy, ProducerInv, IsFull, NextIndex
    <3>4. dest'[c] = buffer[outdex] /\ \A d \in Consumers \ {c} : dest'[d] = dest[d] /\ pc'[d] = pc[d]
      BY <2>3, <1>0, <3>1 DEF PopCopy, TypeOK
    <3>5. ConsumerInv'
      BY <2>3, <3>1, <3>4 DEF PopCopy, ConsumerInv, IsEmpty
    <3>. QED BY <3>2, <3>3, <3>5
  <2>4. CASE PopFree(c)
    <3>1. /\ pc[c] = "free" /\ pc'[c] = "idle" /\ \A d \in Contexts \ {c} : pc'[d] = pc[d]
      BY <2>4, <1>0 DEF PopFree, Goto, TypeOK
    <3>2. SerialInv'
      BY <2>4, <1>0, <3>1 DEF PopFree, SerialInv
    <3>3. \A d \in Consumers : pc'[d] = "idle"
      BY <1>0, <3>1 DEF SerialInv
    <3>4. ConsumerInv'
      BY <3>3 DEF ConsumerInv
    <3>5. ~IsEmpty /\ index \in Index /\ outdex \in Index
      BY <3>1 DEF ConsumerInv, TypeOK
    <3>6. ~IsFull'
      BY <2>4, <3>5, NextMoves DEF PopFree, IsFull, IsEmpty, NextIndex
    <3>7. \A p \in Producers : pc[p] # "drop"
      BY <1>0, <3>1 DEF ProducerInv, SerialInv
    <3>8. ProducerInv'
      BY <2>4, <1>0, <3>1, <3>6, <3>7 DEF PopFree, ProducerInv
    <3>. QED BY <3>2, <3>4, <3>8
  <2>. QED BY <1>3, <2>1, <2>2, <2>3, <2>4 DEF Pop
<1>4. CASE UNCHANGED vars
  BY <1>4 DEF vars, SerialInv, ProducerInv, ConsumerInv, IsFull, IsEmpty, NextIndex
<1>. QED BY <1>1, <1>2, <1>3, <1>4 DEF Next

LEMMA InvCorrect ==
  ASSUME Discipline, Capacity > 1
  PROVE  Spec => []QueueInv
<1>1. TypeOK /\ QueueInv /\ [Next]_vars => QueueInv'
  BY InvStep
<1>. QED BY <1>1, InvInit, QueueTypeCorrect, PTL DEF Spec

\* The copies of a producer and of a consumer that overlap in time are of
\* different slots.
THEOREM CopiesApartCorrect ==
  ASSUME Discipline, Capacity > 1
  PROVE  Spec => []CopiesApart
<1>1. QueueInv => CopiesApart
  BY DEF QueueInv, ConsumerInv, IsEmpty, CopiesApart
<1>. QED BY <1>1, InvCorrect, PTL

-----------------------------------------------------------------------------
(* The queue implements the FIFO.                                          *)

\* The items in the ring, from the oldest on: what the FIFO calls items.
Held == [k \in 1 .. Used |-> buffer[Slot(k)]]

LEMMA HeldType ==
  ASSUME TypeOK
  PROVE  /\ Used \in Nat /\ Used < Capacity
         /\ Used = 0 <=> IsEmpty
         /\ Used = Capacity - 1 <=> IsFull
         /\ \A k \in 1 .. Used : Slot(k) \in Index
         /\ Held \in Seq(Items \cup {Zero}) /\ Len(Held) = Used
         /\ Held = <<>> <=> IsEmpty
<1>. USE QueueAssumption
<1>1. Used \in Nat /\ Used < Capacity /\ (Used = 0 <=> IsEmpty)
  BY DEF TypeOK, Used, Index, IsEmpty
<1>2. Used = Capacity - 1 <=> IsFull
  BY DEF TypeOK, Used, Index, IsFull, NextIndex
<1>3. \A k \in 1 .. Used : Slot(k) \in Index
  BY DEF TypeOK, Used, Slot, Index
<1>4. Held \in [1 .. Used -> Items \cup {Zero}]
  BY <1>3 DEF Held, TypeOK
<1>5. Held \in Seq(Items \cup {Zero}) /\ Len(Held) = Used
  BY <1>1, <1>4
<1>6. Held = <<>> <=> Used = 0
  BY <1>5
<1>. QED BY <1>1, <1>2, <1>3, <1>5, <1>6

\* The item at index becomes the newest.
LEMMA HeldAppend ==
  ASSUME TypeOK, TypeOK', ~IsFull, index' = NextIndex(index), UNCHANGED <<outdex, buffer>>
  PROVE  Held' = Append(Held, buffer[index])
<1>. USE QueueAssumption
<1>1. Used' = Used + 1 /\ Slot(Used + 1) = index
  BY DEF TypeOK, Used, Slot, Index, IsFull, NextIndex
<1>2. \A k : Slot(k)' = Slot(k)
  BY DEF Slot
<1>3. Held' = [k \in 1 .. Used + 1 |-> buffer[Slot(k)]]
  BY <1>1, <1>2 DEF Held
<1>4. PICK n \in Nat : n = Used
  BY HeldType
<1>5. Append(Held, buffer[index]) = [k \in 1 .. n + 1 |-> IF k <= n THEN Held[k] ELSE buffer[index]]
  BY <1>4, HeldType
<1>6. ASSUME NEW k \in 1 .. n + 1
      PROVE  buffer[Slot(k)] = IF k <= n THEN Held[k] ELSE buffer[index]
  <2>1. CASE k <= n
    BY <1>4, <2>1 DEF Held
  <2>2. CASE ~(k <= n)
    BY <1>1, <1>4, <2>2
  <2>. QED BY <2>1, <2>2
<1>. QED BY <1>3, <1>4, <1>5, <1>6

\* The oldest item goes.
LEMMA HeldTail ==
  ASSUME TypeOK, TypeOK', ~IsEmpty, outdex' = NextIndex(outdex), UNCHANGED <<index, buffer>>
  PROVE  Held # <<>> /\ Held' = Tail(Held) /\ Head(Held) = buffer[outdex]
<1>. USE QueueAssumption
<1>1. PICK n \in Nat : n = Used /\ n > 0
  BY HeldType
<1>2. Used' = n - 1
  BY <1>1 DEF TypeOK, Used, Index, IsEmpty, NextIndex
<1>3. \A k \in 1 .. n - 1 : Slot(k)' = Slot(k + 1)
  BY <1>1 DEF TypeOK, Used, Slot, Index, NextIndex
<1>4. Held' = [k \in 1 .. n - 1 |-> buffer[Slot(k + 1)]]
  BY <1>2, <1>3 DEF Held
<1>5. Tail(Held) = [k \in 1 .. n - 1 |-> Held[k + 1]]
  <2>1. PICK s \in Seq(Items \cup {Zero}) : s = Held /\ Len(s) = n
    BY <1>1, HeldType
  <2>2. /\ Tail(s) \in Seq(Items \cup {Zero}) /\ Len(Tail(s)) = n - 1
        /\ \A k \in 1 .. n - 1 : Tail(s)[k] = s[k + 1]
    BY <1>1, <2>1, HeadTailProperties
  <2>3. PICK t \in Seq(Items \cup {Zero}) : t = Tail(s) /\ Len(t) = n - 1
    BY <2>2
  <2>4. t = [k \in 1 .. Len(t) |-> t[k]]
    <3>1. PICK m \in Nat : t \in [1 .. m -> Items \cup {Zero}]
      BY LenProperties
    <3>2. m = Len(t)
      BY <3>1, LenProperties, SMT
    <3>. QED BY <3>1, <3>2, Zenon
  <2>5. Tail(s) = [k \in 1 .. n - 1 |-> s[k + 1]]
    BY <2>2, <2>3, <2>4
  <2>. QED BY <2>1, <2>5
<1>6. \A k \in 1 .. n - 1 : k + 1 \in 1 .. n /\ Held[k + 1] = buffer[Slot(k + 1)]
  BY <1>1 DEF Held
<1>7. Head(Held) = buffer[outdex]
  <2>1. Head(Held) = Held[1] /\ 1 \in 1 .. n
    BY <1>1, HeldType
  <2>2. Slot(1) = outdex
    BY DEF Slot, TypeOK, Index
  <2>. QED BY <1>1, <2>1, <2>2 DEF Held
<1>. QED BY <1>1, <1>4, <1>5, <1>6, <1>7, HeldType

\* A copy into the free slot leaves the items as they are.
LEMMA HeldKept ==
  ASSUME TypeOK, ~IsFull, UNCHANGED <<index, outdex>>,
         \A i \in Index \ {index} : buffer'[i] = buffer[i]
  PROVE  Held' = Held
<1>. USE QueueAssumption
<1>1. Used' = Used /\ \A k : Slot(k)' = Slot(k)
  BY DEF Used, Slot
<1>2. \A k \in 1 .. Used : Slot(k) \in Index \ {index}
  BY DEF TypeOK, Used, Slot, Index
<1>. QED BY <1>1, <1>2 DEF Held

LEMMA HeldSame ==
  ASSUME UNCHANGED <<index, outdex, buffer>>
  PROVE  Held' = Held
BY DEF Held, Used, Slot

LEMMA FifoInit == Init => Fifo!Init
<1>. SUFFICES ASSUME Init PROVE Fifo!Init
  OBVIOUS
<1>1. TypeOK /\ IsEmpty
  BY TypeInit DEF Init, IsEmpty
<1>2. Held = <<>>
  BY <1>1, HeldType
<1>. QED BY <1>2 DEF Init, Fifo!Init, Held

\* Every step of the code is a step of the FIFO or changes nothing of it.
LEMMA FifoStep ==
  ASSUME TypeOK, TypeOK', QueueInv, [Next]_vars
  PROVE  [Fifo!Next]_(Fifo!vars)
<1>. USE DEF QueueInv, Held
<1>0. ASSUME Held' = Held, UNCHANGED <<settings, item, got>>
      PROVE  [Fifo!Next]_(Fifo!vars)
  BY <1>0 DEF Fifo!vars, settings
<1>. HIDE DEF Held
<1>1. CASE Flush \/ \E m \in Modes : QueueInit(m)
  <2>1. Used' = 0 /\ mode' \in Modes /\ flushes' = 1 - flushes /\ UNCHANGED <<item, got>>
    BY <1>1, QueueAssumption DEF Flush, QueueInit, Used, TypeOK
  <2>2. Held' = <<>>
    BY <2>1 DEF Held
  <2>. QED BY <2>1, <2>2 DEF Fifo!Next, Fifo!Flush, Held
<1>2. ASSUME NEW p \in Producers, Push(p) PROVE [Fifo!Next]_(Fifo!vars)
  <2>1. CASE PushRefused(p)
    BY <1>0, <2>1, HeldSame DEF PushRefused, vars, ring, settings
  <2>2. CASE PushCheck(p)
    <3>1. item[p] = Zero /\ \E x \in Items : item' = [item EXCEPT ![p] = x]
      BY <2>2 DEF PushCheck, Enter, ProducerInv
    <3>2. Held' = Held /\ UNCHANGED <<settings, got>>
      BY <2>2, HeldSame DEF PushCheck, ring, settings
    <3>. QED BY <3>1, <3>2 DEF Fifo!Next, Fifo!Offer, Held, settings
  <2>3. CASE PushDrop(p)
    <3>1. /\ IsFull /\ mode = "drop_old" /\ item[p] # Zero
          /\ UNCHANGED <<settings, item, got>>
      BY <2>3, QueueAssumption DEF PushDrop, ProducerInv, settings
    <3>2. CASE Capacity = 1
      <4>1. outdex' = outdex
        BY <2>3, <3>2 DEF PushDrop, TypeOK, Index, NextIndex
      <4>. QED BY <1>0, <2>3, <3>1, <4>1, HeldSame DEF PushDrop
    <3>3. CASE Capacity # 1
      <4>1. Len(Held) = Capacity - 1 /\ ~IsEmpty
        BY <3>1, <3>3, HeldType, QueueAssumption
      <4>2. Held' = Tail(Held)
        BY <2>3, <4>1, HeldTail DEF PushDrop
      <4>. QED BY <3>1, <4>1, <4>2 DEF Fifo!Next, Fifo!DropOldest, Held, settings
    <3>. QED BY <3>2, <3>3
  <2>4. CASE PushCopy(p)
    <3>1. ~IsFull
      BY <2>4 DEF PushCopy, ProducerInv
    <3>2. \A i \in Index \ {index} : buffer'[i] = buffer[i]
      BY <2>4 DEF PushCopy, TypeOK
    <3>. QED BY <1>0, <2>4, <3>1, <3>2, HeldKept DEF PushCopy
  <2>5. CASE PushPublish(p)
    <3>1. /\ ~IsFull /\ buffer[index] = item[p] /\ item[p] # Zero
          /\ item' = [item EXCEPT ![p] = Zero] /\ UNCHANGED <<settings, got>>
      BY <2>5, QueueAssumption DEF PushPublish, ProducerInv
    <3>2. Held' = Append(Held, buffer[index])
      BY <2>5, <3>1, HeldAppend DEF PushPublish
    <3>3. Len(Held) < Capacity - 1
      BY <3>1, HeldType, QueueAssumption
    <3>. QED BY <3>1, <3>2, <3>3 DEF Fifo!Next, Fifo!Put, Held, settings
  <2>. QED BY <1>2, <2>1, <2>2, <2>3, <2>4, <2>5 DEF Push
<1>3. ASSUME NEW c \in Consumers, Pop(c) PROVE [Fifo!Next]_(Fifo!vars)
  <2>1. CASE PopNoData(c)
    <3>1. Held = <<>>
      BY <2>1, HeldType DEF PopNoData
    <3>2. Held' = Held /\ got' = [got EXCEPT ![c] = Zero] /\ UNCHANGED <<mode, flushes, item>>
      BY <2>1, HeldSame DEF PopNoData, ring, settings
    <3>. QED BY <3>1, <3>2 DEF Fifo!Next, Fifo!Miss, Held
  <2>2. CASE PopCheck(c)
    BY <1>0, <2>2, HeldSame DEF PopCheck, ring, settings
  <2>3. CASE PopCopy(c)
    BY <1>0, <2>3, HeldSame DEF PopCopy, ring, settings
  <2>4. CASE PopFree(c)
    <3>1. ~IsEmpty /\ dest[c] = buffer[outdex] /\ got' = [got EXCEPT ![c] = dest[c]]
          /\ UNCHANGED <<mode, flushes, item>>
      BY <2>4 DEF PopFree, ConsumerInv, settings
    <3>2. Held # <<>> /\ Held' = Tail(Held) /\ Head(Held) = dest[c]
      BY <2>4, <3>1, HeldTail DEF PopFree
    <3>. QED BY <3>1, <3>2 DEF Fifo!Next, Fifo!Take, Held
  <2>. QED BY <1>3, <2>1, <2>2, <2>3, <2>4 DEF Pop
<1>4. CASE UNCHANGED vars
  BY <1>0, <1>4, HeldSame DEF vars, ring, settings
<1>. QED BY <1>1, <1>2, <1>3, <1>4 DEF Next

\* Used under its discipline, the queue is a FIFO of at most Capacity - 1
\* items: no item is lost, duplicated, overtaken or torn.
THEOREM QueueIsFifo ==
  ASSUME Discipline, Capacity > 1
  PROVE  Spec => FifoSpec
<1>1. TypeOK /\ TypeOK' /\ QueueInv /\ [Next]_vars => [Fifo!Next]_(Fifo!vars)
  BY FifoStep
<1>. QED BY <1>1, FifoInit, QueueTypeCorrect, InvCorrect, PTL DEF Spec, FifoSpec, Fifo!Spec

=============================================================================
