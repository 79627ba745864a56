------------------------- MODULE ActiveObjectProofs -------------------------
(***************************************************************************)
(* Proofs about ActiveObject, for any set of objects and time events,      *)
(* queues of any length and any timeouts: its types, and the moments at    *)
(* which time events expire.                                               *)
(***************************************************************************)
EXTENDS ActiveObject, FiniteSetTheorems, SequenceTheorems, TLAPS

-----------------------------------------------------------------------------
(* The inductive invariant.                                                *)

\* The threads start when all is set up.
ThreadInv == main # <<"running">> => \A a \in Ao : pc[a] = "created"

\* The entries of the registry that hold a time event.
Filled == IF main[1] = "store" THEN time_events_num - 1 ELSE time_events_num

\* Every time event is registered once, and all of them are when the threads run.
RegistryInv ==
  /\ main \in {<<"setup">>, <<"running">>} \cup ({"store", "count"} \X TimeEvent)
  /\ main[1] \in {"store", "count"} => main[2] \notin Registered
  /\ main[1] = "store" => time_events_num >= 1 /\ time_events[time_events_num] = NULL
  /\ main[1] = "count" => /\ time_events_num + 1 <= MaxTimeEvents
                          /\ time_events[time_events_num + 1] = main[2]
  /\ main = <<"running">> => Registered = TimeEvent
  /\ Cardinality(Registered) = Filled
  /\ \A k \in 1 .. MaxTimeEvents :
       k > time_events_num => time_events[k] = NULL \/ (main[1] = "count" /\ k = time_events_num + 1)
  /\ \A k, l \in 1 .. time_events_num :
       time_events[k] = time_events[l] /\ time_events[k] # NULL => k = l

\* A thread is inside Arm or Stop.
InCall == {"saved", "timeout", "period", "restore"}

\* What a call has in hand: a time event of its own object.
CallInv ==
  \A a \in Ao : pc[a] \in InCall =>
    call[a] \in TimeEvent \X (Arms \cup {<<0, 0>>}) /\ requester[call[a][1]] = a

History == [timeout : Nat, period : Nat, ticks : 0 .. Horizon + 1, expired : Nat]

HistoryType == since \in [TimeEvent -> History]

\* The tick in progress has still to serve e.
Pending(e) == \E k \in 1 .. time_events_num : 0 < entry /\ entry <= k /\ time_events[k] = e

\* The ticks that e has been served.
Served(e) == IF Pending(e) THEN since[e].ticks - 1 ELSE since[e].ticks

\* How long ago, n ticks after it was armed, a time event was last due.
SinceDue(h, n) == n - h.timeout - (h.expired - 1) * h.period

\* How often it has expired by then.
Counted(h, n) ==
  IF h.timeout = 0 \/ n < h.timeout THEN h.expired = 0
  ELSE IF h.period = 0 THEN h.expired = 1
  ELSE h.expired >= 1 /\ SinceDue(h, n) >= 0 /\ SinceDue(h, n) < h.period

\* What is left of its timeout.
Remaining(h, n, t, p) ==
  /\ h.timeout = 0 => t = 0
  /\ h.timeout # 0 => p = h.period
  /\ h.timeout # 0 /\ n < h.timeout => t = h.timeout - n
  /\ h.timeout # 0 /\ n >= h.timeout => t = IF h.period = 0 THEN 0 ELSE h.period - SinceDue(h, n)

\* The periods that calls of Arm which are half done have still to write for e.
Half(e) == {call[a][2][2] : a \in {b \in Ao : pc[b] = "period" /\ call[b][1] = e}}

\* The period that counts for e: the one it was armed with, written or not.
Period(e) == IF Half(e) # {} THEN since[e].period ELSE period[e]

\* The ticks served, the expiries and what is left of the timeout agree; what is still
\* to be written is the period that is counted with.
Timing(e) ==
  /\ main = <<"running">>
  /\ Served(e) \in Nat /\ Counted(since[e], Served(e))
  /\ Remaining(since[e], Served(e), timeout[e], Period(e))
  /\ Half(e) \subseteq {since[e].period}

TimingInv == halted = "no" => \A e \in TimeEvent : since[e].ticks <= Horizon => Timing(e)

AoInv == TypeOK /\ ThreadInv /\ RegistryInv /\ CallInv /\ HistoryType /\ TimingInv

-----------------------------------------------------------------------------
(* The registry.                                                           *)

\* What is registered is a finite set, and it grows by one.
LEMMA RegisteredFinite ==
  ASSUME TypeOK
  PROVE  /\ Registered \subseteq TimeEvent /\ IsFiniteSet(Registered)
         /\ Cardinality(Registered) \in Nat
         /\ \A e \in TimeEvent \ Registered :
              /\ Cardinality(Registered \cup {e}) = Cardinality(Registered) + 1
              /\ Cardinality(Registered) + 1 <= MaxTimeEvents
<1>1. Registered \subseteq TimeEvent
  <2>1. /\ time_events \in [1 .. MaxTimeEvents -> TimeEvent \cup {NULL}]
        /\ time_events_num \in 0 .. MaxTimeEvents
    BY DEF TypeOK
  <2>2. \A k \in 1 .. time_events_num : time_events[k] \in TimeEvent \cup {NULL}
    BY <2>1, AoAssumption
  <2>. QED BY <2>2 DEF Registered
<1>2. IsFiniteSet(Registered)
  BY <1>1, AoAssumption, FS_Subset
<1>3. ASSUME NEW e \in TimeEvent \ Registered
      PROVE  /\ Cardinality(Registered \cup {e}) = Cardinality(Registered) + 1
             /\ Cardinality(Registered) + 1 <= MaxTimeEvents
  <2>1. Cardinality(Registered \cup {e}) = Cardinality(Registered) + 1
    BY <1>2, <1>3, FS_AddElement
  <2>2. Cardinality(Registered \cup {e}) <= Cardinality(TimeEvent)
    BY <1>1, AoAssumption, FS_Subset
  <2>3. Cardinality(Registered) \in Nat /\ Cardinality(TimeEvent) \in Nat
    BY <1>2, AoAssumption, FS_CardinalityType
  <2>. QED BY <2>1, <2>2, <2>3, AoAssumption
<1>. QED BY <1>1, <1>2, <1>3, FS_CardinalityType

\* Storing e at an entry that was empty, or counting an entry that holds it,
\* registers e and nothing else.
LEMMA RegisterStep ==
  ASSUME TypeOK, RegistryInv, NEW e \in TimeEvent, TimeeventInit(e) \/ TimeeventInitDone(e)
  PROVE  /\ RegistryInv'
         /\ time_events' \in [1 .. MaxTimeEvents -> TimeEvent \cup {NULL}]
         /\ time_events_num' \in 0 .. MaxTimeEvents
<1>. DEFINE n == time_events_num
<1>0. /\ NULL \notin TimeEvent /\ MaxTimeEvents \in Nat /\ n \in 0 .. MaxTimeEvents
      /\ time_events \in [1 .. MaxTimeEvents -> TimeEvent \cup {NULL}]
  BY AoAssumption DEF TypeOK
<1>1. CASE TimeeventInit(e)
  <2>1. e \notin Registered /\ main = <<"setup">> /\ main[1] = "setup"
    BY <1>1 DEF TimeeventInit
  <2>2. Cardinality(Registered) = n
    BY <2>1 DEF RegistryInv, Filled
  <2>3. n + 1 <= MaxTimeEvents /\ time_events[n + 1] = NULL
    <3>1. n + 1 <= MaxTimeEvents
      BY <2>1, <2>2, RegisteredFinite
    <3>. QED BY <1>0, <2>1, <3>1 DEF RegistryInv
  <2>4. CASE n' = n + 1 /\ UNCHANGED time_events /\ main' = <<"store", e>>
    <3>1. Registered' = Registered
      BY <1>0, <2>1, <2>2, <2>3, <2>4 DEF Registered
    <3>2. Filled' = n
      BY <1>0, <2>4 DEF Filled
    <3>. QED BY <1>0, <2>1, <2>2, <2>3, <2>4, <3>1, <3>2 DEF RegistryInv
  <2>5. CASE time_events' = [time_events EXCEPT ![n + 1] = e] /\ UNCHANGED n /\ main' = <<"count", e>>
    <3>1. Registered' = Registered
      BY <1>0, <2>1, <2>2, <2>3, <2>5 DEF Registered
    <3>2. Filled' = n
      BY <1>0, <2>5 DEF Filled
    <3>. QED BY <1>0, <2>1, <2>2, <2>3, <2>5, <3>1, <3>2 DEF RegistryInv
  <2>. QED BY <1>1, <2>4, <2>5 DEF TimeeventInit
<1>2. CASE TimeeventInitDone(e)
  <2>1. /\ e \notin Registered /\ main' = <<"setup">>
        /\ Cardinality(Registered \cup {e}) = Cardinality(Registered) + 1
    BY <1>2, RegisteredFinite DEF TimeeventInitDone, RegistryInv
  <2>2. CASE main = <<"store", e>> /\ time_events' = [time_events EXCEPT ![n] = e] /\ UNCHANGED n
    <3>1. n \in 1 .. MaxTimeEvents /\ time_events[n] = NULL /\ Cardinality(Registered) = n - 1
      BY <1>0, <2>2 DEF RegistryInv, Filled
    <3>2. Registered' = Registered \cup {e}
      BY <1>0, <2>2, <3>1 DEF Registered
    <3>3. Filled' = n
      BY <1>0, <2>1, <2>2 DEF Filled
    <3>4. \A k \in 1 .. n : time_events[k] # e
      BY <1>0, <2>1 DEF Registered
    <3>. QED BY <1>0, <2>1, <2>2, <3>1, <3>2, <3>3, <3>4 DEF RegistryInv
  <2>3. CASE main = <<"count", e>> /\ n' = n + 1 /\ UNCHANGED time_events
    <3>1. n + 1 \in 1 .. MaxTimeEvents /\ time_events[n + 1] = e /\ Cardinality(Registered) = n
      BY <1>0, <2>3 DEF RegistryInv, Filled
    <3>2. Registered' = Registered \cup {e}
      BY <1>0, <2>3, <3>1 DEF Registered
    <3>3. Filled' = n + 1
      BY <1>0, <2>1, <2>3 DEF Filled
    <3>4. \A k \in 1 .. n : time_events[k] # e
      BY <1>0, <2>1 DEF Registered
    <3>. QED BY <1>0, <2>1, <2>3, <3>1, <3>2, <3>3, <3>4 DEF RegistryInv
  <2>. QED BY <1>2, <2>2, <2>3 DEF TimeeventInitDone
<1>. QED BY <1>1, <1>2

\* A full registry is what lets the threads run.
LEMMA RunStep ==
  ASSUME TypeOK, RegistryInv, Run
  PROVE  RegistryInv'
<1>1. main = <<"setup">> /\ main' = <<"running">> /\ Registered = TimeEvent /\ UNCHANGED registry
  BY DEF Run
<1>2. Registered' = Registered /\ Filled' = time_events_num /\ Filled = time_events_num
  BY <1>1 DEF Registered, Filled, registry
<1>. QED BY <1>1, <1>2 DEF RegistryInv, registry

LEMMA RegistrySame ==
  ASSUME RegistryInv, UNCHANGED <<registry, main>>
  PROVE  RegistryInv'
<1>1. Registered' = Registered /\ Filled' = Filled
  BY DEF Registered, Filled, registry
<1>. QED BY <1>1 DEF RegistryInv, registry

-----------------------------------------------------------------------------
(* Types.                                                                  *)

\* Adding an event to a queue that has room and taking the first one keep the queues.
LEMMA QueueTypes ==
  ASSUME NEW S, NEW q \in Seq(S)
  PROVE  /\ \A x \in S : Append(q, x) \in Seq(S) /\ Len(Append(q, x)) = Len(q) + 1
         /\ q # <<>> => Head(q) \in S /\ Tail(q) \in Seq(S) /\ Len(Tail(q)) = Len(q) - 1
         /\ Len(q) \in Nat
OBVIOUS

LEMMA TypeInit == Init => TypeOK /\ RegistryInv /\ CallInv /\ HistoryType /\ TimingInv
<1> SUFFICES ASSUME Init PROVE TypeOK /\ RegistryInv /\ CallInv /\ HistoryType /\ TimingInv
  OBVIOUS
<1>1. <<>> \in Seq(Pushed) /\ Len(<<>>) = 0
  OBVIOUS
<1>2. primask \in BOOLEAN /\ saved \in [Ao -> BOOLEAN]
  BY Zenon DEF Init
<1>3. TypeOK
  BY <1>1, <1>2, AoAssumption DEF Init, TypeOK
<1>4. Registered = {} /\ Filled = 0
  BY AoAssumption DEF Init, Registered, Filled
<1>5. RegistryInv
  <2>1. main = <<"setup">> /\ main[1] = "setup" /\ time_events_num = 0
    BY DEF Init
  <2>2. \A k \in 1 .. MaxTimeEvents : time_events[k] = NULL
    BY DEF Init
  <2>3. Cardinality(Registered) = 0
    BY <1>4, FS_EmptySet
  <2>4. main # <<"running">> /\ main \in {<<"setup">>, <<"running">>}
    BY <2>1
  <2>5. \A k, l \in 1 .. time_events_num : k = l
    BY <2>1
  <2>6. main[1] # "store" /\ main[1] # "count"
    BY <2>1
  <2>. QED BY <1>4, <2>2, <2>3, <2>4, <2>5, <2>6, Zenon DEF RegistryInv
<1>6. CallInv
  BY DEF Init, CallInv, InCall
<1>7. Forgotten \in History /\ ~(Forgotten.ticks <= Horizon)
  BY AoAssumption DEF Forgotten, History
<1>8. HistoryType /\ TimingInv
  BY <1>7 DEF Init, HistoryType, TimingInv
<1>. QED BY <1>3, <1>5, <1>6, <1>8

\* Setting up.
LEMMA MainTypes ==
  ASSUME TypeOK, RegistryInv, Main
  PROVE  TypeOK' /\ RegistryInv'
<1>1. CASE Run
  BY <1>1, RunStep DEF Run, TypeOK, registry, timers, core
<1>2. ASSUME NEW e \in TimeEvent, entry = 0, TimeeventInit(e) \/ TimeeventInitDone(e)
      PROVE  TypeOK' /\ RegistryInv'
  <2>1. UNCHANGED <<timers, evt_queue, thread, running, entry, halted, core>> /\ entry' = 0
    BY <1>2 DEF TimeeventInit, TimeeventInitDone, Main
  <2>2. /\ RegistryInv' /\ time_events' \in [1 .. MaxTimeEvents -> TimeEvent \cup {NULL}]
        /\ time_events_num' \in 0 .. MaxTimeEvents
    BY <1>2, RegisterStep
  <2>3. entry' \in 0 .. time_events_num' + 1
    <3>1. MaxTimeEvents \in Nat
      BY AoAssumption
    <3>2. entry' = 0
      BY <2>1
    <3>3. time_events_num' \in Nat
      BY <2>2, <3>1
    <3>4. \A n \in Nat : 0 \in 0 .. n + 1
      OBVIOUS
    <3>. QED BY <3>1, <3>2, <3>3, <3>4, Zenon
  <2>. QED BY <2>1, <2>2, <2>3 DEF TypeOK, timers, thread, core
<1>. QED BY <1>1, <1>2 DEF Main

\* The event loop.
LEMMA LoopTypes ==
  ASSUME TypeOK, NEW a \in Ao,
         DispatchInit(a) \/ DispatchNext(a) \/ Return(a) \/ \E b \in Ao : PostEvent(a, b)
  PROVE  TypeOK'
<1>. USE DEF TypeOK, registry, timers, core
<1>1. CASE DispatchInit(a)
  BY <1>1 DEF DispatchInit
<1>2. CASE DispatchNext(a)
  <2>1. evt_queue[a] \in Seq(Pushed) /\ evt_queue[a] # <<>>
    BY <1>2 DEF DispatchNext
  <2>2. /\ Head(evt_queue[a]) \in Pushed /\ Tail(evt_queue[a]) \in Seq(Pushed)
        /\ Len(Tail(evt_queue[a])) <= QueueLen
    BY <2>1, QueueTypes, AoAssumption
  <2>. QED BY <1>2, <2>2 DEF DispatchNext
<1>3. CASE Return(a)
  BY <1>3 DEF Return
<1>4. ASSUME NEW b \in Ao, PostEvent(a, b) PROVE TypeOK'
  <2>1. evt_queue[b] \in Seq(Pushed) /\ QueueLen \in Nat
    BY AoAssumption
  <2>. DEFINE q == Append(evt_queue[b], AddressOf(USER))
  <2>2. AddressOf(USER) \in Pushed
    BY DEF Pushed
  <2>3. q \in Seq(Pushed) /\ (Len(evt_queue[b]) < QueueLen => Len(q) <= QueueLen)
    BY <2>1, <2>2, QueueTypes
  <2>4. /\ IF Len(evt_queue[b]) < QueueLen
             THEN evt_queue' = [evt_queue EXCEPT ![b] = q] /\ UNCHANGED halted
             ELSE halted' = "full" /\ UNCHANGED evt_queue
        /\ pc' = [pc EXCEPT ![a] = "loop"] /\ evt' = [evt EXCEPT ![a] = NULL]
        /\ UNCHANGED <<registry, timers, call, main, running, entry, core, since>>
    BY <1>4 DEF PostEvent
  <2>. HIDE DEF q
  <2>. QED BY <2>3, <2>4
<1>. QED BY <1>1, <1>2, <1>3, <1>4

\* Arm and Stop.
LEMMA CallTypes ==
  ASSUME TypeOK, CallInv, NEW a \in Ao,
         \/ \E e \in TimeEvent, arm \in Arms \cup {<<0, 0>>} : Call(a, e, arm)
         \/ Enter(a) \/ SetTimeout(a) \/ SetPeriod(a) \/ Leave(a)
  PROVE  TypeOK'
<1>. USE AoAssumption DEF TypeOK, registry, timers, core, InCall
<1>1. ASSUME NEW e \in TimeEvent, NEW arm \in Arms \cup {<<0, 0>>}, Call(a, e, arm) PROVE TypeOK'
  <2>1. saved' \in [Ao -> BOOLEAN]
    BY <1>1 DEF Call, SaveState
  <2>. QED BY <1>1, <2>1 DEF Call, SaveState
<1>2. CASE Enter(a)
  BY <1>2 DEF Enter, DisableInterrupt
<1>3. ASSUME pc[a] \in InCall
      PROVE  call[a][1] \in TimeEvent /\ call[a][2][1] \in Nat /\ call[a][2][2] \in Nat
  BY <1>3 DEF CallInv
<1>4. CASE SetTimeout(a)
  <2>1. PICK e \in TimeEvent, t \in Nat : e = call[a][1] /\ t = call[a][2][1]
    BY <1>3, <1>4 DEF SetTimeout
  <2>2. /\ timeout' = [timeout EXCEPT ![e] = t]
        /\ pc' = [pc EXCEPT ![a] = "restore"] \/ pc' = [pc EXCEPT ![a] = "period"]
        /\ UNCHANGED <<registry, period, evt_queue, evt, call, running, entry, halted, core>>
    BY <1>4, <2>1 DEF SetTimeout
  <2>. QED BY <2>2
<1>5. CASE SetPeriod(a)
  BY <1>3, <1>5 DEF SetPeriod
<1>6. CASE Leave(a)
  BY <1>6 DEF Leave, RestoreInterrupt, SystemExceptions
<1>. QED BY <1>1, <1>2, <1>4, <1>5, <1>6

\* The tick.
LEMMA TickTypes ==
  ASSUME TypeOK, TickService \/ \E a \in Ao : TickReturn(a)
  PROVE  TypeOK'
<1>. USE AoAssumption DEF TypeOK, registry, thread, core
<1>1. CASE TickBegin
  BY <1>1 DEF TickBegin, timers
<1>2. CASE ServeOne
  <2>1. CASE ServeNull
    BY <2>1 DEF ServeNull, timers
  <2>2. ASSUME NEW e \in TimeEvent, CountDown(e) PROVE TypeOK'
    BY <1>2, <2>2 DEF CountDown, ServeOne
  <2>3. ASSUME NEW e \in TimeEvent, Expire(e) PROVE TypeOK'
    <3>1. requester[e] \in Ao /\ evt_queue[requester[e]] \in Seq(Pushed)
      OBVIOUS
    <3>. DEFINE q == Append(evt_queue[requester[e]], AddressOf(e))
    <3>2. q \in Seq(Pushed) /\ (Len(evt_queue[requester[e]]) < QueueLen => Len(q) <= QueueLen)
      <4>1. AddressOf(e) \in Pushed
        BY DEF Pushed
      <4>. QED BY <3>1, <4>1, QueueTypes
    <3>3. /\ evt_queue' \in [Ao -> Seq(Pushed)]
          /\ \A a \in Ao : Len(evt_queue'[a]) <= QueueLen
      <4>1. CASE ~(Len(evt_queue[requester[e]]) < QueueLen)
        BY <2>3, <4>1 DEF Expire
      <4>2. CASE Len(evt_queue[requester[e]]) < QueueLen
        <5>1. evt_queue' = [evt_queue EXCEPT ![requester[e]] = q] /\ Len(q) <= QueueLen
          BY <2>3, <3>2, <4>2 DEF Expire
        <5>2. q \in Seq(Pushed)
          BY <3>2
        <5>. HIDE DEF q
        <5>. QED BY <3>1, <5>1, <5>2
      <4>. QED BY <4>1, <4>2
    <3>4. entry' \in 0 .. time_events_num + 1 /\ halted' \in {"no", "full", "null"}
      BY <1>2, <2>3 DEF Expire, ServeOne
    <3>5. timeout' \in [TimeEvent -> Nat]
      BY <2>3 DEF Expire
    <3>. QED BY <2>3, <3>3, <3>4, <3>5 DEF Expire
  <2>. QED BY <1>2, <2>1, <2>2, <2>3 DEF ServeOne
<1>3. ASSUME NEW a \in Ao, TickEnd(a) PROVE TypeOK'
  BY <1>3 DEF TickEnd, timers
<1>. QED BY <1>1, <1>2, <1>3 DEF TickService, TickReturn

-----------------------------------------------------------------------------
(* Calls.                                                                  *)

LEMMA ThreadInvStep ==
  ASSUME ThreadInv, Main \/ TickService \/ \E a \in Ao : TickReturn(a) \/ Thread(a)
  PROVE  ThreadInv'
<1>1. CASE Main
  BY <1>1 DEF Main, Run, TimeeventInit, TimeeventInitDone, ThreadInv, thread
<1>2. CASE TickService \/ \E a \in Ao : TickReturn(a)
  <2>1. UNCHANGED <<main, pc>>
    BY <1>2 DEF TickService, TickBegin, ServeOne, ServeNull, CountDown, Expire, TickReturn, TickEnd, thread
  <2>. QED BY <2>1 DEF ThreadInv
<1>3. ASSUME NEW a \in Ao, Thread(a) PROVE ThreadInv'
  <2>1. main = <<"running">> /\ UNCHANGED main
    BY <1>3 DEF Thread, DispatchInit, DispatchNext, Return, PostEvent, Call, Enter, SetTimeout, SetPeriod, Leave
  <2>. QED BY <2>1 DEF ThreadInv
<1>. QED BY <1>1, <1>2, <1>3

LEMMA CallInvStep ==
  ASSUME TypeOK, ThreadInv, CallInv, Main \/ TickService \/ \E a \in Ao : TickReturn(a) \/ Thread(a)
  PROVE  CallInv'
<1>. USE DEF CallInv, InCall
<1>1. CASE Main
  <2>1. \A a \in Ao : pc'[a] \in {"created", "started"}
    BY <1>1 DEF Main, Run, TimeeventInit, TimeeventInitDone, ThreadInv, thread
  <2>. QED BY <2>1
<1>2. CASE TickService \/ \E a \in Ao : TickReturn(a)
  <2>1. UNCHANGED <<pc, call>>
    BY <1>2 DEF TickService, TickBegin, ServeOne, ServeNull, CountDown, Expire, TickReturn, TickEnd, thread
  <2>. QED BY <2>1
<1>3. ASSUME NEW a \in Ao, Thread(a) PROVE CallInv'
  <2>1. CASE DispatchInit(a) \/ DispatchNext(a) \/ Return(a) \/ \E b \in Ao : PostEvent(a, b)
    <3>1. UNCHANGED call /\ \E l \in {"handler", "loop"} : pc' = [pc EXCEPT ![a] = l]
      BY <2>1 DEF DispatchInit, DispatchNext, Return, PostEvent
    <3>. QED BY <3>1 DEF TypeOK
  <2>2. ASSUME NEW e \in TimeEvent, NEW arm \in Arms \cup {<<0, 0>>}, Call(a, e, arm) PROVE CallInv'
    BY <2>2 DEF Call, TypeOK
  <2>3. CASE Enter(a) \/ SetTimeout(a) \/ SetPeriod(a)
    <3>1. UNCHANGED call /\ pc[a] \in InCall /\ \E l \in InCall : pc' = [pc EXCEPT ![a] = l]
      BY <2>3 DEF Enter, SetTimeout, SetPeriod
    <3>. QED BY <3>1 DEF TypeOK
  <2>4. CASE Leave(a)
    BY <2>4 DEF Leave, TypeOK
  <2>. QED BY <1>3, <2>1, <2>2, <2>3, <2>4 DEF Thread
<1>. QED BY <1>1, <1>2, <1>3

-----------------------------------------------------------------------------
(* Time.                                                                   *)

\* One more tick: the timeout reaches 0 exactly when the time event is due, and
\* what it is reloaded with is the time to the next expiry.
LEMMA OneTick ==
  ASSUME NEW h \in History, NEW n \in Nat, NEW t \in Nat, NEW p \in Nat,
         Counted(h, n), Remaining(h, n, t, p)
  PROVE  /\ t # 1 => /\ Counted(h, n + 1)
                     /\ Remaining(h, n + 1, IF t > 0 THEN t - 1 ELSE 0, p)
         /\ t = 1 => /\ Counted([h EXCEPT !.expired = @ + 1], n + 1)
                     /\ Remaining([h EXCEPT !.expired = @ + 1], n + 1, p, p)
<1>. DEFINE T == h.timeout
            P == h.period
            x == h.expired
            g == [h EXCEPT !.expired = @ + 1]
<1>1. T \in Nat /\ P \in Nat /\ x \in Nat
  BY DEF History
<1>2. g.timeout = T /\ g.period = P /\ g.expired = x + 1
  BY DEF History
<1>. HIDE DEF g
<1>3. ((x + 1) - 1) * P = (x - 1) * P + P /\ (x - 1) * P \in Int
  <2>1. \A a, b \in Int : (a + 1) * b = a * b + b /\ a * b \in Int
    OBVIOUS
  <2>2. (x + 1) - 1 = (x - 1) + 1 /\ x - 1 \in Int /\ P \in Int
    BY <1>1
  <2>. HIDE DEF x, P
  <2>. QED BY <2>1, <2>2
<1>4. SinceDue(h, n + 1) = SinceDue(h, n) + 1 /\ SinceDue(h, n) \in Int
  <2>. DEFINE m == (x - 1) * P
  <2>1. SinceDue(h, n) = n - T - m /\ SinceDue(h, n + 1) = (n + 1) - T - m /\ m \in Int
    BY <1>3 DEF SinceDue
  <2>. HIDE DEF m, T
  <2>. QED BY <1>1, <2>1
<1>5. SinceDue(g, n + 1) = SinceDue(h, n) + 1 - P
  <2>1. SinceDue(g, n + 1) = (n + 1) - g.timeout - (g.expired - 1) * g.period
    BY DEF SinceDue
  <2>2. SinceDue(g, n + 1) = (n + 1) - T - ((x + 1) - 1) * P
    <3>. HIDE DEF T, P, x
    <3>1. \A a, b, c : g.timeout = a /\ g.expired = b /\ g.period = c =>
             (n + 1) - g.timeout - (g.expired - 1) * g.period = (n + 1) - a - (b - 1) * c
      BY Zenon
    <3>. QED BY <1>2, <2>1, <3>1, Zenon
  <2>3. SinceDue(h, n) = n - T - (x - 1) * P
    BY DEF SinceDue
  <2>. DEFINE m == (x - 1) * P
              w == ((x + 1) - 1) * P
  <2>4. m \in Int /\ w = m + P /\ SinceDue(h, n) = n - T - m /\ SinceDue(g, n + 1) = (n + 1) - T - w
    BY <1>3, <2>2, <2>3
  <2>. HIDE DEF m, w, T, P, x
  <2>. QED BY <1>1, <2>4
<1>6. CASE T = 0
  BY <1>1, <1>6 DEF Counted, Remaining
<1>7. CASE T # 0 /\ n + 1 < T
  BY <1>1, <1>7 DEF Counted, Remaining
<1>8. CASE T # 0 /\ n + 1 = T
  <2>1. t = 1 /\ x = 0 /\ p = P
    BY <1>1, <1>8 DEF Counted, Remaining
  <2>2. SinceDue(g, n + 1) = 0
    BY <1>1, <1>2, <1>8, <2>1 DEF SinceDue
  <2>. QED BY <1>1, <1>2, <1>8, <2>1, <2>2 DEF Counted, Remaining, g
<1>9. CASE T # 0 /\ n >= T /\ P = 0
  BY <1>1, <1>9 DEF Counted, Remaining
<1>10. CASE T # 0 /\ n >= T /\ P # 0
  <2>1. t = P - SinceDue(h, n) /\ p = P /\ x >= 1 /\ SinceDue(h, n) >= 0 /\ SinceDue(h, n) < P
    BY <1>1, <1>10 DEF Counted, Remaining
  <2>2. CASE t # 1
    BY <1>1, <1>4, <1>10, <2>1, <2>2 DEF Counted, Remaining
  <2>3. CASE t = 1
    BY <1>1, <1>2, <1>4, <1>5, <1>10, <2>1, <2>3 DEF Counted, Remaining, g
  <2>. QED BY <2>2, <2>3
<1>. QED BY <1>1, <1>6, <1>7, <1>8, <1>9, <1>10

\* What the property counts, from the invariant.
LEMMA CountedIsExpected ==
  ASSUME NEW h \in History, NEW n \in Nat, Counted(h, n)
  PROVE  h.expired = IF h.timeout = 0 \/ n < h.timeout THEN 0
                     ELSE IF h.period = 0 THEN 1
                     ELSE 1 + (n - h.timeout) \div h.period
<1>1. h.timeout \in Nat /\ h.period \in Nat /\ h.expired \in Nat
  BY DEF History
<1>2. CASE h.timeout = 0 \/ n < h.timeout \/ h.period = 0
  BY <1>1, <1>2 DEF Counted
<1>3. CASE h.timeout # 0 /\ n >= h.timeout /\ h.period # 0
  <2>. DEFINE q == h.expired - 1
              d == SinceDue(h, n)
              P == h.period
              y == n - h.timeout
  <2>1. q \in Nat /\ d \in Nat /\ d < P /\ y \in Nat /\ P \in Nat \ {0} /\ q * P \in Nat
    BY <1>1, <1>3 DEF Counted, SinceDue
  <2>2. y = q * P + d
    BY <1>1, <2>1 DEF SinceDue
  <2>. HIDE DEF q, d, P, y
  <2>3. y \div P = q
    BY <2>1, <2>2
  <2>. QED BY <1>1, <1>3, <2>3 DEF q, P, y
<1>. QED BY <1>1, <1>2, <1>3

\* Without a tick, and without a write to a time event, nothing changes.
LEMMA TimingSame ==
  ASSUME TimingInv, UNCHANGED <<registry, timers, main, entry, since>>, halted' = "no" => halted = "no",
         \A e \in TimeEvent : Half(e)' = Half(e)
  PROVE  TimingInv'
<1>1. \A e \in TimeEvent : Served(e)' = Served(e) /\ Period(e)' = Period(e)
  BY DEF Served, Pending, Period, registry, timers
<1>2. ASSUME NEW e \in TimeEvent, Timing(e) PROVE Timing(e)'
  BY <1>1, <1>2 DEF Timing, timers
<1>. QED BY <1>2 DEF TimingInv

\* Registration comes before any arming.
LEMMA TimingMain ==
  ASSUME TypeOK, HistoryType, TimingInv, Main
  PROVE  HistoryType' /\ TimingInv'
<1>1. main # <<"running">> /\ halted = "no" /\ since' = since
  BY DEF Main, Run, TimeeventInit, TimeeventInitDone
<1>2. \A e \in TimeEvent : ~(since[e].ticks <= Horizon)
  BY <1>1 DEF TimingInv, Timing
<1>. QED BY <1>1, <1>2 DEF TimingInv, HistoryType

\* A step of a thread that neither begins nor ends in the middle of Arm.
LEMMA HalfSame ==
  ASSUME TypeOK, NEW a \in Ao, pc[a] # "period", NEW l, l # "period", pc' = [pc EXCEPT ![a] = l],
         \A b \in Ao : b # a => call'[b] = call[b]
  PROVE  \A e \in TimeEvent : Half(e)' = Half(e)
<1>1. \A b \in Ao : (pc'[b] = "period" <=> pc[b] = "period") /\ (pc[b] = "period" => call'[b] = call[b])
  BY DEF TypeOK
<1>. QED BY <1>1 DEF Half

\* What a thread does to the time events: nothing but in its two writes.
LEMMA TimingThread ==
  ASSUME TypeOK, CallInv, HistoryType, TimingInv, NEW a \in Ao, Thread(a)
  PROVE  HistoryType' /\ TimingInv'
<1>. USE AoAssumption DEF InCall
<1>0. entry = 0 /\ halted = "no" /\ \A e \in TimeEvent : ~Pending(e) /\ Served(e) = since[e].ticks
  BY DEF Thread, Pending, Served
<1>1. CASE \/ DispatchInit(a) \/ DispatchNext(a) \/ Return(a) \/ \E b \in Ao : PostEvent(a, b)
           \/ \E e \in TimeEvent, arm \in Arms \cup {<<0, 0>>} : Call(a, e, arm)
           \/ Enter(a) \/ Leave(a)
  <2>1. /\ UNCHANGED <<registry, timers, main, entry, since>> /\ pc[a] # "period"
        /\ \E l \in {"handler", "loop", "saved", "timeout"} : pc' = [pc EXCEPT ![a] = l]
        /\ \A b \in Ao : b # a => call'[b] = call[b]
    BY <1>1 DEF DispatchInit, DispatchNext, Return, PostEvent, Call, Enter, Leave, TypeOK
  <2>2. \A e \in TimeEvent : Half(e)' = Half(e)
    BY <2>1, HalfSame
  <2>. QED BY <1>0, <2>1, <2>2, TimingSame DEF HistoryType
<1>2. CASE SetTimeout(a)
  <2>0. PICK e, arm : e = call[a][1] /\ arm = call[a][2]
    OBVIOUS
  <2>. DEFINE h == [timeout |-> arm[1], period |-> arm[2], ticks |-> 0, expired |-> 0]
  <2>1. /\ e \in TimeEvent /\ arm \in Arms \cup {<<0, 0>>} /\ arm[1] \in Nat /\ arm[2] \in Nat
        /\ requester[e] = a
    BY <1>2, <2>0 DEF SetTimeout, CallInv
  <2>2. /\ timeout' = [timeout EXCEPT ![e] = arm[1]] /\ UNCHANGED <<registry, period, main, entry, halted, call>>
        /\ pc[a] = "timeout" /\ since' = [since EXCEPT ![e] = h]
        /\ pc' = [pc EXCEPT ![a] = IF arm[1] = 0 THEN "restore" ELSE "period"]
    BY <1>2, <2>0 DEF SetTimeout
  <2>3. h \in History
    BY <2>1 DEF History
  <2>4. HistoryType'
    BY <2>1, <2>2, <2>3 DEF HistoryType
  <2>5. \A f \in TimeEvent : Served(f)' = since'[f].ticks
    BY <1>0, <2>2 DEF Served, Pending
  <2>6. \A b \in Ao : pc'[b] = IF b = a THEN IF arm[1] = 0 THEN "restore" ELSE "period" ELSE pc[b]
    BY <2>2 DEF TypeOK
  <2>7. ASSUME NEW f \in TimeEvent, f # e, since'[f].ticks <= Horizon PROVE Timing(f)'
    <3>1. Half(f)' = Half(f)
      BY <2>0, <2>2, <2>6, <2>7 DEF Half
    <3>2. since'[f] = since[f] /\ timeout'[f] = timeout[f] /\ period' = period
      BY <2>2, <2>7 DEF HistoryType, TypeOK
    <3>3. Period(f)' = Period(f)
      BY <3>1, <3>2 DEF Period
    <3>. QED BY <1>0, <2>2, <2>5, <2>7, <3>1, <3>2, <3>3 DEF TimingInv, Timing
  <2>8. Half(e)' = IF arm[1] = 0 THEN {} ELSE {arm[2]}
    <3>1. \A b \in Ao : pc[b] = "period" /\ call[b][1] = e => b = a
      BY <2>1 DEF CallInv
    <3>2. {b \in Ao : pc'[b] = "period" /\ call'[b][1] = e} = IF arm[1] = 0 THEN {} ELSE {a}
      BY <2>0, <2>2, <2>6, <3>1
    <3>. QED BY <2>0, <2>2, <3>2 DEF Half
  <2>9. main = <<"running">> /\ since'[e] = h /\ timeout'[e] = arm[1] /\ Served(e)' = 0
    BY <2>1, <2>2, <2>5 DEF Thread, HistoryType, TypeOK
  <2>10. Counted(h, 0) /\ Remaining(h, 0, arm[1], Period(e)')
    <3>1. arm[1] # 0 => Period(e)' = arm[2]
      BY <2>8, <2>9 DEF Period
    <3>. QED BY <2>1, <3>1 DEF Counted, Remaining
  <2>11. Half(e)' \subseteq {h.period}
    BY <2>8
  <2>12. Timing(e)'
    BY <2>2, <2>9, <2>10, <2>11 DEF Timing
  <2>. QED BY <2>4, <2>7, <2>12 DEF TimingInv
<1>3. CASE SetPeriod(a)
  <2>0. PICK e, arm : e = call[a][1] /\ arm = call[a][2]
    OBVIOUS
  <2>1. e \in TimeEvent /\ arm[2] \in Nat /\ requester[e] = a
    BY <1>3, <2>0 DEF SetPeriod, CallInv
  <2>2. /\ period' = [period EXCEPT ![e] = arm[2]]
        /\ UNCHANGED <<registry, timeout, main, entry, halted, call, since>>
        /\ pc[a] = "period" /\ pc' = [pc EXCEPT ![a] = "restore"]
    BY <1>3, <2>0 DEF SetPeriod
  <2>3. \A f \in TimeEvent : Served(f)' = Served(f)
    BY <2>2 DEF Served, Pending, registry
  <2>4. \A b \in Ao : pc'[b] = IF b = a THEN "restore" ELSE pc[b]
    BY <2>2 DEF TypeOK
  <2>5. ASSUME NEW f \in TimeEvent, f # e, since[f].ticks <= Horizon PROVE Timing(f)'
    <3>1. Half(f)' = Half(f)
      BY <2>0, <2>2, <2>4, <2>5 DEF Half
    <3>2. Period(f)' = Period(f)
      BY <2>1, <2>2, <2>5, <3>1 DEF Period, TypeOK
    <3>. QED BY <1>0, <2>2, <2>3, <2>5, <3>1, <3>2 DEF TimingInv, Timing
  <2>6. ASSUME since[e].ticks <= Horizon PROVE Timing(e)'
    <3>1. Timing(e)
      BY <1>0, <2>1, <2>6 DEF TimingInv
    <3>2. \A b \in Ao : pc[b] = "period" /\ call[b][1] = e => b = a
      BY <2>1 DEF CallInv
    <3>3. {b \in Ao : pc[b] = "period" /\ call[b][1] = e} = {a}
          /\ {b \in Ao : pc'[b] = "period" /\ call'[b][1] = e} = {}
      BY <2>0, <2>2, <2>4, <3>2
    <3>4. Half(e) = {arm[2]} /\ Half(e)' = {}
      BY <2>0, <3>3 DEF Half
    <3>5. Period(e) = since[e].period /\ Period(e)' = arm[2] /\ since[e].period = arm[2]
      BY <2>1, <2>2, <3>1, <3>4 DEF Period, Timing, TypeOK
    <3>. QED BY <2>1, <2>2, <2>3, <3>1, <3>4, <3>5 DEF Timing
  <2>. QED BY <2>2, <2>5, <2>6 DEF TimingInv, HistoryType
<1>. QED BY <1>1, <1>2, <1>3 DEF Thread

\* The tick begins: every armed time event has one more tick to be served.
LEMMA TimingBegin ==
  ASSUME TypeOK, RegistryInv, HistoryType, TimingInv, TickBegin
  PROVE  HistoryType' /\ TimingInv'
<1>1. /\ entry = 0 /\ entry' = 1 /\ since' = [e \in TimeEvent |-> Later(since[e])]
      /\ UNCHANGED <<registry, timers, pc, call, main, halted>>
  BY DEF TickBegin, thread
<1>2. ASSUME NEW h \in History
      PROVE  /\ Later(h) \in History
             /\ Later(h).ticks <= Horizon => h.ticks <= Horizon /\ Later(h) = [h EXCEPT !.ticks = h.ticks + 1]
  BY AoAssumption DEF Later, Forgotten, History
<1>3. HistoryType'
  BY <1>1, <1>2 DEF HistoryType
<1>4. ASSUME NEW e \in TimeEvent, halted = "no", since'[e].ticks <= Horizon PROVE Timing(e)'
  <2>1. /\ since[e] \in History /\ since[e].ticks <= Horizon
        /\ since'[e] = [since[e] EXCEPT !.ticks = since[e].ticks + 1]
    BY <1>1, <1>2, <1>4 DEF HistoryType
  <2>2. Timing(e)
    BY <1>4, <2>1 DEF TimingInv
  <2>3. ~Pending(e) /\ Served(e) = since[e].ticks
    BY <1>1 DEF Pending, Served
  <2>4. Pending(e)'
    <3>1. e \in Registered
      BY <2>2 DEF Timing, RegistryInv
    <3>2. PICK k \in 1 .. time_events_num : time_events[k] = e
      BY <3>1 DEF Registered
    <3>3. k \in Int /\ 1 <= k
      BY <3>2 DEF TypeOK
    <3>. QED BY <1>1, <3>2, <3>3 DEF Pending, registry
  <2>5. Served(e)' = Served(e)
    BY <2>1, <2>3, <2>4 DEF Served, History
  <2>6. \A n : Counted(since'[e], n) = Counted(since[e], n)
    BY <2>1 DEF Counted, SinceDue, History
  <2>7. \A n, t, p : Remaining(since'[e], n, t, p) = Remaining(since[e], n, t, p)
    BY <2>1 DEF Remaining, SinceDue, History
  <2>8. Half(e)' = Half(e)
    BY <1>1 DEF Half
  <2>9. since'[e].period = since[e].period
    BY <2>1 DEF History
  <2>10. Period(e)' = Period(e)
    BY <1>1, <2>8, <2>9 DEF Period, timers
  <2>. QED BY <1>1, <2>2, <2>5, <2>6, <2>7, <2>8, <2>9, <2>10 DEF Timing, timers
<1>. QED BY <1>1, <1>3, <1>4 DEF TimingInv

\* One iteration of the loop: of e one pending tick is served, and nothing else changes.
LEMMA ServedStep ==
  ASSUME TypeOK, RegistryInv, NEW e \in TimeEvent, entry \in 1 .. time_events_num,
         time_events[entry] = e, entry' = entry + 1, UNCHANGED registry
  PROVE  /\ Pending(e) /\ ~Pending(e)'
         /\ \A f \in TimeEvent : f # e => (Pending(f)' <=> Pending(f))
<1>1. entry \in Int /\ time_events_num \in Nat /\ time_events_num' = time_events_num /\ time_events' = time_events
  BY AoAssumption DEF TypeOK, registry
<1>2. e # NULL
  BY AoAssumption
<1>3. \A k \in 1 .. time_events_num : time_events[k] = e => k = entry
  BY <1>2 DEF RegistryInv
<1>. QED BY <1>1, <1>3 DEF Pending

LEMMA TimingServe ==
  ASSUME TypeOK, RegistryInv, HistoryType, TimingInv, halted = "no", ServeOne
  PROVE  HistoryType' /\ TimingInv'
<1>. USE AoAssumption
<1>0. entry \in 1 .. time_events_num
  BY DEF ServeOne
<1>1. CASE ServeNull
  BY <1>1 DEF ServeNull, TimingInv, HistoryType
<1>2. ASSUME NEW e \in TimeEvent, CountDown(e) \/ Expire(e), halted' = "no"
      PROVE  HistoryType' /\ TimingInv'
  <2>. DEFINE g == IF timeout[e] = 1 THEN Expired(e) ELSE since[e]
              left == IF timeout[e] = 1 THEN period[e] ELSE IF timeout[e] > 0 THEN timeout[e] - 1 ELSE 0
  <2>1. /\ time_events[entry] = e /\ entry' = entry + 1 /\ UNCHANGED <<registry, period, pc, call, main>>
        /\ timeout' = [timeout EXCEPT ![e] = left] /\ since' = [since EXCEPT ![e] = g]
    BY <1>2 DEF CountDown, Expire, thread, TypeOK, HistoryType
  <2>2. since[e] \in History /\ timeout[e] \in Nat /\ period[e] \in Nat
    BY DEF HistoryType, TypeOK
  <2>3. BeingArmed(e) <=> Half(e) # {}
    BY DEF BeingArmed, Half
  <2>4. /\ g \in History
        /\ g.ticks <= Horizon => /\ g.ticks = since[e].ticks /\ g.period = since[e].period
                                 /\ g = IF timeout[e] = 1 THEN [since[e] EXCEPT !.expired = @ + 1] ELSE since[e]
                                 /\ timeout[e] = 1 => Half(e) = {}
    <3>1. CASE timeout[e] # 1
      BY <2>2, <3>1
    <3>2. CASE timeout[e] = 1 /\ since[e].ticks > Horizon
      BY <2>2, <3>2 DEF Expired, History
    <3>3. CASE timeout[e] = 1 /\ since[e].ticks <= Horizon /\ BeingArmed(e)
      BY <2>2, <3>3 DEF Expired, Forgotten, History
    <3>4. CASE timeout[e] = 1 /\ since[e].ticks <= Horizon /\ ~BeingArmed(e)
      <4>1. Expired(e) = [since[e] EXCEPT !.expired = @ + 1]
        BY <2>2, <3>4 DEF Expired, History
      <4>. QED BY <2>2, <2>3, <3>4, <4>1 DEF History
    <3>. QED BY <2>2, <3>1, <3>2, <3>3, <3>4 DEF History
  <2>. HIDE DEF g, left
  <2>5. HistoryType'
    BY <2>1, <2>4 DEF HistoryType
  <2>6. Pending(e) /\ ~Pending(e)' /\ \A f \in TimeEvent : f # e => (Pending(f)' <=> Pending(f))
    BY <1>0, <2>1, ServedStep
  <2>7. \A f \in TimeEvent : Half(f)' = Half(f)
    BY <2>1 DEF Half
  <2>8. ASSUME NEW f \in TimeEvent, f # e, since'[f].ticks <= Horizon PROVE Timing(f)'
    <3>1. since'[f] = since[f] /\ timeout'[f] = timeout[f] /\ period' = period
      BY <2>1, <2>8 DEF TypeOK, HistoryType
    <3>2. Served(f)' = Served(f) /\ Period(f)' = Period(f)
      BY <2>6, <2>7, <2>8, <3>1 DEF Served, Period
    <3>. QED BY <2>1, <2>7, <2>8, <3>1, <3>2 DEF TimingInv, Timing
  <2>9. ASSUME since'[e].ticks <= Horizon PROVE Timing(e)'
    <3>1. since'[e] = g /\ timeout'[e] = left /\ period' = period
      BY <2>1, <2>2 DEF TypeOK, HistoryType
    <3>2. /\ g.ticks = since[e].ticks /\ g.period = since[e].period /\ since[e].ticks <= Horizon
          /\ g = IF timeout[e] = 1 THEN [since[e] EXCEPT !.expired = @ + 1] ELSE since[e]
          /\ timeout[e] = 1 => Half(e) = {}
      BY <2>4, <2>9, <3>1
    <3>3. Timing(e)
      BY <3>2 DEF TimingInv
    <3>4. Served(e)' = Served(e) + 1
      BY <2>2, <2>6, <3>1, <3>2 DEF Served, History
    <3>5. Period(e)' = Period(e) /\ Period(e) \in Nat
      BY <2>2, <2>7, <3>1, <3>2 DEF Period, History
    <3>6. Counted(g, Served(e) + 1) /\ Remaining(g, Served(e) + 1, left, Period(e))
      <4>1. CASE timeout[e] # 1
        <5>1. g = since[e] /\ left = IF timeout[e] > 0 THEN timeout[e] - 1 ELSE 0
          BY <3>2, <4>1 DEF left
        <5>. QED BY <2>2, <3>3, <3>5, <4>1, <5>1, OneTick DEF Timing
      <4>2. CASE timeout[e] = 1
        <5>1. g = [since[e] EXCEPT !.expired = @ + 1] /\ left = Period(e)
          BY <3>2, <4>2 DEF left, Period
        <5>. QED BY <2>2, <3>3, <3>5, <4>2, <5>1, OneTick DEF Timing
      <4>. QED BY <4>1, <4>2
    <3>. QED BY <2>1, <2>7, <3>1, <3>2, <3>3, <3>4, <3>5, <3>6 DEF Timing
  <2>. QED BY <2>5, <2>8, <2>9 DEF TimingInv
<1>3. ASSUME NEW e \in TimeEvent, CountDown(e) \/ Expire(e), halted' # "no"
      PROVE  HistoryType' /\ TimingInv'
  BY <1>3 DEF CountDown, Expire, TimingInv, HistoryType
<1>. QED BY <1>1, <1>2, <1>3 DEF ServeOne

LEMMA TimingEnd ==
  ASSUME TypeOK, HistoryType, TimingInv, NEW a \in Ao, TickEnd(a)
  PROVE  HistoryType' /\ TimingInv'
<1>1. /\ entry = time_events_num + 1 /\ entry' = 0
      /\ UNCHANGED <<registry, timers, pc, call, main, halted, since>>
  BY DEF TickEnd, thread
<1>2. \A e \in TimeEvent : ~Pending(e) /\ ~Pending(e)'
  BY <1>1, AoAssumption DEF Pending, TypeOK
<1>3. \A e \in TimeEvent : Served(e)' = Served(e) /\ Half(e)' = Half(e) /\ Period(e)' = Period(e)
  BY <1>1, <1>2 DEF Served, Half, Period, timers
<1>4. ASSUME NEW e \in TimeEvent, Timing(e) PROVE Timing(e)'
  BY <1>1, <1>3, <1>4 DEF Timing, timers
<1>. QED BY <1>1, <1>4 DEF TimingInv, HistoryType

-----------------------------------------------------------------------------
(* The theorems.                                                           *)

LEMMA AoInvStep == AoInv /\ [Next]_vars => AoInv'
<1> SUFFICES ASSUME AoInv, [Next]_vars PROVE AoInv'
  OBVIOUS
<1>. USE DEF AoInv
<1>1. CASE Main
  BY <1>1, MainTypes, ThreadInvStep, CallInvStep, TimingMain
<1>2. CASE TickService \/ \E a \in Ao : TickReturn(a)
  <2>1. TypeOK' /\ ThreadInv' /\ CallInv'
    BY <1>2, TickTypes, ThreadInvStep, CallInvStep
  <2>2. RegistryInv'
    <3>1. UNCHANGED <<registry, main>>
      BY <1>2 DEF TickService, TickBegin, ServeOne, ServeNull, CountDown, Expire, TickReturn, TickEnd
    <3>. QED BY <3>1, RegistrySame
  <2>3. HistoryType' /\ TimingInv'
    BY <1>2, TimingBegin, TimingServe, TimingEnd DEF TickService, TickReturn
  <2>. QED BY <2>1, <2>2, <2>3
<1>3. ASSUME NEW a \in Ao, Thread(a) PROVE AoInv'
  <2>1. TypeOK' /\ ThreadInv' /\ CallInv'
    BY <1>3, LoopTypes, CallTypes, ThreadInvStep, CallInvStep DEF Thread
  <2>2. RegistryInv'
    <3>1. UNCHANGED <<registry, main>>
      BY <1>3 DEF Thread, DispatchInit, DispatchNext, Return, PostEvent, Call, Enter, SetTimeout, SetPeriod, Leave
    <3>. QED BY <3>1, RegistrySame
  <2>3. HistoryType' /\ TimingInv'
    BY <1>3, TimingThread
  <2>. QED BY <2>1, <2>2, <2>3
<1>4. CASE UNCHANGED vars
  <2>1. UNCHANGED <<registry, timers, evt_queue, pc, evt, call, main, running, entry, halted, core, since>>
    BY <1>4 DEF vars, thread
  <2>2. TypeOK'
    BY <2>1 DEF TypeOK, registry, timers, core
  <2>3. RegistryInv' /\ ThreadInv' /\ CallInv' /\ HistoryType'
    BY <2>1, RegistrySame DEF ThreadInv, CallInv, HistoryType
  <2>4. TimingInv'
    BY <2>1, TimingSame DEF Half
  <2>. QED BY <2>2, <2>3, <2>4
<1>. QED BY <1>1, <1>2, <1>3, <1>4 DEF Next, Halted

LEMMA AoInvCorrect == Spec => []AoInv
<1>1. Init => AoInv
  BY TypeInit DEF AoInv, Init, ThreadInv
<1>. QED BY <1>1, AoInvStep, PTL DEF Spec

\* Every variable keeps its type: the registry never holds more than it has room for,
\* no queue more than its length, and the tick serves only entries of the registry.
THEOREM AoTypeCorrect == Spec => []TypeOK
<1>1. AoInv => TypeOK
  BY DEF AoInv
<1>. QED BY <1>1, AoInvCorrect, PTL

\* A time event has expired exactly as often as the ticks since it was armed say, for
\* any timeout and any period, whatever the threads arm and stop in between and wherever
\* the tick cuts into them, unless it expires before Arm has written its period.
THEOREM ExpiryCorrect == Spec => []ExpiresOnTime
<1>1. AoInv => ExpiresOnTime
  <2> SUFFICES ASSUME AoInv, halted = "no", entry = 0, NEW e \in TimeEvent, since[e].ticks <= Horizon
               PROVE  since[e].expired =
                        IF since[e].timeout = 0 \/ since[e].ticks < since[e].timeout THEN 0
                        ELSE IF since[e].period = 0 THEN 1
                        ELSE 1 + (since[e].ticks - since[e].timeout) \div since[e].period
    BY DEF ExpiresOnTime
  <2>1. Served(e) = since[e].ticks
    BY DEF Served, Pending
  <2>2. since[e] \in History /\ since[e].ticks \in Nat /\ Counted(since[e], since[e].ticks)
    BY <2>1 DEF AoInv, HistoryType, TimingInv, Timing
  <2>. QED BY <2>2, CountedIsExpected
<1>. QED BY <1>1, AoInvCorrect, PTL

=============================================================================
