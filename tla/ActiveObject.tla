---------------------------- MODULE ActiveObject ----------------------------
(***************************************************************************)
(* The active objects of src/src/libs/active_object/active_object.c: each  *)
(* has a thread that takes events from its queue and dispatches them, and  *)
(* time events that the tick interrupt counts down and posts.              *)
(*                                                                         *)
(* An event loop never blocks, so a thread runs until the tick interrupt   *)
(* hands the processor to another one. Threads take one access to shared   *)
(* state per step, and the interrupt one iteration of its loop; while it   *)
(* runs nobody else gets the processor. The tick comes between any two     *)
(* steps of a thread, those in a critical section included: the section    *)
(* does not hold off a system exception (Core). The RTOS, its queues       *)
(* (Ringfifo) and the events that handlers choose to post are external.    *)
(* The time event names the object it is for (requester); Init sets it.    *)
(*                                                                         *)
(* A queue holds what Ao_Post_Event pushes, the address of its parameter,  *)
(* which no longer exists when the loop hands it to the handler. What the  *)
(* handler finds there can be anything, and a handler of the model may do  *)
(* anything whatever it is given.                                          *)
(*                                                                         *)
(* since is a history variable: what a time event was armed with, how many *)
(* ticks came since, and how often it expired. No guard reads it.          *)
(***************************************************************************)
EXTENDS Naturals, SequencesExt, Core

CONSTANTS
  Ao,             \* the active objects
  TimeEvent,      \* their time events
  requester,      \* requester[e] is the object that time event e is for
  MaxTimeEvents,  \* the length of time_events: 10
  QueueLen,       \* queue_len
  Arms,           \* the <<timeout, period>> that time events are armed with
  Horizon,        \* since is forgotten after this many ticks
  NULL

INIT == "AO_SIG_INIT"
USER == "AO_SIG_USER_DEFINED_START"

ASSUME AoAssumption ==
  /\ requester \in [TimeEvent -> Ao]
  /\ MaxTimeEvents \in Nat /\ QueueLen \in Nat \ {0} /\ Horizon \in Nat
  /\ IsFiniteSet(TimeEvent)
  /\ Cardinality(TimeEvent) <= MaxTimeEvents   \* what Ao_Timeevent_Init asserts
  /\ Arms \subseteq (Nat \ {0}) \X Nat
  /\ NULL \notin TimeEvent /\ {INIT, USER} \cap TimeEvent = {}
  /\ SYSTICK # IRQ_ALL

\* A pointer to the event e, and one to the parameter of the call that posts e: &evt
\* in Ao_Post_Event.
PointerTo(e) == [event |-> e]
AddressOf(e) == [parameter |-> e]

Pushed == {AddressOf(e) : e \in TimeEvent \cup {USER}}

VARIABLES
  time_events, time_events_num,   \* the registry of time events
  timeout, period,                \* per time event
  evt_queue,                      \* per object
  pc, evt,                        \* per thread: where it is, what it gives the handler
  call,                           \* per thread: what it arms a time event with
  main,                           \* how far main() is with setting things up
  running,                        \* the thread that has the processor
  entry,                          \* the entry of the registry that the tick serves, or 0
  halted,                         \* which assertion has failed
  since                           \* history

registry == <<time_events, time_events_num>>
timers   == <<timeout, period>>
thread   == <<pc, evt, call>>
vars == <<registry, timers, evt_queue, thread, main, running, entry, halted, core, since>>

Registered == {time_events[i] : i \in 1 .. time_events_num} \ {NULL}
Forgotten  == [timeout |-> 0, period |-> 0, ticks |-> Horizon + 1, expired |-> 0]

-----------------------------------------------------------------------------
Init ==
  /\ time_events = [i \in 1 .. MaxTimeEvents |-> NULL] /\ time_events_num = 0
  /\ timeout = [e \in TimeEvent |-> 0] /\ period = [e \in TimeEvent |-> 0]
  /\ evt_queue = [a \in Ao |-> <<>>]
  /\ pc = [a \in Ao |-> "created"] /\ evt = [a \in Ao |-> NULL] /\ call = [a \in Ao |-> NULL]
  /\ main = <<"setup">> /\ running \in Ao /\ entry = 0 /\ halted = "no"
  /\ enabled = {} /\ primask = FALSE /\ saved = [a \in Ao |-> FALSE]
  /\ since = [e \in TimeEvent |-> Forgotten]

\* time_events[time_events_num++] = time_event: which of the two is stored first
\* is up to the compiler.
TimeeventInit(e) ==
  /\ main = <<"setup">>
  /\ e \notin Registered
  /\ \/ time_events_num' = time_events_num + 1 /\ UNCHANGED time_events
        /\ main' = <<"store", e>>
     \/ time_events' = [time_events EXCEPT ![time_events_num + 1] = e] /\ UNCHANGED time_events_num
        /\ main' = <<"count", e>>
  /\ UNCHANGED <<timers, evt_queue, thread, running, entry, halted, core, since>>

TimeeventInitDone(e) ==
  /\ \/ main = <<"store", e>>
        /\ time_events' = [time_events EXCEPT ![time_events_num] = e] /\ UNCHANGED time_events_num
     \/ main = <<"count", e>>
        /\ time_events_num' = time_events_num + 1 /\ UNCHANGED time_events
  /\ main' = <<"setup">>
  /\ UNCHANGED <<timers, evt_queue, thread, running, entry, halted, core, since>>

\* Ao_Run of every object; from here on the RTOS runs their threads.
Run ==
  /\ main = <<"setup">> /\ Registered = TimeEvent
  /\ main' = <<"running">>
  /\ pc' = [a \in Ao |-> "started"]
  /\ UNCHANGED <<registry, timers, evt_queue, evt, call, running, entry, halted, core, since>>

-----------------------------------------------------------------------------
(* Event_Loop.                                                             *)

DispatchInit(a) ==
  /\ pc[a] = "started"
  /\ evt' = [evt EXCEPT ![a] = PointerTo(INIT)]
  /\ pc' = [pc EXCEPT ![a] = "handler"]
  /\ UNCHANGED <<registry, timers, evt_queue, call, main, running, entry, halted, core, since>>

DispatchNext(a) ==
  /\ pc[a] = "loop" /\ evt_queue[a] # <<>>
  /\ evt' = [evt EXCEPT ![a] = Head(evt_queue[a])]
  /\ evt_queue' = [evt_queue EXCEPT ![a] = Tail(@)]
  /\ pc' = [pc EXCEPT ![a] = "handler"]
  /\ UNCHANGED <<registry, timers, call, main, running, entry, halted, core, since>>

Return(a) ==
  /\ pc[a] = "handler"
  /\ pc' = [pc EXCEPT ![a] = "loop"]
  /\ evt' = [evt EXCEPT ![a] = NULL]
  /\ UNCHANGED <<registry, timers, evt_queue, call, main, running, entry, halted, core, since>>

\* Mutant of PostEvent: the queue is not asked whether it is full.
PostEventUnchecked(a, b) ==
  /\ pc[a] = "handler"
  /\ evt_queue' = [evt_queue EXCEPT ![b] = Append(@, AddressOf(USER))]
  /\ pc' = [pc EXCEPT ![a] = "loop"]
  /\ evt' = [evt EXCEPT ![a] = NULL]
  /\ UNCHANGED <<registry, timers, call, main, running, entry, halted, core, since>>

\* Ao_Post_Event: a full queue is an assertion.
PostEvent(a, b) ==
  /\ pc[a] = "handler"
  /\ IF Len(evt_queue[b]) < QueueLen
       THEN evt_queue' = [evt_queue EXCEPT ![b] = Append(@, AddressOf(USER))] /\ UNCHANGED halted
       ELSE halted' = "full" /\ UNCHANGED evt_queue
  /\ pc' = [pc EXCEPT ![a] = "loop"]
  /\ evt' = [evt EXCEPT ![a] = NULL]
  /\ UNCHANGED <<registry, timers, call, main, running, entry, core, since>>

-----------------------------------------------------------------------------
(* Ao_Timeevent_Arm and Ao_Timeevent_Stop, of a time event of the object.  *)

Call(a, e, arm) ==
  /\ pc[a] = "handler"
  /\ requester[e] = a
  /\ SaveState(a, SYSTICK)
  /\ call' = [call EXCEPT ![a] = <<e, arm>>]
  /\ pc' = [pc EXCEPT ![a] = "saved"]
  /\ evt' = [evt EXCEPT ![a] = NULL]
  /\ UNCHANGED <<registry, timers, evt_queue, main, running, entry, halted, since>>

Enter(a) ==
  /\ pc[a] = "saved"
  /\ DisableInterrupt(SYSTICK)
  /\ pc' = [pc EXCEPT ![a] = "timeout"]
  /\ UNCHANGED <<registry, timers, evt_queue, evt, call, main, running, entry, halted, since>>

SetTimeout(a) ==
  /\ pc[a] = "timeout"
  /\ LET e == call[a][1]  arm == call[a][2] IN
       /\ timeout' = [timeout EXCEPT ![e] = arm[1]]
       /\ since' = [since EXCEPT ![e] = [timeout |-> arm[1], period |-> arm[2], ticks |-> 0, expired |-> 0]]
       /\ pc' = [pc EXCEPT ![a] = IF arm[1] = 0 THEN "restore"   \* Ao_Timeevent_Stop leaves the period alone
                                  ELSE "period"]
  /\ UNCHANGED <<registry, period, evt_queue, evt, call, main, running, entry, halted, core>>

SetPeriod(a) ==
  /\ pc[a] = "period"
  /\ period' = [period EXCEPT ![call[a][1]] = call[a][2][2]]
  /\ pc' = [pc EXCEPT ![a] = "restore"]
  /\ UNCHANGED <<registry, timeout, evt_queue, evt, call, main, running, entry, halted, core, since>>

\* Ao_Timeevent_Arm has written the timeout of e and not its period.
BeingArmed(e) == \E a \in Ao : pc[a] = "period" /\ call[a][1] = e

Leave(a) ==
  /\ pc[a] = "restore"
  /\ RestoreInterrupt(a, SYSTICK)
  /\ pc' = [pc EXCEPT ![a] = "loop"]
  /\ call' = [call EXCEPT ![a] = NULL]
  /\ UNCHANGED <<registry, timers, evt_queue, evt, main, running, entry, halted, since>>

-----------------------------------------------------------------------------
(* The tick interrupt: Ao_TimeEvent_Service, then another thread.          *)

Later(h) == IF h.ticks >= Horizon THEN Forgotten ELSE [h EXCEPT !.ticks = @ + 1]

TickBegin ==
  /\ entry = 0
  /\ Unmasked(SYSTICK)
  /\ entry' = 1
  /\ since' = [e \in TimeEvent |-> Later(since[e])]
  /\ UNCHANGED <<registry, timers, evt_queue, thread, main, running, halted, core>>

\* assert(evt)
ServeNull ==
  /\ time_events[entry] = NULL
  /\ halted' = "null"
  /\ UNCHANGED <<registry, timers, evt_queue, thread, main, running, entry, core, since>>

CountDown(e) ==
  /\ time_events[entry] = e
  /\ timeout[e] # 1
  /\ timeout' = [timeout EXCEPT ![e] = IF @ > 0 THEN @ - 1 ELSE 0]
  /\ entry' = entry + 1
  /\ UNCHANGED <<registry, period, evt_queue, thread, main, running, halted, core, since>>

\* An expiry that finds e half armed reloads it with the period of an earlier call.
Expired(e) ==
  LET h == since[e] IN
  CASE h.ticks > Horizon                    -> h
    [] h.ticks <= Horizon /\ BeingArmed(e)  -> Forgotten
    [] h.ticks <= Horizon /\ ~BeingArmed(e) -> [h EXCEPT !.expired = @ + 1]

\* Mutant of Expire: an event that finds the queue full is dropped.
ExpireDropped(e) ==
  /\ time_events[entry] = e
  /\ timeout[e] = 1
  /\ IF Len(evt_queue[requester[e]]) < QueueLen
       THEN evt_queue' = [evt_queue EXCEPT ![requester[e]] = Append(@, AddressOf(e))]
       ELSE UNCHANGED evt_queue
  /\ timeout' = [timeout EXCEPT ![e] = period[e]]
  /\ since' = [since EXCEPT ![e] = Expired(e)]
  /\ entry' = entry + 1
  /\ UNCHANGED <<registry, period, thread, main, running, halted, core>>

\* Mutant of Expire: the tick that reloads the timeout is counted as well.
ExpireEarly(e) ==
  /\ time_events[entry] = e
  /\ timeout[e] = 1
  /\ Len(evt_queue[requester[e]]) < QueueLen
  /\ evt_queue' = [evt_queue EXCEPT ![requester[e]] = Append(@, AddressOf(e))]
  /\ timeout' = [timeout EXCEPT ![e] = IF period[e] > 0 THEN period[e] - 1 ELSE 0]
  /\ since' = [since EXCEPT ![e] = Expired(e)]
  /\ entry' = entry + 1
  /\ UNCHANGED <<registry, period, thread, main, running, halted, core>>

\* Ao_Post_Event, then the timeout is reloaded; a full queue is an assertion.
Expire(e) ==
  /\ time_events[entry] = e
  /\ timeout[e] = 1
  /\ IF Len(evt_queue[requester[e]]) < QueueLen
       THEN /\ evt_queue' = [evt_queue EXCEPT ![requester[e]] = Append(@, AddressOf(e))]
            /\ timeout' = [timeout EXCEPT ![e] = period[e]]
            /\ since' = [since EXCEPT ![e] = Expired(e)]
            /\ entry' = entry + 1
            /\ UNCHANGED halted
       ELSE /\ halted' = "full"
            /\ timeout' = [timeout EXCEPT ![e] = 0]
            /\ UNCHANGED <<evt_queue, entry, since>>
  /\ UNCHANGED <<registry, period, thread, main, running, core>>

ServeOne ==
  /\ entry \in 1 .. time_events_num
  /\ ServeNull \/ \E e \in TimeEvent : CountDown(e) \/ Expire(e)

TickEnd(a) ==
  /\ entry = time_events_num + 1
  /\ entry' = 0
  /\ running' = a
  /\ UNCHANGED <<registry, timers, evt_queue, thread, main, halted, core, since>>

-----------------------------------------------------------------------------
Thread(a) ==
  /\ halted = "no" /\ entry = 0 /\ main = <<"running">> /\ running = a
  /\ \/ DispatchInit(a) \/ DispatchNext(a) \/ Return(a)
     \/ \E b \in Ao : PostEvent(a, b)
     \/ \E e \in TimeEvent, arm \in Arms \cup {<<0, 0>>} : Call(a, e, arm)
     \/ Enter(a) \/ SetTimeout(a) \/ SetPeriod(a) \/ Leave(a)

Main ==
  /\ halted = "no" /\ entry = 0
  /\ Run \/ \E e \in TimeEvent : TimeeventInit(e) \/ TimeeventInitDone(e)

Halted == halted # "no" /\ UNCHANGED vars

TickService == halted = "no" /\ (TickBegin \/ ServeOne)

TickReturn(a) == halted = "no" /\ TickEnd(a)

Next == Main \/ Halted \/ TickService \/ \E a \in Ao : TickReturn(a) \/ Thread(a)

\* The tick keeps coming and is served, and the RTOS gives every thread its turns, in
\* which the thread gets something done: an instruction is short against a tick.
Fairness ==
  /\ WF_vars(Main) /\ SF_vars(TickService)
  /\ \A a \in Ao : SF_vars(Thread(a)) /\ SF_vars(TickReturn(a))

Spec == Init /\ [][Next]_vars /\ Fairness

-----------------------------------------------------------------------------
(* Properties.                                                             *)

TypeOK ==
  /\ time_events \in [1 .. MaxTimeEvents -> TimeEvent \cup {NULL}]
  /\ time_events_num \in 0 .. MaxTimeEvents
  /\ timeout \in [TimeEvent -> Nat] /\ period \in [TimeEvent -> Nat]
  /\ evt_queue \in [Ao -> Seq(Pushed)]
  /\ \A a \in Ao : Len(evt_queue[a]) <= QueueLen
  /\ pc \in [Ao -> {"created", "started", "loop", "handler", "saved", "timeout", "period", "restore"}]
  /\ evt \in [Ao -> Pushed \cup {PointerTo(INIT), NULL}]
  /\ call \in [Ao -> {NULL} \cup (TimeEvent \X (Arms \cup {<<0, 0>>}))]
  /\ running \in Ao /\ entry \in 0 .. time_events_num + 1 /\ halted \in {"no", "full", "null"}
  /\ enabled = {} /\ primask \in BOOLEAN /\ saved \in [Ao -> BOOLEAN]

\* A time event has expired exactly as often as its timeout, its period and the ticks
\* since it was armed say, and a stopped one not at all, although the tick comes between
\* any two steps of Arm and Stop (active_object.c:73-76, 81, 90-93). The one exception is
\* a timeout so short that it expires before Arm has written the period.
ExpiresOnTime ==
  halted = "no" /\ entry = 0 => \A e \in TimeEvent :
    LET h == since[e] IN
    h.ticks <= Horizon =>
      h.expired = IF h.timeout = 0 \/ h.ticks < h.timeout THEN 0
                  ELSE IF h.period = 0 THEN 1
                  ELSE 1 + (h.ticks - h.timeout) \div h.period

\* Every expiry of an armed time event makes the loop of its object call the handler
\* once more, unless the object calls Arm or Stop again or an assertion stops the
\* program. It says nothing of what the handler finds where evt points to.
ExpiryCallsHandler ==
  \A e \in TimeEvent :
    timeout[e] > 0 ~>
      \/ evt[requester[e]] = AddressOf(e)
      \/ call[requester[e]] # NULL /\ call[requester[e]][1] = e
      \/ halted # "no"

=============================================================================
