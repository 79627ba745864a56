----------------------------- MODULE Modelpoint -----------------------------
(***************************************************************************)
(* A model point of src/src/libs/data_model/modelpoint.c: a value, whether *)
(* it is valid and locked, the number of its updates and the callbacks of  *)
(* its subscribers, used without a critical section by a main loop and by  *)
(* an interrupt, which runs between any two steps of main and to its end.  *)
(*                                                                         *)
(* The value is one word, which memcpy moves in one access. A callback     *)
(* takes the value with Modelpoint_Get in one step, its own. Subscriptions *)
(* are made by main.                                                       *)
(***************************************************************************)
EXTENDS Naturals, Sequences

CONSTANTS
  Value,          \* the values of the point
  Subscriber,     \* the callbacks
  MP_MAX_SUBSCRIBERS,
  CountMod        \* stands for 2^32, the range of updateCount

VARIABLES
  mp,             \* the members of modelpoint_t
  ctx,            \* per context its program counter and local variables
  seen            \* history: the value each subscriber has seen last

vars == <<mp, ctx, seen>>

Idle == [pc |-> "idle"]

Runs(c) == c = "isr" \/ ctx["isr"] = Idle

At(c, l) == Runs(c) /\ ctx[c].pc = l

Goto(c, l) == ctx' = [ctx EXCEPT ![c] = l]

\* The value after Modelpoint_Init, valid or not, before any subscription.
Init ==
  /\ mp \in [data : Value, isValid : BOOLEAN, isLocked : {FALSE},
             updateCount : {0}, subscribers : {<<>>}]
  /\ ctx = [c \in {"main", "isr"} |-> Idle]
  /\ seen = [s \in Subscriber |-> mp.data]

\* Modelpoint_Set returns false if the point is locked.
SetTest(c, v) ==
  /\ At(c, "idle")
  /\ ~mp.isLocked
  /\ Goto(c, [pc |-> "copy", value |-> v])
  /\ UNCHANGED <<mp, seen>>

SetCopy(c) ==
  /\ At(c, "copy")
  /\ mp' = [mp EXCEPT !.data = ctx[c].value]
  /\ Goto(c, [pc |-> "load"])
  /\ UNCHANGED seen

\* mp->updateCount++, a load and a store.
SetLoad(c) ==
  /\ At(c, "load")
  /\ Goto(c, [pc |-> "store", count |-> mp.updateCount])
  /\ UNCHANGED <<mp, seen>>

SetStore(c) ==
  /\ At(c, "store")
  /\ mp' = [mp EXCEPT !.updateCount = (ctx[c].count + 1) % CountMod]
  /\ Goto(c, [pc |-> "valid"])
  /\ UNCHANGED seen

SetValid(c) ==
  /\ At(c, "valid")
  /\ mp' = [mp EXCEPT !.isValid = TRUE]
  /\ Goto(c, [pc |-> "touch", i |-> 1])
  /\ UNCHANGED seen

\* Modelpoint_Touch, called by its user.
TouchBegin(c) ==
  /\ At(c, "idle")
  /\ Goto(c, [pc |-> "touch", i |-> 1])
  /\ UNCHANGED <<mp, seen>>

\* One turn of the loop: the next callback, which gets the value.
TouchNext(c) ==
  /\ At(c, "touch")
  /\ ctx[c].i <= Len(mp.subscribers)
  /\ seen' = IF mp.isValid THEN [seen EXCEPT ![mp.subscribers[ctx[c].i]] = mp.data] ELSE seen
  /\ Goto(c, [pc |-> "touch", i |-> ctx[c].i + 1])
  /\ UNCHANGED mp

\* Mutant of TouchDone: the loop leaves the last subscriber out.
TouchDoneEarly(c) ==
  /\ At(c, "touch")
  /\ ctx[c].i >= Len(mp.subscribers)
  /\ Goto(c, Idle)
  /\ UNCHANGED <<mp, seen>>

TouchDone(c) ==
  /\ At(c, "touch")
  /\ ctx[c].i > Len(mp.subscribers)
  /\ Goto(c, Idle)
  /\ UNCHANGED <<mp, seen>>

Lock(c) ==
  /\ At(c, "idle")
  /\ mp' = [mp EXCEPT !.isLocked = TRUE]
  /\ UNCHANGED <<ctx, seen>>

Unlock(c) ==
  /\ At(c, "idle")
  /\ mp' = [mp EXCEPT !.isLocked = FALSE]
  /\ UNCHANGED <<ctx, seen>>

\* Modelpoint_UpdateCount_Get locks, reads and unlocks, whoever had locked.
CountLock(c) ==
  /\ At(c, "idle")
  /\ mp' = [mp EXCEPT !.isLocked = TRUE]
  /\ Goto(c, [pc |-> "count"])
  /\ UNCHANGED seen

CountUnlock(c) ==
  /\ At(c, "count")
  /\ mp' = [mp EXCEPT !.isLocked = FALSE]
  /\ Goto(c, Idle)
  /\ UNCHANGED seen

\* The store of subCount makes the callback stored before it visible. Its
\* owner knows the value that the point has then.
Subscribe(s) ==
  /\ At("main", "idle")
  /\ Len(mp.subscribers) < MP_MAX_SUBSCRIBERS
  /\ mp' = [mp EXCEPT !.subscribers = Append(@, s)]
  /\ seen' = [seen EXCEPT ![s] = mp.data]
  /\ UNCHANGED ctx

Set(c) ==
  \/ \E v \in Value : SetTest(c, v)
  \/ SetCopy(c) \/ SetLoad(c) \/ SetStore(c) \/ SetValid(c)

Touch(c) == TouchBegin(c) \/ TouchNext(c) \/ TouchDone(c)

Next ==
  \/ \E c \in {"main", "isr"} :
       Set(c) \/ Touch(c) \/ Lock(c) \/ Unlock(c) \/ CountLock(c) \/ CountUnlock(c)
  \/ \E s \in Subscriber : Subscribe(s)

(***************************************************************************)
(* When no call is under way, every subscriber has been called since the   *)
(* value last changed: the last call that it got found the value the point *)
(* has, whichever calls of Modelpoint_Set ran into each other.             *)
(***************************************************************************)
SubscribersInformed ==
  (\A c \in {"main", "isr"} : ctx[c] = Idle) =>
    \A i \in DOMAIN mp.subscribers : seen[mp.subscribers[i]] = mp.data

=============================================================================
