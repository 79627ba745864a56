-------------------------------- MODULE Hsm --------------------------------
(***************************************************************************)
(* The hierarchical state machine of src/src/libs/state_machine/hsm.c: one *)
(* instance, driven by one context (the library is not re-entrant).        *)
(*                                                                         *)
(* One step is one call of a state handler or one iteration of a loop. The *)
(* handlers are user code: they answer anything the README allows them to  *)
(* (lines 132-146), no transition out of ENTRY or EXIT and, out of INIT,   *)
(* one to a descendant.                                                    *)
(*                                                                         *)
(* active is a history variable, the states that were entered and not      *)
(* exited since, in the order of their entries. No guard reads it.         *)
(***************************************************************************)
EXTENDS Naturals, FiniteSets, SequencesExt

CONSTANTS
  States,      \* the states, hsm_top_state among them
  Top,         \* hsm_top_state
  NoState,     \* NULL
  Parent,      \* the parent of each state
  Targets,     \* the states that handlers of user signals ask transitions to
  MaxDepth,    \* HSM_MAX_DEPTH
  Assertions   \* FALSE in a build with NO_ASSERTIONS

\* a is reached from s by following parents: every set that holds s and is
\* closed under parents holds a.
IsAncestor(a, s) ==
  \A S \in SUBSET States :
    s \in S /\ (\A x \in S : x # Top => Parent[x] \in S) => a \in S

\* "All state machines must have the top state as their ultimate ancestor"
\* (hsm.h, line 94).
ASSUME HierarchyAssumption ==
  /\ Top \in States /\ NoState \notin States
  /\ Parent \in [States -> States \cup {NoState}]
  /\ \A s \in States : Parent[s] = NoState <=> s = Top
  /\ \A s \in States : IsAncestor(Top, s)
  /\ Targets \subseteq States
  /\ MaxDepth \in Nat \ {0}
  /\ Assertions \in BOOLEAN

Ancestors == [s \in States |-> {a \in States : IsAncestor(a, s)}]

Descendants == [s \in States |-> {t \in States \ {s} : s \in Ancestors[t]}]

VARIABLES
  pc,          \* where the context is; "idle": in no call, "off": before Hsm_Init
  call,        \* what the states are entered for: "boot", "tran" or "nested"
  curr,        \* curr_state
  dest,        \* pInitial_state of Hsm_Init, then target_state
  cursor,      \* the state whose handler is next, in Hsm_Dispatch and Exit_Up_To
  src, tgt,    \* the two tentative ancestors of Find_Lca
  lca,         \* its result: the ancestor that Exit_Up_To and Enter_Down_To stop at
  list,        \* the ancestors Enter_Down_To has not entered yet, outermost last
  active       \* history: the active states

vars == <<pc, call, curr, dest, cursor, src, tgt, lca, list, active>>

Init ==
  /\ pc = "off" /\ call = "boot"
  /\ curr = NoState /\ dest = NoState /\ cursor = NoState
  /\ src = NoState /\ tgt = NoState /\ lca = NoState
  /\ list = <<>> /\ active = <<>>

-----------------------------------------------------------------------------
(* Find_Lca.                                                               *)

StartLca(source, target) ==
  pc' = "lca" /\ src' = source /\ tgt' = target

\* The assertion of line 300 is about the source, not about the target.
ClimbTarget ==
  /\ pc = "lca" /\ src # tgt /\ tgt # Top
  /\ IF Assertions /\ Parent[src] = NoState
     THEN pc' = "asserted" /\ tgt' = tgt
     ELSE pc' = pc /\ tgt' = Parent[tgt]
  /\ UNCHANGED <<call, curr, dest, cursor, src, lca, list, active>>

\* Mutant of ClimbSource: the source is not climbed.
ClimbSourceNot ==
  /\ pc = "lca" /\ src # tgt /\ tgt = Top
  /\ tgt' = IF call = "boot" THEN Top ELSE dest
  /\ UNCHANGED <<pc, call, curr, dest, cursor, src, lca, list, active>>

\* Mutant of ClimbSource: the search from the target is not started again.
ClimbSourceOnly ==
  /\ pc = "lca" /\ src # tgt /\ tgt = Top
  /\ src' = Parent[src]
  /\ UNCHANGED <<pc, call, curr, dest, cursor, tgt, lca, list, active>>

\* The whole ancestry of the target was searched for src in vain.
ClimbSource ==
  /\ pc = "lca" /\ src # tgt /\ tgt = Top
  /\ src' = Parent[src]
  /\ tgt' = IF call = "boot" THEN Top ELSE dest
  /\ UNCHANGED <<pc, call, curr, dest, cursor, lca, list, active>>

-----------------------------------------------------------------------------
(* Build_Ancestor_List and Enter_Down_To.                                  *)

StartBuild(target, ancestor) ==
  /\ pc' = "build"
  /\ lca' = ancestor
  /\ list' = IF target = ancestor THEN <<>> ELSE <<target>>

ListComplete == list # <<>> => Parent[Last(list)] = lca \/ Len(list) >= MaxDepth

BuildNext ==
  /\ pc = "build" /\ ~ListComplete
  /\ list' = Append(list, Parent[Last(list)])
  /\ UNCHANGED <<pc, call, curr, dest, cursor, src, tgt, lca, active>>

BuildDone ==
  /\ pc = "build" /\ ListComplete
  /\ pc' = "enter"
  /\ UNCHANGED <<call, curr, dest, cursor, src, tgt, lca, list, active>>

\* Mutant of Enter: the innermost state is entered first.
EnterInnermost ==
  /\ pc = "enter" /\ list # <<>>
  /\ active' = Append(active, Head(list))
  /\ list' = Tail(list)
  /\ UNCHANGED <<pc, call, curr, dest, cursor, src, tgt, lca>>

\* HSM_SIG_ENTRY to the outermost state of the list.
Enter ==
  /\ pc = "enter" /\ list # <<>>
  /\ active' = Append(active, Last(list))
  /\ list' = Front(list)
  /\ UNCHANGED <<pc, call, curr, dest, cursor, src, tgt, lca>>

\* Mutant of Entered: curr_state stays behind after a nested initial transition.
EnteredNotNested ==
  /\ pc = "enter" /\ list = <<>>
  /\ curr' = IF call = "nested" THEN curr ELSE dest
  /\ pc' = IF call = "boot" THEN "first" ELSE "init"
  /\ UNCHANGED <<call, dest, cursor, src, tgt, lca, list, active>>

\* The current state moves on; the INIT signal is next.
Entered ==
  /\ pc = "enter" /\ list = <<>>
  /\ curr' = dest
  /\ pc' = IF call = "boot" THEN "first" ELSE "init"
  /\ UNCHANGED <<call, dest, cursor, src, tgt, lca, list, active>>

-----------------------------------------------------------------------------
(* Exit_Up_To.                                                             *)

\* HSM_SIG_EXIT to the cursor.
Exit ==
  /\ pc = "exit" /\ cursor \notin {NoState, lca}
  /\ active' = RemoveFirst(active, cursor)
  /\ cursor' = Parent[cursor]
  /\ UNCHANGED <<pc, call, curr, dest, src, tgt, lca, list>>

ExitDone ==
  /\ pc = "exit" /\ cursor \in {NoState, lca}
  /\ StartBuild(dest, lca)
  /\ UNCHANGED <<call, curr, dest, cursor, src, tgt, active>>

-----------------------------------------------------------------------------
(* Hsm_Dispatch.                                                           *)

\* A handler returned HSM_STATUS_TRAN for target t (Hsm_Transition). A
\* transition to the current state exits and enters it.
Transition(t) ==
  /\ dest' = t /\ call' = "tran"
  /\ IF t = curr
     THEN pc' = "exit" /\ lca' = Parent[curr] /\ cursor' = curr /\ UNCHANGED <<src, tgt>>
     ELSE StartLca(curr, t) /\ UNCHANGED <<lca, cursor>>
  /\ UNCHANGED <<curr, list, active>>

\* A user signal arrives.
Dispatch ==
  /\ pc = "idle"
  /\ pc' = "handle" /\ cursor' = curr
  /\ UNCHANGED <<call, curr, dest, src, tgt, lca, list, active>>

\* Top_Handler takes every event and handles none. The other handlers are the user's.
Ignores(s) == s = Top

\* The handler takes the event; top sinks all events.
HandlerHandles ==
  /\ pc = "handle"
  /\ pc' = "idle"
  /\ UNCHANGED <<call, curr, dest, cursor, src, tgt, lca, list, active>>

\* Mutant of HandlerPasses: top passes the event on as well.
HandlerPassesTop ==
  /\ pc = "handle"
  /\ cursor' = Parent[cursor]
  /\ UNCHANGED <<pc, call, curr, dest, src, tgt, lca, list, active>>

\* HSM_STATUS_UNHANDLED: the parent is tried.
HandlerPasses ==
  /\ pc = "handle" /\ ~Ignores(cursor)
  /\ cursor' = Parent[cursor]
  /\ UNCHANGED <<pc, call, curr, dest, src, tgt, lca, list, active>>

HandlerTransits ==
  /\ pc = "handle" /\ ~Ignores(cursor)
  /\ \E t \in Targets : Transition(t)

\* The INIT handler does nothing. That of top returns HSM_STATUS_IGNORED, which
\* the assertions of lines 103 and 142 do not allow.
InitDone ==
  /\ pc \in {"first", "init"}
  /\ pc' = IF Assertions /\ Ignores(curr) THEN "asserted" ELSE "idle"
  /\ UNCHANGED <<call, curr, dest, cursor, src, tgt, lca, list, active>>

\* The INIT signal of Hsm_Init goes through Hsm_Dispatch as any other.
InitTransits ==
  /\ pc = "first" /\ ~Ignores(curr)
  /\ \E t \in Descendants[curr] : Transition(t)

\* After a transition it is handled in a loop of its own.
InitNests ==
  /\ pc = "init" /\ ~Ignores(curr)
  /\ \E t \in Descendants[curr] :
       /\ dest' = t /\ call' = "nested"
       /\ IF Assertions
          THEN StartLca(curr, t) /\ UNCHANGED <<lca, list>>
          ELSE StartBuild(t, curr) /\ UNCHANGED <<src, tgt>>
  /\ UNCHANGED <<curr, cursor, active>>

-----------------------------------------------------------------------------
\* Hsm_Init.
HsmInit(s) ==
  /\ pc = "off"
  /\ dest' = s /\ call' = "boot"
  /\ IF Assertions
     THEN StartLca(s, Top) /\ UNCHANGED <<lca, list>>
     ELSE StartBuild(s, NoState) /\ UNCHANGED <<src, tgt>>
  /\ UNCHANGED <<curr, cursor, active>>

\* Find_Lca returns, to Hsm_Init, to a transition or to the assertion on a
\* nested initial transition.
FoundLca ==
  /\ pc = "lca" /\ src = tgt
  /\ CASE call = "boot" ->
            /\ IF src = Top THEN StartBuild(dest, NoState)
               ELSE pc' = "asserted" /\ UNCHANGED <<lca, list>>
            /\ UNCHANGED cursor
       [] call = "tran" ->
            pc' = "exit" /\ lca' = src /\ cursor' = curr /\ UNCHANGED list
       [] call = "nested" ->
            /\ IF src = curr THEN StartBuild(dest, curr)
               ELSE pc' = "asserted" /\ UNCHANGED <<lca, list>>
            /\ UNCHANGED cursor
  /\ UNCHANGED <<call, curr, dest, src, tgt, active>>

\* Everything but the arrival of events.
Proceed ==
  \/ ClimbTarget \/ ClimbSource \/ FoundLca
  \/ BuildNext \/ BuildDone \/ Enter \/ Entered
  \/ Exit \/ ExitDone
  \/ HandlerHandles \/ HandlerPasses \/ HandlerTransits
  \/ InitDone \/ InitTransits \/ InitNests

Next ==
  \/ \E s \in States \ {Top} : HsmInit(s)
  \/ Dispatch
  \/ Proceed

\* A call that was made goes on: it is one thread of plain loops.
Spec == Init /\ [][Next]_vars /\ WF_vars(Proceed)

-----------------------------------------------------------------------------
(* Properties.                                                             *)

Pcs == {"off", "idle", "handle", "lca", "exit", "build", "enter", "first", "init", "asserted"}

TypeOK ==
  /\ pc \in Pcs
  /\ call \in {"boot", "tran", "nested"}
  /\ {curr, dest, cursor, src, tgt, lca} \subseteq States \cup {NoState}
  /\ pc \in {"idle", "handle", "first", "init"} => curr \in States
  /\ pc = "handle" => cursor \in States
  /\ pc = "lca" => src \in States /\ tgt \in States
  /\ list \in Seq(States) /\ Len(list) <= MaxDepth
  /\ active \in Seq(States)

\* At every moment the active states lead from top inwards, each the parent of
\* the next: no state is entered before its parent or exited before its active
\* child, none is entered twice (Exit_Up_To, Enter_Down_To).
ActiveIsPath ==
  \A i \in DOMAIN active :
    Parent[active[i]] = IF i = 1 THEN NoState ELSE active[i - 1]

\* Between two signals, and when a handler is given one, the active states are
\* the current state and all its ancestors, so that curr_state says it all
\* (Hsm_Dispatch lines 130-156).
CurrIsInnermost ==
  pc \in {"idle", "handle", "first", "init"} => active # <<>> /\ Last(active) = curr

\* A signal is only given to the handler of an active state.
HandlersAreActive ==
  /\ pc = "handle" => cursor \in ToSet(active)
  /\ pc = "exit" /\ cursor \notin {NoState, lca} => cursor \in ToSet(active)

\* A transition disturbs no more than it must: what is an ancestor of both ends
\* stays active throughout ("least common ancestor", Find_Lca).
CommonAncestorsStay ==
  call = "tran" /\ pc \in {"exit", "build", "enter"} /\ curr # dest =>
    Ancestors[curr] \cap Ancestors[dest] \subseteq ToSet(active)

\* Every signal is done with, however far it bubbles and whatever chain of
\* transitions it sets off.
SignalsEnd == pc = "handle" ~> pc = "idle"

-----------------------------------------------------------------------------
(* Claims of the sources that the code does not keep.                      *)

\* "Transitions between any two states" (README.md, line 11), "will always at
\* least find top in common" (hsm.c, line 287): handlers that keep the rules
\* never run into an assertion.
NeverAsserts == pc # "asserted"

=============================================================================
