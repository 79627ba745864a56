----------------------------- MODULE HsmProofs -----------------------------
(***************************************************************************)
(* Proofs about the hierarchical state machine, for every hierarchy that   *)
(* is no deeper than HSM_MAX_DEPTH and whatever its handlers answer: what  *)
(* is active, what curr_state is, and what a transition leaves alone.      *)
(*                                                                         *)
(* The properties follow from where the path of active states ends: at     *)
(* curr_state between two signals, at the cursor during the exits, at the  *)
(* common ancestor before the entries and at the parent of the next state  *)
(* of the list during them. ListInv says that the list leads there.        *)
(***************************************************************************)
EXTENDS Hsm, SequenceTheorems, FiniteSetTheorems, TLAPS

-----------------------------------------------------------------------------
(* Ancestry. What holds of all ancestors of a state is shown by a set that *)
(* holds the state and is closed under parents: no induction is needed.    *)

LEMMA ParentType ==
  ASSUME NEW s \in States, s # Top
  PROVE  Parent[s] \in States
  BY HierarchyAssumption

LEMMA AncestorsType ==
  ASSUME NEW s \in States
  PROVE  Ancestors[s] = {a \in States : IsAncestor(a, s)}
  BY DEF Ancestors

LEMMA SelfAncestor ==
  ASSUME NEW s \in States
  PROVE  s \in Ancestors[s]
  BY AncestorsType DEF IsAncestor

\* The proper ancestors of a state are the ancestors of its parent.
LEMMA ParentAncestors ==
  ASSUME NEW s \in States, s # Top, NEW a \in States
  PROVE  /\ a \in Ancestors[Parent[s]] => a \in Ancestors[s]
         /\ a \in Ancestors[s] /\ a # s => a \in Ancestors[Parent[s]]
<1>1. Parent[s] \in States
  BY ParentType
<1>2. ASSUME IsAncestor(a, Parent[s]) PROVE IsAncestor(a, s)
  BY <1>2 DEF IsAncestor
<1>3. ASSUME IsAncestor(a, s), a # s PROVE IsAncestor(a, Parent[s])
  <2> SUFFICES ASSUME NEW S \in SUBSET States, Parent[s] \in S,
                      \A x \in S : x # Top => Parent[x] \in S
               PROVE  a \in S
    BY DEF IsAncestor
  <2> DEFINE T == S \cup {s}
  <2>1. T \in SUBSET States /\ s \in T /\ \A x \in T : x # Top => Parent[x] \in T
    OBVIOUS
  <2>2. a \in T
    BY <1>3, <2>1 DEF IsAncestor
  <2> QED
    BY <1>3, <2>2
<1> QED
  BY <1>1, <1>2, <1>3, AncestorsType

LEMMA TopAncestors == Ancestors[Top] = {Top}
<1>1. Top \in States
  BY HierarchyAssumption
<1>2. ASSUME NEW a \in States, IsAncestor(a, Top) PROVE a = Top
  <2>1. {Top} \in SUBSET States
    BY <1>1
  <2> QED
    BY <1>2, <2>1 DEF IsAncestor
<1> QED
  BY <1>1, <1>2, AncestorsType, SelfAncestor

LEMMA AncestorsTransitive ==
  ASSUME NEW s \in States, NEW b \in Ancestors[s], NEW a \in Ancestors[b]
  PROVE  a \in Ancestors[s]
<1>1. b \in States /\ IsAncestor(b, s)
  BY AncestorsType
<1>2. a \in States /\ IsAncestor(a, b)
  BY <1>1, AncestorsType
<1>3. IsAncestor(a, s)
  BY <1>1, <1>2 DEF IsAncestor
<1> QED
  BY <1>2, <1>3, AncestorsType

LEMMA TopIsAncestor ==
  ASSUME NEW s \in States
  PROVE  Top \in Ancestors[s]
  BY HierarchyAssumption, AncestorsType

\* No state is an ancestor of its parent.
LEMMA NoCycle ==
  ASSUME NEW s \in States, s # Top
  PROVE  s \notin Ancestors[Parent[s]]
<1> SUFFICES ASSUME s \in Ancestors[Parent[s]] PROVE FALSE
  OBVIOUS
<1> DEFINE S == {x \in States : s \in Ancestors[x]}
<1>1. s \in S
  BY SelfAncestor
<1>2. ASSUME NEW x \in S, x # Top PROVE Parent[x] \in S
  BY <1>2, ParentType, ParentAncestors
<1>3. IsAncestor(Top, s)
  BY HierarchyAssumption
<1>4. Top \in S
  <2> HIDE DEF S
  <2>1. S \in SUBSET States
    BY DEF S
  <2> QED
    BY <1>1, <1>2, <1>3, <2>1 DEF IsAncestor
<1> QED
  BY <1>4, TopAncestors

-----------------------------------------------------------------------------
(* Depth.                                                                  *)

\* A hierarchy no deeper than HSM_MAX_DEPTH.
Shallow ==
  \A s \in States : IsFiniteSet(Ancestors[s]) /\ Cardinality(Ancestors[s]) <= MaxDepth

Depth(s) == Cardinality(Ancestors[s])

LEMMA DepthOfParent ==
  ASSUME Shallow, NEW s \in States
  PROVE  /\ Depth(s) \in Nat /\ Depth(s) <= MaxDepth
         /\ s = Top => Depth(s) = 1
         /\ s # Top => Depth(s) = Depth(Parent[s]) + 1
<1>1. Depth(s) \in Nat /\ Depth(s) <= MaxDepth
  BY FS_CardinalityType DEF Shallow, Depth
<1>2. s = Top => Depth(s) = 1
  BY TopAncestors, FS_Singleton DEF Depth
<1>3. ASSUME s # Top PROVE Depth(s) = Depth(Parent[s]) + 1
  <2> DEFINE A == Ancestors[Parent[s]]
  <2>1. Parent[s] \in States /\ s \notin A
    BY <1>3, ParentType, NoCycle
  <2>2. Ancestors[s] = A \cup {s}
    BY <1>3, <2>1, ParentAncestors, SelfAncestor, AncestorsType
  <2>3. IsFiniteSet(A)
    BY <2>1 DEF Shallow
  <2> HIDE DEF A
  <2>4. Cardinality(A \cup {s}) = Cardinality(A) + 1
    BY <2>1, <2>3, FS_AddElement
  <2> QED
    BY <2>2, <2>4 DEF Depth, A
<1> QED
  BY <1>1, <1>2, <1>3

\* Ancestors are less deep, and only top has depth 1.
LEMMA DepthOfAncestor ==
  ASSUME Shallow, NEW s \in States, NEW a \in Ancestors[s]
  PROVE  /\ a \in States /\ Depth(a) >= 1
         /\ a # s => Depth(a) < Depth(s)
<1> DEFINE S == {x \in States : x = s \/ Depth(x) < Depth(s)}
<1>1. a \in States /\ IsAncestor(a, s)
  BY AncestorsType
<1>2. ASSUME NEW x \in S, x # Top PROVE Parent[x] \in S
  BY <1>2, ParentType, DepthOfParent
<1>3. a \in S
  <2> HIDE DEF S
  <2>1. S \in SUBSET States /\ s \in S
    BY DEF S
  <2> QED
    BY <1>1, <1>2, <2>1 DEF IsAncestor
<1>4. Depth(a) >= 1
  BY <1>1, DepthOfParent, ParentType
<1> QED
  BY <1>1, <1>3, <1>4

-----------------------------------------------------------------------------
(* The invariant.                                                          *)

\* The active state that was entered last.
Innermost == IF active = <<>> THEN NoState ELSE Last(active)

\* The active states form a path, in which the place of a state is its depth.
PathInv ==
  /\ ActiveIsPath
  /\ \A i \in DOMAIN active : Depth(active[i]) = i

\* Where the active states end, and what the cursor and lca are to it.
WhereInv ==
  /\ pc = "off" => active = <<>>
  /\ pc \in {"idle", "handle", "first", "init"} => curr \in States /\ Innermost = curr
  /\ pc = "handle" => cursor \in Ancestors[curr]
  /\ pc = "lca" =>
       /\ src \in States /\ tgt \in States /\ dest \in States
       /\ call = "boot" => active = <<>> /\ tgt = Top
       /\ call # "boot" => /\ curr \in States /\ Innermost = curr
                           /\ src \in Ancestors[curr] /\ tgt \in Ancestors[dest]
       /\ call = "nested" => dest \in Descendants[curr]
  /\ pc = "exit" =>
       /\ dest \in States /\ cursor \in States /\ Innermost = cursor
       /\ lca \in Ancestors[cursor] /\ lca \in Ancestors[dest]

\* The list leads from the target of a transition outwards, to where the active
\* states end.
ListInv ==
  /\ pc \in {"build", "enter"} =>
       /\ dest \in States
       /\ list # <<>> => list[1] = dest
       /\ \A i \in 1 .. Len(list) - 1 : list[i] # Top /\ list[i + 1] = Parent[list[i]]
       /\ list = <<>> => Innermost = dest
  /\ pc = "build" =>
       /\ Innermost = lca
       /\ list # <<>> =>
            /\ lca = NoState \/ (lca \in Ancestors[Last(list)] /\ lca # Last(list))
            /\ Len(list) + Depth(Last(list)) = Depth(dest) + 1
  /\ pc = "enter" /\ list # <<>> => Parent[Last(list)] = Innermost

\* What both ends of a transition have in common is found, and then left alone.
CommonInv ==
  call = "tran" /\ curr # dest =>
    /\ pc = "lca" =>
         /\ Ancestors[curr] \cap Ancestors[dest] \subseteq Ancestors[src]
         /\ src \in Ancestors[dest] => src \in Ancestors[tgt]
    /\ pc = "exit" => Ancestors[curr] \cap Ancestors[dest] \subseteq Ancestors[lca]
    /\ pc \in {"build", "enter"} =>
         Ancestors[curr] \cap Ancestors[dest] \subseteq ToSet(active)

HsmInv == TypeOK /\ PathInv /\ WhereInv /\ ListInv /\ CommonInv

-----------------------------------------------------------------------------
(* Sequences.                                                              *)

\* A state more at the end.
LEMMA AppendState ==
  ASSUME NEW s \in Seq(States), NEW x \in States
  PROVE  /\ Append(s, x) \in Seq(States) /\ Append(s, x) # <<>>
         /\ Len(Append(s, x)) = Len(s) + 1
         /\ Last(Append(s, x)) = x
         /\ Append(s, x)[Len(s) + 1] = x
         /\ \A i \in 1 .. Len(s) : Append(s, x)[i] = s[i]
         /\ ToSet(s) \subseteq ToSet(Append(s, x))
<1>1. /\ Append(s, x) \in Seq(States) /\ Append(s, x) # <<>>
      /\ Len(Append(s, x)) = Len(s) + 1
      /\ Append(s, x)[Len(s) + 1] = x
      /\ \A i \in 1 .. Len(s) : Append(s, x)[i] = s[i]
  OBVIOUS
<1> QED
  BY <1>1 DEF Last, ToSet

\* The first m states of a sequence.
LEMMA PrefixStates ==
  ASSUME NEW s \in Seq(States), NEW m \in Nat, m <= Len(s)
  PROVE  /\ SubSeq(s, 1, m) \in Seq(States)
         /\ Len(SubSeq(s, 1, m)) = m
         /\ \A i \in 1 .. m : SubSeq(s, 1, m)[i] = s[i]
  OBVIOUS

\* The last state of a sequence, and the states before it.
LEMMA FrontStates ==
  ASSUME NEW s \in Seq(States), s # <<>>
  PROVE  /\ Len(s) \in Nat \ {0} /\ Last(s) \in States /\ Last(s) = s[Len(s)]
         /\ Front(s) \in Seq(States) /\ Len(Front(s)) = Len(s) - 1
         /\ \A i \in 1 .. Len(s) - 1 : Front(s)[i] = s[i]
         /\ Front(s) # <<>> => Len(s) > 1 /\ Last(Front(s)) = s[Len(s) - 1]
         /\ Front(s) = <<>> => Len(s) = 1
<1>1. Len(s) \in Nat \ {0} /\ Last(s) \in States /\ Last(s) = s[Len(s)]
  BY DEF Last
<1>2. Len(s) - 1 \in Nat /\ Len(s) - 1 <= Len(s)
  BY <1>1
<1>3. /\ Front(s) \in Seq(States) /\ Len(Front(s)) = Len(s) - 1
      /\ \A i \in 1 .. Len(s) - 1 : Front(s)[i] = s[i]
  BY <1>2, PrefixStates, Zenon DEF Front
<1>4. /\ Front(s) # <<>> => Len(Front(s)) >= 1
      /\ Front(s) = <<>> => Len(Front(s)) = 0
  BY <1>3
<1>5. Front(s) # <<>> => Len(s) > 1 /\ Last(Front(s)) = s[Len(s) - 1]
  BY <1>1, <1>3, <1>4 DEF Last
<1>6. Front(s) = <<>> => Len(s) = 1
  BY <1>1, <1>3, <1>4
<1> QED
  BY <1>1, <1>3, <1>5, <1>6

\* Leaving the innermost active state.
LEMMA RemoveInnermost ==
  ASSUME NEW s \in Seq(States), s # <<>>,
         \A i \in 1 .. Len(s) - 1 : s[i] # Last(s)
  PROVE  RemoveFirst(s, Last(s)) = Front(s)
<1> DEFINE I == {i \in 1 .. Len(s) : s[i] = Last(s)}
           n == Len(s)
<1>1. n \in Nat \ {0} /\ Last(s) = s[n]
  BY FrontStates
<1>2. I = {n}
  BY <1>1
<1>3. SelectInSeq(s, LAMBDA v : v = Last(s)) = n
  <2>1. Min({n}) = n
    BY <1>1 DEF Min
  <2> QED
    BY <1>2, <2>1 DEF SelectInSeq
<1>4. RemoveFirst(s, Last(s)) = SubSeq(s, 1, n - 1) \o SubSeq(s, n + 1, n)
  <2>1. \E i \in 1 .. Len(s) : s[i] = Last(s)
    BY <1>1
  <2> QED
    BY <1>3, <2>1, Zenon DEF RemoveFirst, RemoveAt
<1>5. SubSeq(s, n + 1, n) = <<>> /\ SubSeq(s, 1, n - 1) \in Seq(States)
  BY <1>1
<1> QED
  BY <1>4, <1>5, ConcatEmptySeq DEF Front

-----------------------------------------------------------------------------
(* The path of active states.                                              *)

\* All ancestors of an active state are active.
LEMMA ActiveAncestors ==
  ASSUME TypeOK, ActiveIsPath, active # <<>>
  PROVE  Ancestors[Last(active)] \subseteq ToSet(active)
<1> DEFINE S == ToSet(active)
<1>1. /\ S \in SUBSET States /\ Last(active) \in S /\ Last(active) \in States
      /\ \A x \in S : \E i \in 1 .. Len(active) : x = active[i]
      /\ \A i \in 1 .. Len(active) : active[i] \in S
  BY FrontStates DEF TypeOK, ToSet
<1>2. ASSUME NEW x \in S, x # Top PROVE Parent[x] \in S
  <2>1. PICK i \in 1 .. Len(active) : x = active[i]
    BY <1>1
  <2>2. Parent[x] # NoState
    BY <1>1, <1>2, HierarchyAssumption
  <2>3. i # 1 /\ Parent[x] = active[i - 1] /\ i - 1 \in 1 .. Len(active)
    BY <2>1, <2>2 DEF ActiveIsPath, TypeOK
  <2> QED
    BY <1>1, <2>3
<1> HIDE DEF S
<1>3. ASSUME NEW a \in Ancestors[Last(active)] PROVE a \in S
  <2>1. IsAncestor(a, Last(active))
    BY <1>1, <1>3, AncestorsType
  <2> QED
    BY <1>1, <1>2, <2>1 DEF IsAncestor
<1> QED
  BY <1>3 DEF S

\* A child of the innermost state is entered.
LEMMA EnterPath ==
  ASSUME Shallow, TypeOK, PathInv, NEW x \in States,
         Parent[x] = Innermost, active' = Append(active, x)
  PROVE  /\ PathInv' /\ Innermost' = x /\ active' \in Seq(States)
         /\ ToSet(active) \subseteq ToSet(active')
<1>1. active \in Seq(States) /\ Len(active) \in Nat
  BY DEF TypeOK
<1>2. /\ active' \in Seq(States) /\ active' # <<>> /\ Len(active') = Len(active) + 1
      /\ Last(active') = x /\ active'[Len(active) + 1] = x
      /\ \A i \in 1 .. Len(active) : active'[i] = active[i]
      /\ ToSet(active) \subseteq ToSet(active')
  BY <1>1, AppendState
<1>3. CASE active = <<>>
  <2>1. x = Top /\ Depth(x) = 1
    BY <1>3, HierarchyAssumption, DepthOfParent DEF Innermost
  <2>2. Parent[x] = NoState
    BY <1>3 DEF Innermost
  <2>3. Len(active') = 1 /\ active'[1] = x
    BY <1>2, <1>3
  <2>4. PathInv'
    BY <1>2, <2>1, <2>2, <2>3 DEF PathInv, ActiveIsPath
  <2> QED
    BY <1>2, <2>4 DEF Innermost
<1>4. CASE active # <<>>
  <2>1. /\ Parent[x] = active[Len(active)] /\ Len(active) >= 1
        /\ active[Len(active)] \in States
    BY <1>1, <1>4, FrontStates DEF Innermost
  <2>2. x # Top
    BY <2>1, HierarchyAssumption
  <2>3. Depth(active[Len(active)]) = Len(active)
    BY <1>1, <2>1 DEF PathInv
  <2>4. Depth(x) = Len(active) + 1
    BY <2>1, <2>2, <2>3, DepthOfParent
  <2>5. ActiveIsPath'
    <3> SUFFICES ASSUME NEW i \in 1 .. Len(active) + 1
                 PROVE  Parent[active'[i]] = IF i = 1 THEN NoState ELSE active'[i - 1]
      BY <1>2 DEF ActiveIsPath
    <3>1. CASE i = Len(active) + 1
      BY <1>1, <1>2, <2>1, <3>1
    <3>2. CASE i # Len(active) + 1
      <4>1. i \in 1 .. Len(active) /\ (i # 1 => i - 1 \in 1 .. Len(active))
        BY <1>1, <3>2
      <4> QED
        BY <1>1, <1>2, <4>1 DEF PathInv, ActiveIsPath
    <3> QED
      BY <3>1, <3>2
  <2>6. ASSUME NEW i \in 1 .. Len(active) + 1 PROVE Depth(active'[i]) = i
    <3>1. CASE i = Len(active) + 1
      BY <1>2, <2>4, <3>1
    <3>2. CASE i # Len(active) + 1
      <4>1. i \in 1 .. Len(active)
        BY <1>1, <3>2
      <4> QED
        BY <1>1, <1>2, <4>1 DEF PathInv
    <3> QED
      BY <3>1, <3>2
  <2> QED
    BY <1>2, <2>5, <2>6 DEF PathInv, Innermost
<1> QED
  BY <1>3, <1>4

\* The innermost state is left: its parent is the innermost then.
LEMMA ExitPath ==
  ASSUME TypeOK, PathInv, active # <<>>, active' = RemoveFirst(active, Last(active))
  PROVE  PathInv' /\ Innermost' = Parent[Last(active)] /\ active' \in Seq(States)
<1> DEFINE n == Len(active)
<1>1. active \in Seq(States) /\ n \in Nat \ {0} /\ Last(active) = active[n]
  BY FrontStates DEF TypeOK
<1>2. \A i \in 1 .. n : /\ Depth(active[i]) = i
                        /\ Parent[active[i]] = IF i = 1 THEN NoState ELSE active[i - 1]
  BY <1>1 DEF PathInv, ActiveIsPath
<1>3. ASSUME NEW i \in 1 .. n - 1 PROVE active[i] # Last(active)
  <2>1. i \in 1 .. n /\ n \in 1 .. n /\ i # n
    BY <1>1
  <2> QED
    BY <1>1, <1>2, <2>1
<1>4. active' = Front(active)
  BY <1>1, <1>3, RemoveInnermost
<1>5. /\ active' \in Seq(States) /\ Len(active') = n - 1
      /\ \A i \in 1 .. n - 1 : active'[i] = active[i]
      /\ active' # <<>> => n > 1 /\ Last(active') = active[n - 1]
      /\ active' = <<>> => n = 1
  BY <1>1, <1>4, FrontStates
<1>6. \A i \in 1 .. n - 1 : i \in 1 .. n /\ (i # 1 => i - 1 \in 1 .. n - 1)
  BY <1>1
<1>7. ASSUME NEW i \in 1 .. n - 1
      PROVE  /\ Depth(active'[i]) = i
             /\ Parent[active'[i]] = IF i = 1 THEN NoState ELSE active'[i - 1]
  BY <1>2, <1>5, <1>6
<1>8. PathInv'
  <2>1. DOMAIN active' = 1 .. n - 1
    BY <1>5
  <2> QED
    BY <1>7, <2>1 DEF PathInv, ActiveIsPath
<1>9. Parent[active[n]] = IF n = 1 THEN NoState ELSE active[n - 1]
  <2>1. n \in 1 .. n
    BY <1>1
  <2> QED
    BY <1>2, <2>1
<1> QED
  BY <1>1, <1>5, <1>8, <1>9 DEF Innermost

-----------------------------------------------------------------------------
(* The steps.                                                              *)

LEMMA InitHsm == Init => HsmInv
<1> SUFFICES ASSUME Init PROVE HsmInv
  OBVIOUS
<1> USE HierarchyAssumption DEF Init
<1>1. TypeOK
  BY DEF TypeOK, Pcs
<1>2. PathInv /\ WhereInv /\ ListInv /\ CommonInv
  BY DEF PathInv, ActiveIsPath, WhereInv, ListInv, CommonInv
<1> QED
  BY <1>1, <1>2 DEF HsmInv

\* The list is begun where the active states end.
LEMMA BuildStarts ==
  ASSUME Shallow, PathInv, NEW t \in States,
         StartBuild(t, Innermost), dest' = t, active' = active,
         Innermost = NoState \/ Innermost \in Ancestors[t]
  PROVE  PathInv' /\ ListInv' /\ WhereInv' /\ list' \in Seq(States) /\ Len(list') <= MaxDepth
<1>1. PathInv' /\ Innermost' = Innermost /\ pc' = "build" /\ lca' = Innermost
  BY DEF StartBuild, PathInv, ActiveIsPath, Innermost
<1>2. CASE t = Innermost
  <2>1. list' = <<>> /\ Len(list') = 0
    BY <1>2 DEF StartBuild
  <2> QED
    BY <1>1, <1>2, <2>1, HierarchyAssumption DEF ListInv, WhereInv
<1>3. CASE t # Innermost
  <2>1. list' = <<t>> /\ list' # <<>> /\ Len(list') = 1 /\ list'[1] = t /\ Last(list') = t
    BY <1>3 DEF StartBuild, Last
  <2>2. Depth(t) \in Nat
    BY DepthOfParent
  <2>3. ListInv'
    BY <1>1, <1>3, <2>1, <2>2 DEF ListInv
  <2> QED
    BY <1>1, <2>1, <2>3, HierarchyAssumption DEF WhereInv
<1> QED
  BY <1>2, <1>3

\* A transition is asked for by a handler, out of an active state.
LEMMA TransitionStep ==
  ASSUME HsmInv, pc \in {"handle", "first"}, NEW t \in States, Transition(t), curr # Top
  PROVE  HsmInv'
<1> USE DEF HsmInv
<1>1. /\ curr \in States /\ Innermost = curr /\ Innermost' = Innermost
      /\ UNCHANGED <<curr, list, active>> /\ dest' = t /\ call' = "tran"
  BY DEF Transition, WhereInv, Innermost
<1>2. PathInv'
  BY <1>1 DEF PathInv, ActiveIsPath
<1>3. curr \in Ancestors[curr] /\ t \in Ancestors[t]
  BY <1>1, SelfAncestor
<1>4. CASE t = curr
  <2>1. /\ pc' = "exit" /\ lca' = Parent[curr] /\ cursor' = curr /\ UNCHANGED <<src, tgt>>
    BY <1>4 DEF Transition
  <2>2. Parent[curr] \in States /\ Parent[curr] \in Ancestors[curr]
    BY <1>1, ParentType, ParentAncestors, SelfAncestor
  <2>3. TypeOK' /\ ListInv' /\ CommonInv'
    BY <1>1, <1>4, <2>1, <2>2 DEF TypeOK, Pcs, ListInv, CommonInv
  <2>4. WhereInv'
    BY <1>1, <1>3, <1>4, <2>1, <2>2 DEF WhereInv
  <2> QED
    BY <1>2, <2>3, <2>4
<1>5. CASE t # curr
  <2>1. /\ pc' = "lca" /\ src' = curr /\ tgt' = t /\ UNCHANGED <<lca, cursor>>
    BY <1>5 DEF Transition, StartLca
  <2>2. TypeOK' /\ ListInv'
    BY <1>1, <2>1 DEF TypeOK, Pcs, ListInv
  <2>3. WhereInv' /\ CommonInv'
    BY <1>1, <1>3, <2>1 DEF WhereInv, CommonInv
  <2> QED
    BY <1>2, <2>2, <2>3
<1> QED
  BY <1>4, <1>5

\* Hsm_Dispatch and Hsm_Init, up to the first transition.
LEMMA DispatchStep ==
  ASSUME Shallow, HsmInv,
         \/ \E s \in States \ {Top} : HsmInit(s)
         \/ Dispatch \/ HandlerHandles \/ HandlerPasses \/ HandlerTransits
         \/ InitDone \/ InitTransits \/ InitNests
  PROVE  HsmInv'
<1> USE DEF HsmInv
<1>1. ASSUME NEW s \in States \ {Top}, HsmInit(s) PROVE HsmInv'
  <2>1. /\ pc = "off" /\ active = <<>> /\ Innermost = NoState /\ Top \in States
        /\ dest' = s /\ call' = "boot" /\ UNCHANGED <<curr, cursor, active>>
    BY <1>1, HierarchyAssumption DEF HsmInit, WhereInv, Innermost
  <2>2. PathInv'
    BY <2>1 DEF PathInv, ActiveIsPath
  <2>3. CASE Assertions
    <3>1. pc' = "lca" /\ src' = s /\ tgt' = Top /\ UNCHANGED <<lca, list>>
      BY <1>1, <2>3 DEF HsmInit, StartLca
    <3>2. TypeOK' /\ WhereInv' /\ ListInv' /\ CommonInv'
      BY <2>1, <3>1 DEF TypeOK, Pcs, WhereInv, ListInv, CommonInv
    <3> QED
      BY <2>2, <3>2
  <2>4. CASE ~Assertions
    <3>1. StartBuild(s, NoState) /\ UNCHANGED <<src, tgt>>
      BY <1>1, <2>4 DEF HsmInit
    <3>2. PathInv' /\ ListInv' /\ WhereInv' /\ list' \in Seq(States) /\ Len(list') <= MaxDepth
      BY <2>1, <3>1, BuildStarts
    <3>3. pc' = "build" /\ lca' = NoState
      BY <3>1 DEF StartBuild
    <3>4. TypeOK' /\ CommonInv'
      BY <2>1, <3>1, <3>2, <3>3 DEF TypeOK, Pcs, CommonInv
    <3> QED
      BY <3>2, <3>4
  <2> QED
    BY <2>3, <2>4
<1>2. CASE Dispatch
  <2>1. /\ pc = "idle" /\ pc' = "handle" /\ cursor' = curr
        /\ UNCHANGED <<call, curr, dest, src, tgt, lca, list, active>>
    BY <1>2 DEF Dispatch
  <2>2. PathInv' /\ Innermost' = Innermost
    BY <2>1 DEF PathInv, ActiveIsPath, Innermost
  <2>3. WhereInv'
    BY <2>1, <2>2, SelfAncestor DEF WhereInv
  <2>4. TypeOK' /\ ListInv' /\ CommonInv'
    BY <2>1 DEF TypeOK, Pcs, WhereInv, ListInv, CommonInv
  <2> QED
    BY <2>2, <2>3, <2>4
<1>3. CASE HandlerHandles \/ InitDone
  <2>1. /\ pc \in {"handle", "first", "init"} /\ pc' \in {"idle", "asserted"}
        /\ UNCHANGED <<call, curr, dest, cursor, src, tgt, lca, list, active>>
    BY <1>3 DEF HandlerHandles, InitDone, Ignores
  <2>2. PathInv' /\ Innermost' = Innermost
    BY <2>1 DEF PathInv, ActiveIsPath, Innermost
  <2>3. TypeOK' /\ WhereInv' /\ ListInv' /\ CommonInv'
    BY <2>1, <2>2 DEF TypeOK, Pcs, WhereInv, ListInv, CommonInv
  <2> QED
    BY <2>2, <2>3
<1>4. CASE HandlerPasses
  <2>1. /\ pc = "handle" /\ pc' = "handle" /\ cursor # Top /\ cursor' = Parent[cursor]
        /\ UNCHANGED <<call, curr, dest, src, tgt, lca, list, active>>
    BY <1>4 DEF HandlerPasses, Ignores
  <2>2. PathInv' /\ Innermost' = Innermost
    BY <2>1 DEF PathInv, ActiveIsPath, Innermost
  <2>3. curr \in States /\ cursor \in States /\ cursor \in Ancestors[curr]
    BY <2>1 DEF WhereInv, TypeOK
  <2>4. Parent[cursor] \in States /\ Parent[cursor] \in Ancestors[cursor]
    BY <2>1, <2>3, ParentType, ParentAncestors, SelfAncestor
  <2>5. Parent[cursor] \in Ancestors[curr]
    BY <2>3, <2>4, AncestorsTransitive
  <2>6. TypeOK' /\ WhereInv' /\ ListInv' /\ CommonInv'
    BY <2>1, <2>2, <2>3, <2>4, <2>5 DEF TypeOK, Pcs, WhereInv, ListInv, CommonInv
  <2> QED
    BY <2>2, <2>6
<1>5. CASE HandlerTransits
  <2>1. pc = "handle" /\ cursor # Top /\ curr \in States /\ cursor \in Ancestors[curr]
    BY <1>5 DEF HandlerTransits, Ignores, WhereInv
  <2>2. curr # Top
    BY <2>1, TopAncestors
  <2>3. PICK t \in States : Transition(t)
    BY <1>5, HierarchyAssumption DEF HandlerTransits, Ignores
  <2> QED
    BY <2>1, <2>2, <2>3, TransitionStep
<1>6. CASE InitTransits
  <2>1. pc = "first" /\ curr # Top /\ curr \in States
    BY <1>6 DEF InitTransits, Ignores, WhereInv
  <2>2. PICK t \in States : Transition(t)
    BY <1>6, <2>1 DEF InitTransits, Ignores, Descendants
  <2> QED
    BY <2>1, <2>2, TransitionStep
<1>7. CASE InitNests
  <2>1. pc = "init" /\ curr \in States /\ Innermost = curr
    BY <1>7 DEF InitNests, Ignores, WhereInv
  <2>2. PICK t \in Descendants[curr] :
          /\ dest' = t /\ call' = "nested"
          /\ IF Assertions
             THEN StartLca(curr, t) /\ UNCHANGED <<lca, list>>
             ELSE StartBuild(t, curr) /\ UNCHANGED <<src, tgt>>
    BY <1>7 DEF InitNests, Ignores
  <2>3. t \in States /\ curr \in Ancestors[t] /\ curr # t
    BY <2>1 DEF Descendants
  <2>4. UNCHANGED <<curr, cursor, active>>
    BY <1>7 DEF InitNests, Ignores
  <2>5. PathInv' /\ Innermost' = Innermost
    BY <2>4 DEF PathInv, ActiveIsPath, Innermost
  <2>6. CASE Assertions
    <3>1. pc' = "lca" /\ src' = curr /\ tgt' = t /\ UNCHANGED <<lca, list>>
      BY <2>2, <2>6 DEF StartLca
    <3>2. curr \in Ancestors[curr] /\ t \in Ancestors[t]
      BY <2>1, <2>3, SelfAncestor
    <3>3. TypeOK' /\ ListInv' /\ CommonInv'
      BY <2>1, <2>2, <2>3, <2>4, <3>1 DEF TypeOK, Pcs, ListInv, CommonInv
    <3>4. WhereInv'
      BY <2>1, <2>2, <2>3, <2>4, <2>5, <3>1, <3>2 DEF WhereInv
    <3> QED
      BY <2>5, <3>3, <3>4
  <2>7. CASE ~Assertions
    <3>1. StartBuild(t, curr) /\ UNCHANGED <<src, tgt>>
      BY <2>2, <2>7
    <3>2. PathInv' /\ ListInv' /\ WhereInv' /\ list' \in Seq(States) /\ Len(list') <= MaxDepth
      BY <2>1, <2>2, <2>3, <2>4, <3>1, BuildStarts
    <3>3. pc' = "build" /\ lca' = curr
      BY <3>1 DEF StartBuild
    <3>4. TypeOK' /\ CommonInv'
      BY <2>1, <2>2, <2>3, <2>4, <3>1, <3>2, <3>3 DEF TypeOK, Pcs, CommonInv
    <3> QED
      BY <3>2, <3>4
  <2> QED
    BY <2>6, <2>7
<1> QED
  BY <1>1, <1>2, <1>3, <1>4, <1>5, <1>6, <1>7


\* Find_Lca: every common ancestor is still to come.
LEMMA LcaStep ==
  ASSUME Shallow, HsmInv, ClimbTarget \/ ClimbSource \/ FoundLca
  PROVE  HsmInv'
<1> USE DEF HsmInv
<1>1. pc = "lca"
  BY DEF ClimbTarget, ClimbSource, FoundLca
<1>2. src \in States /\ tgt \in States /\ dest \in States /\ Top \in States
  BY <1>1, HierarchyAssumption DEF WhereInv
<1>3. CASE ClimbTarget
  <2>1. /\ src # tgt /\ tgt # Top
        /\ UNCHANGED <<call, curr, dest, cursor, src, lca, list, active>>
    BY <1>3 DEF ClimbTarget
  <2>2. PathInv' /\ Innermost' = Innermost
    BY <2>1 DEF PathInv, ActiveIsPath, Innermost
  <2>3. CASE Assertions /\ Parent[src] = NoState
    <3>1. pc' = "asserted" /\ tgt' = tgt
      BY <1>3, <2>3 DEF ClimbTarget
    <3>2. TypeOK' /\ WhereInv' /\ ListInv' /\ CommonInv'
      BY <2>1, <3>1 DEF TypeOK, Pcs, WhereInv, ListInv, CommonInv
    <3> QED
      BY <2>2, <3>2
  <2>4. CASE ~(Assertions /\ Parent[src] = NoState)
    <3>1. pc' = "lca" /\ tgt' = Parent[tgt]
      BY <1>1, <1>3, <2>4 DEF ClimbTarget
    <3>2. /\ Parent[tgt] \in States
          /\ \A s \in States : tgt \in Ancestors[s] => Parent[tgt] \in Ancestors[s]
          /\ src \in Ancestors[tgt] => src \in Ancestors[Parent[tgt]]
      BY <1>2, <2>1, ParentType, ParentAncestors, SelfAncestor, AncestorsTransitive
    <3>3. TypeOK' /\ ListInv'
      BY <1>2, <2>1, <3>1, <3>2 DEF TypeOK, Pcs, ListInv
    <3>4. WhereInv'
      <4>1. call # "boot"
        BY <1>1, <2>1 DEF WhereInv
      <4> QED
        BY <1>1, <1>2, <2>1, <2>2, <3>1, <3>2, <4>1 DEF WhereInv
    <3>5. CommonInv'
      BY <1>1, <2>1, <3>1, <3>2 DEF CommonInv
    <3> QED
      BY <2>2, <3>3, <3>4, <3>5
  <2> QED
    BY <2>3, <2>4
<1>4. CASE ClimbSource
  <2>1. /\ src # tgt /\ tgt = Top /\ src' = Parent[src]
        /\ tgt' = IF call = "boot" THEN Top ELSE dest
        /\ UNCHANGED <<pc, call, curr, dest, cursor, lca, list, active>>
    BY <1>4 DEF ClimbSource
  <2>2. PathInv' /\ Innermost' = Innermost
    BY <2>1 DEF PathInv, ActiveIsPath, Innermost
  <2>3. /\ src # Top /\ Parent[src] \in States
        /\ \A s \in States : src \in Ancestors[s] => Parent[src] \in Ancestors[s]
        /\ dest \in Ancestors[dest]
    BY <1>2, <2>1, ParentType, ParentAncestors, SelfAncestor, AncestorsTransitive
  <2>4. TypeOK' /\ ListInv'
    BY <1>1, <1>2, <2>1, <2>3 DEF TypeOK, ListInv
  <2>5. WhereInv'
    BY <1>1, <1>2, <2>1, <2>2, <2>3 DEF WhereInv
  <2>6. CommonInv'
    <3> SUFFICES ASSUME call = "tran", curr # dest
                 PROVE  /\ Ancestors[curr] \cap Ancestors[dest] \subseteq Ancestors[Parent[src]]
                        /\ Parent[src] \in Ancestors[dest] => Parent[src] \in Ancestors[dest]
      BY <1>1, <2>1 DEF CommonInv
    <3>1. src \notin Ancestors[dest]
      BY <1>1, <2>1, <2>3, TopAncestors DEF CommonInv
    <3>2. ASSUME NEW a \in Ancestors[curr] \cap Ancestors[dest] PROVE a \in Ancestors[Parent[src]]
      <4>1. a \in Ancestors[src] /\ a # src /\ a \in States
        BY <1>1, <1>2, <3>1, AncestorsType DEF CommonInv
      <4> QED
        BY <1>2, <2>3, <4>1, ParentAncestors
    <3> QED
      BY <3>2
  <2> QED
    BY <2>2, <2>4, <2>5, <2>6
<1>5. CASE FoundLca
  <2>1. src = tgt /\ UNCHANGED <<call, curr, dest, src, tgt, active>>
    BY <1>5 DEF FoundLca
  <2>2. PathInv' /\ Innermost' = Innermost
    BY <2>1 DEF PathInv, ActiveIsPath, Innermost
  <2>3. CASE pc' = "asserted"
    <3>1. UNCHANGED <<lca, list, cursor>>
      BY <1>5, <2>3 DEF FoundLca, StartBuild, TypeOK
    <3>2. TypeOK' /\ WhereInv' /\ ListInv' /\ CommonInv'
      BY <2>1, <2>3, <3>1 DEF TypeOK, Pcs, WhereInv, ListInv, CommonInv
    <3> QED
      BY <2>2, <3>2
  <2>4. CASE pc' # "asserted" /\ call = "boot"
    <3>1. StartBuild(dest, NoState) /\ UNCHANGED cursor
      BY <1>5, <2>4 DEF FoundLca
    <3>2. Innermost = NoState
      BY <1>1, <2>4 DEF WhereInv, Innermost
    <3>3. PathInv' /\ ListInv' /\ WhereInv' /\ list' \in Seq(States) /\ Len(list') <= MaxDepth
      BY <1>2, <2>1, <3>1, <3>2, BuildStarts
    <3>4. TypeOK' /\ CommonInv'
      BY <2>1, <2>4, <3>1, <3>3 DEF StartBuild, TypeOK, Pcs, CommonInv
    <3> QED
      BY <3>3, <3>4
  <2>5. CASE pc' # "asserted" /\ call = "nested"
    <3>1. StartBuild(dest, curr) /\ UNCHANGED cursor
      BY <1>5, <2>5 DEF FoundLca
    <3>2. Innermost = curr /\ curr \in Ancestors[dest] /\ curr \in States
      BY <1>1, <1>2, <2>5 DEF WhereInv, Descendants
    <3>3. PathInv' /\ ListInv' /\ WhereInv' /\ list' \in Seq(States) /\ Len(list') <= MaxDepth
      BY <1>2, <2>1, <3>1, <3>2, BuildStarts
    <3>4. TypeOK' /\ CommonInv'
      BY <2>1, <2>5, <3>1, <3>2, <3>3 DEF StartBuild, TypeOK, Pcs, CommonInv
    <3> QED
      BY <3>3, <3>4
  <2>6. CASE call = "tran"
    <3>1. pc' = "exit" /\ lca' = src /\ cursor' = curr /\ UNCHANGED list
      BY <1>5, <2>6 DEF FoundLca
    <3>2. /\ curr \in States /\ Innermost = curr
          /\ src \in Ancestors[curr] /\ src \in Ancestors[dest]
      BY <1>1, <2>1, <2>6 DEF WhereInv
    <3>3. TypeOK' /\ WhereInv' /\ ListInv' /\ CommonInv'
      BY <1>1, <1>2, <2>1, <2>2, <2>6, <3>1, <3>2
         DEF TypeOK, Pcs, WhereInv, ListInv, CommonInv
    <3> QED
      BY <2>2, <3>3
  <2> QED
    BY <2>3, <2>4, <2>5, <2>6 DEF TypeOK
<1> QED
  BY <1>3, <1>4, <1>5

\* Exit_Up_To.
LEMMA ExitStep ==
  ASSUME Shallow, HsmInv, Exit \/ ExitDone
  PROVE  HsmInv'
<1> USE DEF HsmInv
<1>1. /\ pc = "exit" /\ dest \in States /\ cursor \in States /\ Innermost = cursor
      /\ lca \in Ancestors[cursor] /\ lca \in Ancestors[dest] /\ lca \in States
  BY AncestorsType DEF Exit, ExitDone, WhereInv
<1>2. CASE Exit
  <2>1. /\ cursor # lca /\ cursor' = Parent[cursor]
        /\ active' = RemoveFirst(active, cursor)
        /\ UNCHANGED <<pc, call, curr, dest, src, tgt, lca, list>>
    BY <1>2 DEF Exit
  <2>2. active # <<>> /\ cursor = Last(active)
    BY <1>1, HierarchyAssumption DEF Innermost
  <2>3. PathInv' /\ Innermost' = Parent[cursor] /\ active' \in Seq(States)
    BY <2>1, <2>2, ExitPath
  <2>4. cursor # Top
    BY <1>1, <2>1, TopAncestors
  <2>5. Parent[cursor] \in States /\ lca \in Ancestors[Parent[cursor]]
    BY <1>1, <2>1, <2>4, ParentType, ParentAncestors
  <2>6. TypeOK' /\ ListInv' /\ CommonInv'
    BY <1>1, <2>1, <2>3, <2>5 DEF TypeOK, ListInv, CommonInv
  <2>7. WhereInv'
    BY <1>1, <2>1, <2>3, <2>5 DEF WhereInv
  <2> QED
    BY <2>3, <2>6, <2>7
<1>3. CASE ExitDone
  <2>1. /\ cursor = lca /\ StartBuild(dest, lca)
        /\ UNCHANGED <<call, curr, dest, cursor, src, tgt, active>>
    BY <1>1, <1>3, HierarchyAssumption DEF ExitDone
  <2>2. PathInv' /\ ListInv' /\ WhereInv' /\ list' \in Seq(States) /\ Len(list') <= MaxDepth
    BY <1>1, <2>1, BuildStarts
  <2>3. pc' = "build" /\ lca' = lca
    BY <2>1 DEF StartBuild
  <2>4. Ancestors[lca] \subseteq ToSet(active)
    BY <1>1, <2>1, ActiveAncestors, HierarchyAssumption DEF PathInv, Innermost
  <2>5. TypeOK' /\ CommonInv'
    BY <1>1, <2>1, <2>2, <2>3, <2>4 DEF TypeOK, Pcs, CommonInv
  <2> QED
    BY <2>2, <2>5
<1> QED
  BY <1>2, <1>3


\* Build_Ancestor_List: one parent more, or the list is complete. In a shallow
\* hierarchy it is complete before it is full.
LEMMA BuildStep ==
  ASSUME Shallow, HsmInv, BuildNext \/ BuildDone
  PROVE  HsmInv'
<1> USE DEF HsmInv
<1> DEFINE n == Len(list)
           x == Last(list)
<1>1. /\ pc = "build" /\ dest \in States /\ list \in Seq(States) /\ n \in Nat /\ Innermost = lca
      /\ \A i \in 1 .. n - 1 : list[i] # Top /\ list[i + 1] = Parent[list[i]]
  BY DEF BuildNext, BuildDone, ListInv, TypeOK
<1>2. UNCHANGED <<call, curr, dest, cursor, src, tgt, lca, active>>
  BY DEF BuildNext, BuildDone
<1>3. PathInv' /\ Innermost' = Innermost
  BY <1>2 DEF PathInv, ActiveIsPath, Innermost
<1>4. ASSUME list # <<>>
      PROVE  /\ n >= 1 /\ x \in States /\ x = list[n] /\ list[1] = dest
             /\ lca = NoState \/ (lca \in Ancestors[x] /\ lca # x)
             /\ n + Depth(x) = Depth(dest) + 1
             /\ x = Top => lca = NoState
  <2>1. n >= 1 /\ x \in States /\ x = list[n]
    BY <1>1, <1>4, FrontStates
  <2>2. /\ list[1] = dest
        /\ lca = NoState \/ (lca \in Ancestors[x] /\ lca # x)
        /\ n + Depth(x) = Depth(dest) + 1
    BY <1>1, <1>4 DEF ListInv
  <2> QED
    BY <2>1, <2>2, TopAncestors
<1>5. CASE BuildNext
  <2>1. /\ list # <<>> /\ Parent[x] # lca /\ n < MaxDepth
        /\ list' = Append(list, Parent[x]) /\ pc' = "build"
    BY <1>1, <1>5, HierarchyAssumption DEF BuildNext, ListComplete, TypeOK
  <2>2. /\ x \in States /\ x # Top /\ Parent[x] \in States
        /\ Depth(x) = Depth(Parent[x]) + 1
        /\ Depth(Parent[x]) \in Nat /\ Depth(x) \in Nat /\ Depth(dest) \in Nat
    BY <1>1, <1>4, <2>1, HierarchyAssumption, ParentType, DepthOfParent
  <2>3. lca = NoState \/ (lca \in Ancestors[Parent[x]] /\ lca # Parent[x])
    BY <1>4, <2>1, <2>2, AncestorsType, ParentAncestors
  <2>4. /\ list' \in Seq(States) /\ list' # <<>> /\ Len(list') = n + 1
        /\ Last(list') = Parent[x] /\ list'[n + 1] = Parent[x]
        /\ \A i \in 1 .. n : list'[i] = list[i]
    BY <1>1, <2>1, <2>2, AppendState
  <2>5. list'[1] = dest
    BY <1>1, <1>4, <2>1, <2>4
  <2>6. Len(list') + Depth(Last(list')) = Depth(dest) + 1
    BY <1>1, <1>4, <2>1, <2>2, <2>4
  <2>7. ASSUME NEW i \in 1 .. Len(list') - 1
        PROVE  list'[i] # Top /\ list'[i + 1] = Parent[list'[i]]
    <3>1. CASE i = n
      BY <1>1, <1>4, <2>1, <2>2, <2>4, <3>1
    <3>2. CASE i # n
      <4>1. i \in 1 .. n - 1 /\ i \in 1 .. n /\ i + 1 \in 1 .. n
        BY <1>1, <2>4, <3>2
      <4> QED
        BY <1>1, <2>4, <4>1
    <3> QED
      BY <3>1, <3>2
  <2>8. ListInv'
    BY <1>1, <1>2, <1>3, <2>1, <2>3, <2>4, <2>5, <2>6, <2>7 DEF ListInv
  <2>9. Len(list') <= MaxDepth
    BY <1>1, <2>1, <2>4, HierarchyAssumption
  <2>10. TypeOK' /\ WhereInv' /\ CommonInv'
    BY <1>1, <1>2, <2>1, <2>4, <2>9 DEF TypeOK, WhereInv, CommonInv
  <2> QED
    BY <1>3, <2>8, <2>10
<1>6. CASE BuildDone
  <2>1. ListComplete /\ pc' = "enter" /\ list' = list
    BY <1>6 DEF BuildDone
  <2>2. ASSUME list # <<>> PROVE Parent[x] = lca
    <3>1. CASE x = Top
      BY <1>4, <2>2, <3>1, HierarchyAssumption
    <3>2. CASE x # Top
      <4>1. /\ Depth(x) = Depth(Parent[x]) + 1 /\ Depth(Parent[x]) >= 1
            /\ Depth(Parent[x]) \in Nat /\ Depth(dest) \in Nat /\ Depth(dest) <= MaxDepth
        BY <1>1, <1>4, <2>2, <3>2, ParentType, DepthOfParent, DepthOfAncestor, SelfAncestor
      <4>2. n < MaxDepth
        BY <1>1, <1>4, <2>2, <4>1, HierarchyAssumption
      <4> QED
        BY <1>1, <2>1, <2>2, <4>2, HierarchyAssumption DEF ListComplete
    <3> QED
      BY <3>1, <3>2
  <2>3. ListInv'
    BY <1>1, <1>2, <1>3, <2>1, <2>2 DEF ListInv
  <2>4. TypeOK' /\ WhereInv' /\ CommonInv'
    BY <1>1, <1>2, <2>1 DEF TypeOK, Pcs, WhereInv, CommonInv
  <2> QED
    BY <1>3, <2>3, <2>4
<1> QED
  BY <1>5, <1>6

\* Enter_Down_To: the outermost state of the list, or none is left.
LEMMA EnterStep ==
  ASSUME Shallow, HsmInv, Enter \/ Entered
  PROVE  HsmInv'
<1> USE DEF HsmInv
<1>1. pc = "enter" /\ dest \in States /\ list \in Seq(States)
  BY DEF Enter, Entered, ListInv, TypeOK
<1>2. CASE Enter
  <2> DEFINE n == Len(list)
             x == Last(list)
  <2>1. /\ list # <<>> /\ active' = Append(active, x) /\ list' = Front(list)
        /\ UNCHANGED <<pc, call, curr, dest, cursor, src, tgt, lca>>
    BY <1>2 DEF Enter
  <2>2. /\ n \in Nat \ {0} /\ x \in States /\ x = list[n]
        /\ list' \in Seq(States) /\ Len(list') = n - 1
        /\ \A i \in 1 .. n - 1 : list'[i] = list[i]
        /\ list' # <<>> => n > 1 /\ Last(list') = list[n - 1]
        /\ list' = <<>> => n = 1
    BY <1>1, <2>1, FrontStates
  <2>3. Parent[x] = Innermost /\ list[1] = dest
    BY <1>1, <2>1 DEF ListInv
  <2>4. /\ PathInv' /\ Innermost' = x /\ active' \in Seq(States)
        /\ ToSet(active) \subseteq ToSet(active')
    BY <2>1, <2>2, <2>3, EnterPath
  <2>5. \A i \in 1 .. n - 1 : list[i] # Top /\ list[i + 1] = Parent[list[i]]
    BY <1>1 DEF ListInv
  <2>6. ASSUME NEW i \in 1 .. Len(list') - 1
        PROVE  list'[i] # Top /\ list'[i + 1] = Parent[list'[i]]
    <3>1. i \in 1 .. n - 1 /\ i + 1 \in 1 .. n - 1
      BY <2>2
    <3> QED
      BY <2>2, <2>5, <3>1
  <2>7. list' # <<>> => Parent[Last(list')] = x /\ list'[1] = dest
    <3> SUFFICES ASSUME list' # <<>> PROVE Parent[Last(list')] = x /\ list'[1] = dest
      OBVIOUS
    <3>1. n - 1 \in 1 .. n - 1 /\ 1 \in 1 .. n - 1 /\ n - 1 + 1 = n
      BY <2>2
    <3> QED
      BY <2>2, <2>3, <2>5, <3>1
  <2>8. list' = <<>> => x = dest
    BY <2>2, <2>3
  <2>9. ListInv'
    BY <1>1, <2>1, <2>4, <2>6, <2>7, <2>8 DEF ListInv
  <2>10. Len(list') <= MaxDepth
    BY <2>2, HierarchyAssumption DEF TypeOK
  <2>11. TypeOK' /\ WhereInv' /\ CommonInv'
    BY <1>1, <2>1, <2>2, <2>4, <2>10 DEF TypeOK, WhereInv, CommonInv
  <2> QED
    BY <2>4, <2>9, <2>11
<1>3. CASE Entered
  <2>1. /\ list = <<>> /\ curr' = dest /\ pc' \in {"first", "init"}
        /\ UNCHANGED <<call, dest, cursor, src, tgt, lca, list, active>>
    BY <1>3 DEF Entered
  <2>2. PathInv' /\ Innermost' = Innermost
    BY <2>1 DEF PathInv, ActiveIsPath, Innermost
  <2>3. Innermost = dest
    BY <1>1, <2>1 DEF ListInv
  <2>4. TypeOK' /\ WhereInv' /\ ListInv' /\ CommonInv'
    BY <1>1, <2>1, <2>2, <2>3 DEF TypeOK, Pcs, WhereInv, ListInv, CommonInv
  <2> QED
    BY <2>2, <2>4
<1> QED
  BY <1>2, <1>3

LEMMA HsmStep == Shallow /\ HsmInv /\ [Next]_vars => HsmInv'
<1> SUFFICES ASSUME Shallow, HsmInv, [Next]_vars PROVE HsmInv'
  OBVIOUS
<1>1. CASE Next
  <2>1. \/ ClimbTarget \/ ClimbSource \/ FoundLca
        \/ BuildNext \/ BuildDone \/ Enter \/ Entered \/ Exit \/ ExitDone
        \/ \E s \in States \ {Top} : HsmInit(s)
        \/ Dispatch \/ HandlerHandles \/ HandlerPasses \/ HandlerTransits
        \/ InitDone \/ InitTransits \/ InitNests
    BY <1>1, Zenon DEF Next, Proceed
  <2> QED
    BY <2>1, LcaStep, BuildStep, EnterStep, ExitStep, DispatchStep
<1>2. CASE UNCHANGED vars
  <2>1. TypeOK' /\ PathInv' /\ Innermost' = Innermost
    BY <1>2 DEF vars, HsmInv, TypeOK, PathInv, ActiveIsPath, Innermost
  <2>2. WhereInv' /\ ListInv' /\ CommonInv'
    BY <1>2, <2>1 DEF vars, HsmInv, WhereInv, ListInv, CommonInv
  <2> QED
    BY <2>1, <2>2 DEF HsmInv
<1> QED
  BY <1>1, <1>2

-----------------------------------------------------------------------------
(* The theorems.                                                           *)

(***************************************************************************)
(* In every hierarchy no deeper than HSM_MAX_DEPTH, whatever the handlers  *)
(* answer, with assertions and without, the invariant holds.               *)
(***************************************************************************)
THEOREM HsmInvCorrect ==
  ASSUME Shallow
  PROVE  Spec => []HsmInv
<1>1. Init => HsmInv
  BY InitHsm
<1>2. HsmInv /\ [Next]_vars => HsmInv'
  BY HsmStep
<1> QED
  BY <1>1, <1>2, PTL DEF Spec

(***************************************************************************)
(* The states, the cursors and the list of ancestors keep their types; the *)
(* list never outgrows its HSM_MAX_DEPTH places.                           *)
(***************************************************************************)
THEOREM HsmTypeCorrect ==
  ASSUME Shallow
  PROVE  Spec => []TypeOK
<1>1. HsmInv => TypeOK
  BY DEF HsmInv
<1> QED
  BY <1>1, HsmInvCorrect, PTL

(***************************************************************************)
(* No state is entered before its parent or left before its active child,  *)
(* and none is entered twice.                                              *)
(***************************************************************************)
THEOREM ActivePathCorrect ==
  ASSUME Shallow
  PROVE  Spec => []ActiveIsPath
<1>1. HsmInv => ActiveIsPath
  BY DEF HsmInv, PathInv
<1> QED
  BY <1>1, HsmInvCorrect, PTL

(***************************************************************************)
(* Between two signals and when a handler is given one, curr_state is the  *)
(* innermost active state.                                                 *)
(***************************************************************************)
THEOREM InnermostCorrect ==
  ASSUME Shallow
  PROVE  Spec => []CurrIsInnermost
<1>1. HsmInv => CurrIsInnermost
  BY HierarchyAssumption DEF HsmInv, WhereInv, Innermost, CurrIsInnermost
<1> QED
  BY <1>1, HsmInvCorrect, PTL

(***************************************************************************)
(* Signals are only given to handlers of active states.                    *)
(***************************************************************************)
THEOREM HandlersCorrect ==
  ASSUME Shallow
  PROVE  Spec => []HandlersAreActive
<1>1. HsmInv => HandlersAreActive
  <2> SUFFICES ASSUME HsmInv PROVE HandlersAreActive
    OBVIOUS
  <2>1. ASSUME pc = "handle" PROVE cursor \in ToSet(active)
    <3>1. active # <<>> /\ curr = Last(active) /\ cursor \in Ancestors[curr]
      BY <2>1, HierarchyAssumption DEF HsmInv, WhereInv, Innermost
    <3> QED
      BY <3>1, ActiveAncestors DEF HsmInv, PathInv
  <2>2. ASSUME pc = "exit" PROVE cursor \in ToSet(active)
    <3>1. active # <<>> /\ cursor = Last(active) /\ cursor \in Ancestors[cursor]
      BY <2>2, HierarchyAssumption, SelfAncestor DEF HsmInv, WhereInv, Innermost
    <3> QED
      BY <3>1, ActiveAncestors DEF HsmInv, PathInv
  <2> QED
    BY <2>1, <2>2 DEF HandlersAreActive
<1> QED
  BY <1>1, HsmInvCorrect, PTL

(***************************************************************************)
(* Find_Lca finds the least common ancestor, and a transition leaves what  *)
(* is an ancestor of both of its ends active throughout.                   *)
(***************************************************************************)
THEOREM CommonAncestorsCorrect ==
  ASSUME Shallow
  PROVE  Spec => []CommonAncestorsStay
<1>1. HsmInv => CommonAncestorsStay
  <2> SUFFICES ASSUME HsmInv, call = "tran", curr # dest, pc \in {"exit", "build", "enter"}
               PROVE  Ancestors[curr] \cap Ancestors[dest] \subseteq ToSet(active)
    BY DEF CommonAncestorsStay
  <2>1. CASE pc \in {"build", "enter"}
    BY <2>1 DEF HsmInv, CommonInv
  <2>2. CASE pc = "exit"
    <3>1. /\ active # <<>> /\ cursor = Last(active) /\ cursor \in States
          /\ lca \in Ancestors[cursor]
      BY <2>2, HierarchyAssumption DEF HsmInv, WhereInv, Innermost
    <3>2. Ancestors[curr] \cap Ancestors[dest] \subseteq Ancestors[lca]
      BY <2>2 DEF HsmInv, CommonInv
    <3>3. Ancestors[lca] \subseteq Ancestors[cursor]
      BY <3>1, AncestorsTransitive
    <3>4. Ancestors[cursor] \subseteq ToSet(active)
      BY <3>1, ActiveAncestors DEF HsmInv, PathInv
    <3> QED
      BY <3>2, <3>3, <3>4
  <2> QED
    BY <2>1, <2>2
<1> QED
  BY <1>1, HsmInvCorrect, PTL

=============================================================================
