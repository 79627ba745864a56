------------------------------- MODULE MCHsm -------------------------------
(***************************************************************************)
(* Instances of Hsm for TLC. The hierarchy is that of test/test_hsm.c.     *)
(***************************************************************************)
EXTENDS Hsm, TLC

CONSTANTS top, a, a1, a2, a3, a31, b, b1, null

TestStates == {top, a, a1, a2, a3, a31, b, b1}

UserStates == TestStates \ {top}

TestParent ==
  top :> null @@ a :> top @@ a1 :> a @@ a2 :> a @@ a3 :> a @@ a31 :> a3 @@ b :> top @@ b1 :> b

=============================================================================
