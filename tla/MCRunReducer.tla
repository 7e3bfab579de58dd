---------------------------- MODULE MCRunReducer ----------------------------
(* Finite instances of RunReducer for TLC.                                 *)
EXTENDS RunReducer, TLC

CONSTANTS s1, s2, pA, pB, e1, e2, e3

(* s1 is nested in the Root scope and s2 in s1; Plan pB has no scope of    *)
(* its own, so after a migration it can only work in the Root scope.       *)
MCParent == s1 :> Root @@ s2 :> s1
MCScopePlan == s1 :> pA @@ s2 :> pA

(* A queryable mutation in the inner scope, an eager observation only a    *)
(* human can settle in the Root scope, and, after a migration, an explicit *)
(* mutation there that nobody can settle.                                  *)
MCEffectScope == e1 :> s2 @@ e2 :> Root @@ e3 :> Root
MCOriginPlan == e1 :> pA @@ e2 :> pA @@ e3 :> pB
MCProfile ==
    e1 :> [mutation |-> "Mutating", dispatch |-> "OnScopeCommit", reconciliation |-> "Queryable"] @@
    e2 :> [mutation |-> "Observational", dispatch |-> "Eager", reconciliation |-> "Human"] @@
    e3 :> [mutation |-> "Mutating", dispatch |-> "Explicit", reconciliation |-> "Impossible"]
=============================================================================
