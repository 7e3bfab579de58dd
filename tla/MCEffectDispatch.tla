-------------------------- MODULE MCEffectDispatch --------------------------
(* Finite instances of EffectDispatch: two executors, two Effects.         *)
EXTENDS EffectDispatch, TLC

CONSTANTS w1, w2, i1, i2

MCOwners == {w1, w2}
Executors == Permutations(MCOwners)
MCIntents == {i1, i2}

(* An eager step whose result is bound, then one that waits for the Scope, *)
(* which is closed page by page, and for an explicit release.              *)
EagerThenExplicit ==
    [steps |-> <<i1, i2>>, policy |-> (i1 :> "Eager" @@ i2 :> "Explicit"), wide |-> TRUE]

(* Two steps that wait for the Scope, closed at once; the first also for a *)
(* release, so that the second may be unknown when the first is claimed.   *)
ExplicitFirst ==
    [steps |-> <<i1, i2>>, policy |-> (i1 :> "Explicit" @@ i2 :> "OnScopeCommit"), wide |-> FALSE]

(* One step that waits for the Scope.                                      *)
Deferred == [steps |-> <<i2>>, policy |-> (i1 :> "Explicit" @@ i2 :> "OnScopeCommit"), wide |-> FALSE]

EffectPlans == {EagerThenExplicit, ExplicitFirst, Deferred}
EffectFences == EagerThenExplicit :> 3 @@ ExplicitFirst :> 2 @@ Deferred :> 3
WidePlans == {EagerThenExplicit}
WideFences == EagerThenExplicit :> 4

Order == i1 :> 1 @@ i2 :> 2
First == {i1}
Second == {i2}
Approval == {"ResolveApplied"}
===============================================================================
