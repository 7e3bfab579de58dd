---------------------------- MODULE MCVirtualWork ----------------------------
(***************************************************************************)
(* Small instances of the virtual-work scheduler.  "Dispatch" has two Runs *)
(* of unequal cost and weight with a work each, and two workers on a slot  *)
(* that other schedulers claim too; "Regions" has one Run and two works of *)
(* unequal priority whose regions are split, merged, archived and retired. *)
(***************************************************************************)
EXTENDS VirtualWork

DispatchSource == 1 :> {1} @@ 2 :> {2}
DispatchRunOf == 1 :> 1 @@ 2 :> 2
DispatchPriority == 1 :> 0 @@ 2 :> 0
DispatchCost == 1 :> 2 @@ 2 :> 3
DispatchCapability == 1 :> "gpu" @@ 2 :> NoOwner
DispatchOffers == {{}, {"gpu"}}
NoTargets == [a \in {} |-> {}]
OwnerSymmetry == Permutations(Owners)

RegionsSource == 1 :> {1} @@ 2 :> {2}
RegionsRunOf == [r \in 1..4 |-> 1]
RegionsPriority == 1 :> 0 @@ 2 :> 1
RegionsUnit == [w \in 1..2 |-> 1]
RegionsCapability == [w \in 1..2 |-> NoOwner]
RegionsOffers == {{}}
RegionsTargets == "a1" :> {"w1", "w2"}
============================================================================
