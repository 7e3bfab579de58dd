-------------------------- MODULE MCDurableCommands --------------------------
(* Finite instances of DurableCommands for TLC.                            *)
EXTENDS DurableCommands, TLC

CONSTANTS q1, q2, a1, s2, b2, end1

MCRunOf == a1 :> q1 @@ s2 :> q2 @@ b2 :> q2 @@ end1 :> q1
MCKind == a1 :> "Close" @@ s2 :> "Start" @@ b2 :> "Step" @@ end1 :> "End"

(* A start, the same start in a batch with a step of its Run and a close   *)
(* in the other, and the end of that other Run, page by page.              *)
MCBatches == {<<s2>>, <<s2, b2, a1>>, <<end1>>}

Symmetry == Permutations(Coordinators)
==============================================================================
