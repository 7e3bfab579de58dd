--------------------------- MODULE MCEvolution ---------------------------
(***************************************************************************)
(* One logical reference. r1 and r2 have the contract that t1 and t2       *)
(* expect, r2 makes a narrower Plan of t1 and the same Plan of t2; r3 has  *)
(* another contract and depends on r1; t3 is pinned to it. A component of  *)
(* q1 with a requirement is not reachable in q2 and is back, without the   *)
(* requirement, in the patch w, so that a Run can go from q1 to w by two   *)
(* migrations and not by one.                                              *)
(***************************************************************************)
EXTENDS Evolution, TLC

CONSTANTS r1, r2, r3, t1, t2, t3, q1, q2, w, ref, c1, c2

MCRefOf    == [r \in Revisions |-> ref]
MCContract == [r \in Revisions |-> IF r = r3 THEN c2 ELSE c1]
MCPins     == [r \in Revisions |-> IF r = r3 THEN {r1} ELSE {}]
MCFollows  == [t \in Templates |-> ref]
MCWants    == [t \in Templates |-> IF t = t3 THEN c2 ELSE c1]
MCPinnedTo == [t \in Templates |-> IF t = t3 THEN r3 ELSE None]
MCPlanOf   == [t \in Templates |-> [r \in Revisions |-> IF t = t1 /\ r = r2 THEN q2 ELSE q1]]
MCSurface  == [x \in {q1, q2, w} |-> IF x = q1 THEN {1, 2} ELSE IF x = q2 THEN {1} ELSE {1, 2, 3}]
MCEffects  == [x \in Plans |-> IF x = q1 THEN {1, 2} ELSE {1}]
MCRequires == [x \in Plans |-> [c \in IF x = q2 THEN {} ELSE {2} |->
                                  IF x = q1 THEN {"capability"} ELSE {}]]
MCFirst    == [q \in Runs |-> q1]
MCGates    == {[maxFailures |-> 0, maxInequivalent |-> 0,
                minObservations |-> 1, minEquivalent |-> 0]}

MigrationSymmetry == Permutations(Migrations)

\* The check of a migration is not transitive.
ASSUME NoWidening(q1, q2) /\ NoWidening(q2, w) /\ ~NoWidening(q1, w)
==========================================================================
