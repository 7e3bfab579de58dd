-------------------------- MODULE MCDirectoryStore --------------------------
(* Finite instances of DirectoryStore for TLC.                             *)
EXTENDS DirectoryStore, TLC

CONSTANTS m1, m2, x

(* Two manifests: m1 needs an object that m2 does without, so that going   *)
(* from one to the other abandons it.                                      *)
MCClosure == m1 :> {m1, x} @@ m2 :> {m2}

(* Each manifest is its own only object: abandoned and revived by commits. *)
MCAlternating == m1 :> {m1} @@ m2 :> {m2}

Symmetry == Permutations(Procs) \cup Permutations(Receipts)
=============================================================================
