--------------------------- MODULE VirtualFairness ---------------------------
(***************************************************************************)
(* The arithmetic of weighted-deficit selection (virtual_work.rs).  A      *)
(* round is one cyclic scan of the Runs that could be served; it grants    *)
(* each a quantum and stops at the first that can pay for its item.  The   *)
(* scans before the last are batched: the number of rounds is computed and *)
(* every deficit settled at once.  An error branch of the code is Refused. *)
(***************************************************************************)
EXTENDS Integers

Refused == -1

(* Rounds until a deficit covers the cost.                                 *)
RequiredRounds(deficit, cost, quantum) ==
    IF deficit >= cost THEN 0
    ELSE LET missing == cost - deficit
         IN missing \div quantum + (IF missing % quantum = 0 THEN 0 ELSE 1)

(* A Run that was scanned in some rounds and could pay in none of them.    *)
AfterIncompleteRounds(deficit, cost, quantum, rounds) ==
    IF rounds = 0 THEN deficit
    ELSE IF \/ rounds >= RequiredRounds(deficit, cost, quantum)
            \/ deficit + quantum * rounds >= cost
         THEN Refused
         ELSE deficit + quantum * rounds

(* The Run that pays, in its last round.                                   *)
AfterClaim(deficit, cost, quantum, rounds) ==
    LET before == AfterIncompleteRounds(deficit, cost, quantum, rounds - 1)
        missing == cost - before
    IN IF rounds # RequiredRounds(deficit, cost, quantum) THEN Refused
       ELSE IF rounds = 0 THEN deficit - cost
       ELSE IF before = Refused \/ missing < 1 \/ missing > quantum THEN Refused
       ELSE quantum - missing
===============================================================================
