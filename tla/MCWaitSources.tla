---------------------------- MODULE MCWaitSources ----------------------------
(***************************************************************************)
(* A small instance of the wait sources.  Either two processes serve one   *)
(* spool of two signals for which one Run waits, or one process serves two *)
(* Runs that wait for the same signals, or two timer drivers serve one Run *)
(* that waits for two timers, the later one first and twice.               *)
(***************************************************************************)
EXTENDS WaitSources, TLC

CONSTANTS http, other, clock1, clock2, h1, q1, q2, q3

MCRunOf == 1 :> q1 @@ 2 :> q2 @@ 3 :> q3 @@ 4 :> q3 @@ 5 :> q3
MCSourceOf == 1 :> 1 @@ 2 :> 1 @@ 3 :> 4 @@ 4 :> 4 @@ 5 :> 3
MCFires == 1 :> 1 @@ 2 :> 1 @@ 3 :> 3 @@ 4 :> 4 @@ 5 :> 4
MCHomeOf == h1 :> http
MCDeployments == {[drivers |-> {http, other}, runs |-> {q1}],
                  [drivers |-> {http}, runs |-> {q1, q2}],
                  [drivers |-> {clock1, clock2}, runs |-> {q3}]}
==============================================================================
