--------------------------- MODULE CommandRegister ---------------------------
(***************************************************************************)
(* What command admission promises its clients, whatever happens to the    *)
(* processes in between: a request is admitted whole or not at all, no     *)
(* command identity is admitted twice, every admission consumes the exact  *)
(* state of the Runs its client saw, and a client is told of an admission  *)
(* only when it happened (Machine::submit is the one-process form of it).  *)
(***************************************************************************)
EXTENDS CommandRequests

CONSTANT Live       \* the Runs that had one command before the first step

VARIABLES
    admitted,       \* the requests that were applied
    version,        \* the number of commands applied to each Run
    acked           \* the requests some client knows to be applied

registerVars == <<admitted, version, acked>>

RegisterInit ==
    /\ admitted = {}
    /\ version = [q \in Runs |-> IF q \in Live THEN 1 ELSE 0]
    /\ acked = {}

Admit(r) ==
    /\ \A s \in admitted : Members(s.cmds) \cap Members(r.cmds) = {}
    /\ \A q \in Touched(r.cmds) : version[q] = r.pre[q]
    /\ admitted' = admitted \cup {r}
    /\ version' = [q \in Runs |-> version[q] + CountOn(r.cmds, q)]

(* The admission and the answer to its client, or an answer on a replay.   *)
AdmitAndAck(r) == Admit(r) /\ acked' = acked \cup {r}
AdmitUnheard(r) == Admit(r) /\ UNCHANGED acked
Ack(r) ==
    /\ r \in admitted
    /\ acked' = acked \cup {r}
    /\ UNCHANGED <<admitted, version>>

RegisterNext == \E r \in Request : AdmitAndAck(r) \/ AdmitUnheard(r) \/ Ack(r)

RegisterSpec == RegisterInit /\ [][RegisterNext]_registerVars

(* Two admitted requests never consumed the same state of a Run, nor share *)
(* a command: the history of every Run is one line.                        *)
HistoryIsLinear ==
    \A r, s \in admitted : r # s =>
        /\ Members(r.cmds) \cap Members(s.cmds) = {}
        /\ \A q \in Touched(r.cmds) \cap Touched(s.cmds) : r.pre[q] # s.pre[q]
==============================================================================
