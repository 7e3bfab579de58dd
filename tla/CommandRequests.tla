--------------------------- MODULE CommandRequests ---------------------------
(***************************************************************************)
(* What a client asks of the Machine: an atomic batch of commands, each    *)
(* with an identity of its own, and for every Run the batch touches the    *)
(* precondition token its first command expects (MachinePinnedBatchCommand *)
(* with MachinePinnedBatchPrecondition::Parent; the later commands of the  *)
(* same Run are Derived).  A token is "pre:epoch:last_event"; an Event is  *)
(* never the last one of its Run twice, so the number of commands applied  *)
(* to the Run stands for it, and 0 for the absent Run of StartRun.         *)
(* Actor, arguments and staged material are part of the request: two       *)
(* requests are equal when all of it is, which is what intent_hash and     *)
(* material_digest compare.                                                *)
(***************************************************************************)
EXTENDS Naturals, Sequences, FiniteSets

CONSTANTS
    Commands,       \* command identities
    Runs,           \* Run identities
    RunOf,          \* the Run a command addresses
    Kind,           \* what the command does, as far as admission differs
    Batches,        \* the command lists a client may submit
    MaxToken        \* MAX_EXACT_INTEGER as it bounds the Events of a Run

Kinds == {"Start", "Step", "Close", "End"}

ASSUME CommandAssumption ==
    /\ RunOf \in [Commands -> Runs]
    /\ Kind \in [Commands -> Kinds]
    /\ IsFiniteSet(Commands)
    /\ MaxToken \in Nat
(* verify_pinned_batch_commands: a batch is not empty, repeats no command, *)
(* FailRun and CancelRun are alone in theirs, and StartRun is the first    *)
(* command of its Run.                                                     *)
ASSUME BatchAssumption ==
    \A b \in Batches :
        /\ b \in Seq(Commands) /\ b # <<>>
        /\ \A i, j \in DOMAIN b : b[i] = b[j] => i = j
        /\ Len(b) > 1 => \A i \in DOMAIN b : Kind[b[i]] # "End"
        /\ \A i, j \in DOMAIN b :
              i < j /\ RunOf[b[i]] = RunOf[b[j]] => Kind[b[j]] # "Start"

Members(b) == {b[i] : i \in DOMAIN b}
Touched(b) == {RunOf[c] : c \in Members(b)}
Starts(b, q) == \E c \in Members(b) : RunOf[c] = q /\ Kind[c] = "Start"
CountOn(b, q) == Cardinality({c \in Members(b) : RunOf[c] = q})

Request == [cmds: Batches, pre: [Runs -> 0..MaxToken]]
==============================================================================
