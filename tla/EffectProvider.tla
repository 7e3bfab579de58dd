--------------------------- MODULE EffectProvider ---------------------------
(***************************************************************************)
(* The settlement ledger of an Effect provider (plugins/test-adapter       *)
(* src/main.rs), the reference for the contract of cymule-runtime          *)
(* plugin.rs: one row per intent, written before the world is touched; a   *)
(* reconciliation closes the admission of a first dispatch that is still   *)
(* on its way in the transaction that answers.                             *)
(*                                                                         *)
(* A request stays in calls until the provider takes it up, however long   *)
(* ago its caller has left; a request in running is between the two        *)
(* transactions of dispatch_effect.  A definition named Faulty... is the   *)
(* one that follows it with a plausible coding error; nothing uses it.     *)
(***************************************************************************)
EXTENDS Naturals

CONSTANTS Intents, Owners

VARIABLES
    calls,      \* requests on their way to the provider
    running,    \* dispatches admitted and not yet applied
    ledger,     \* one row per intent: its state and the attempt it is bound to
    world       \* how often the world was changed for an intent

providerVars == <<calls, running, ledger, world>>

None == "None"
NoRow == [state |-> "Free", attempt |-> None]

Decisions == {"Observe", "ResolveApplied", "ResolveNotApplied"}
Call == [op: {"Dispatch"} \cup Decisions, intent: Intents, attempt: Owners \cup {None},
         by: Owners \cup {None}, fence: Nat]
Row == [state: {"Free", "Dispatching", "Applied", "NotApplied"}, attempt: Owners \cup {None}]

ProviderInit ==
    /\ calls = {} /\ running = {}
    /\ ledger = [i \in Intents |-> NoRow]
    /\ world = [i \in Intents |-> 0]

-------------------------------------------------------------------------------

(* verify_effect_row: a row answers only the attempt it is bound to.       *)
Bound(c) == ledger[c.intent].state # "Free" /\ ledger[c.intent].attempt = c.attempt

(* First-dispatch admission, durable before the world is touched.          *)
Admit(c) ==
    /\ c \in calls /\ c.op = "Dispatch"
    /\ ledger[c.intent].state = "Free"
    /\ ledger' = [ledger EXCEPT ![c.intent] = [state |-> "Dispatching", attempt |-> c.attempt]]
    /\ calls' = calls \ {c}
    /\ running' = running \cup {c}
    /\ UNCHANGED world

Apply(c) ==
    /\ c \in running /\ ledger[c.intent].state = "Dispatching"
    /\ world' = [world EXCEPT ![c.intent] = @ + 1]
    /\ ledger' = [ledger EXCEPT ![c.intent].state = "Applied"]
    /\ running' = running \ {c}
    /\ UNCHANGED calls

(* It stops after the admission: the row stays Dispatching.                *)
Stop(c) ==
    /\ c \in running
    /\ running' = running \ {c}
    /\ UNCHANGED <<calls, ledger, world>>

(* A dispatch that finds a row, or a request that never arrives.           *)
Drop(c) ==
    /\ c \in calls
    /\ calls' = calls \ {c}
    /\ UNCHANGED <<running, ledger, world>>

DispatchAnswer(c) ==
    CASE ~Bound(c) -> "Error"
      [] ledger[c.intent].state = "Dispatching" -> "Unknown"
      [] OTHER -> ledger[c.intent].state

FaultyReconcile(c) ==   \* answers NotApplied and leaves the admission open
    /\ c \in calls /\ c.op \in Decisions
    /\ ledger' = IF c.op = "ResolveApplied" /\ ledger[c.intent].state = "Free"
                 THEN [ledger EXCEPT ![c.intent] = [state |-> "Applied", attempt |-> c.attempt]]
                 ELSE ledger
    /\ calls' = calls \ {c}
    /\ UNCHANGED <<running, world>>

(* reconcile_effect: without a row it writes the terminal one.             *)
Reconcile(c) ==
    /\ c \in calls /\ c.op \in Decisions
    /\ ledger' = IF ledger[c.intent].state = "Free"
                 THEN [ledger EXCEPT ![c.intent] =
                         [state |-> IF c.op = "ResolveApplied" THEN "Applied" ELSE "NotApplied",
                          attempt |-> c.attempt]]
                 ELSE ledger
    /\ calls' = calls \ {c}
    /\ UNCHANGED <<running, world>>

(* Its answer: the row it wrote, or the one it found.                      *)
ReconcileAnswer(c) ==
    CASE ledger[c.intent].state = "Free" /\ c.op = "ResolveApplied" -> "Applied"
      [] ledger[c.intent].state = "Free" /\ c.op # "ResolveApplied" -> "NotApplied"
      [] ledger[c.intent].state # "Free" /\ ~Bound(c) -> "Error"
      [] Bound(c) /\ ledger[c.intent].state = "Dispatching" -> "Unknown"
      [] OTHER -> ledger[c.intent].state
===============================================================================
