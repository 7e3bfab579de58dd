--------------------------- MODULE EffectDispatch ---------------------------
(***************************************************************************)
(* One Run driven by several executors (cymule-durable executor.rs and     *)
(* coordinator.rs): claim and takeover of its Continuation under a lease   *)
(* of a logical clock, the steps of its Plan, the outbox of its Effects,   *)
(* their dispatch to the provider, reconciliation, resolution by an        *)
(* operator, and cancellation.                                             *)
(*                                                                         *)
(* Every publication is one compare-and-commit on the head its coordinator *)
(* refreshed just before, so a read and the boundary derived from it are   *)
(* one step; losing the compare ends the drive and is Crash.  Only the     *)
(* read an Effect's claim leaves behind is used after a call of the        *)
(* provider, under pinned.  A Continuation's epoch moves with its fence.   *)
(* The lease of an intent is taken once, so its owner names the attempt.   *)
(***************************************************************************)
EXTENDS EffectProvider, Sequences, Functions

CONSTANTS
    Plans,          \* what a Run may be started with: the Effect steps of the root region
                    \* in order, the DispatchPolicy of the intents, and whether the root
                    \* Scope has more Effects than one page
    Bind,           \* intents whose step binds their result
    Queryable,      \* intents with ReconciliationMode Queryable
    Fragile,        \* intents whose implementation an executor may lack
    Rank,           \* the order of intent identities
    Decided,        \* what an operator may decide
    TTL, MaxTime, MaxFence      \* ttl of a claim; bounds on the clock, and on the fences of a
                                \* Run of every Plan

ASSUME PlanAssumption ==
    /\ \A plan \in Plans:
          /\ plan.steps \in Seq(Intents) /\ IsInjective(plan.steps)
          /\ plan.policy \in [Intents -> {"Eager", "OnScopeCommit", "Explicit"}]
          /\ plan.wide \in BOOLEAN
    /\ Rank \in [Intents -> Nat] /\ \A i, j \in Intents: Rank[i] = Rank[j] => i = j
    /\ Decided \subseteq Decisions \ {"Observe"}
    /\ None \notin Owners

ASSUME LeaseAssumption == TTL \in Nat \ {0} /\ MaxTime \in Nat /\ MaxFence \in [Plans -> Nat]

VARIABLES
    run,        \* the Continuation and the Core Run: status, claim, fence, position,
                \* the paged transition the Run is fenced by and its Plan
    out,        \* the outbox: state, claim owner and availability of every intent
    clock,      \* logical time at the head of the Run's clock scope
    holder,     \* the executor whose observation is that head
    worker,     \* what every executor is doing
    pinned,     \* executors whose retained read of the Run is of its current revision
    resolver,   \* the resolution an operator has asked the provider for
    sent,       \* history: dispatch requests sent for an intent
    released,   \* history: intents released explicitly
    author      \* history: fence of the claim the last publication was made under

ownVars == <<run, out, clock, holder, worker, pinned, resolver, sent, released, author>>
vars == <<ownVars, providerVars>>

Workers == Owners
NoClaim == [owner |-> None, fence |-> 0, expires |-> 0]
Claim == [owner: Workers, fence: Nat \ {0}, expires: 0..(MaxTime + TTL)]
Idle == [pc |-> "Idle", claim |-> NoClaim, intent |-> None, target |-> None,
         root |-> FALSE, reply |-> None]
Quiet == [intent |-> None, attempt |-> None, op |-> None, reply |-> None]
Replies == {None, "Applied", "NotApplied", "Unknown", "Error"}
Settled == {"Applied", "NotApplied", "CancelledBeforeRelease"}

RunRecord ==
    [status: {"Absent", "Ready", "Running", "Completed", "Cancelled"},
     fence: Nat, claim: Claim \cup {NoClaim}, fenced: {None, "Scope", "Cancel"},
     step: Nat, scope: {"Open", "Committed", "Aborted"}, plan: Plans]
OutboxRow ==
    [state: {None, "Pending", "Claimed", "Unknown"} \cup Settled,
     owner: Workers \cup {None}, avail: BOOLEAN]
WorkerRecord ==
    [pc: {"Idle", "Drive", "Closing", "Outbox", "Claimed", "Dispatching", "Asking", "Yield",
          "Complete"},
     claim: Claim \cup {NoClaim}, intent: Intents \cup {None}, target: Intents \cup {None},
     root: BOOLEAN, reply: Replies]
ResolverRecord ==
    [intent: Intents \cup {None}, attempt: Workers \cup {None}, op: Decided \cup {None},
     reply: Replies]

TypeOK ==
    /\ run \in RunRecord
    /\ run.step \in 1..(Len(run.plan.steps) + 1) /\ run.fence <= MaxFence[run.plan]
    /\ out \in [Intents -> OutboxRow]
    /\ clock \in 0..MaxTime
    /\ holder \in Workers \cup {None}
    /\ worker \in [Workers -> WorkerRecord]
    /\ pinned \subseteq Workers
    /\ resolver \in ResolverRecord
    /\ calls \subseteq Call /\ running \subseteq Call
    /\ ledger \in [Intents -> Row]
    /\ world \in [Intents -> Nat] /\ sent \in [Intents -> Nat]
    /\ released \subseteq Intents
    /\ author \in 0..run.fence

Init ==
    /\ \E plan \in Plans:
          run = [status |-> "Absent", fence |-> 0, claim |-> NoClaim, fenced |-> None,
                 step |-> 1, scope |-> "Open", plan |-> plan]
    /\ out = [i \in Intents |-> [state |-> None, owner |-> None, avail |-> TRUE]]
    /\ clock = 0 /\ holder = None
    /\ worker = [w \in Workers |-> Idle]
    /\ pinned = {} /\ resolver = Quiet
    /\ sent = [i \in Intents |-> 0] /\ released = {} /\ author = 0
    /\ ProviderInit

-------------------------------------------------------------------------------
\* What a drive reads.

FaultyCurrentClaim(w) ==    \* the fence of the claim is not compared
    run.status = "Running" /\ run.fenced = None

(* require_execution_claim_pinned.                                         *)
CurrentClaim(w) ==
    run.status = "Running" /\ run.fenced = None /\ run.claim = worker[w].claim

(* What read_next_dispatch selects from, given the intent to release.      *)
Dispatchable(i, target) ==
    IF target # None
    THEN /\ i = target
         /\ \/ out[i].state \in {"Claimed", "Unknown"}
            \/ out[i].state = "Pending" /\ run.plan.policy[i] = "Explicit" /\ run.scope = "Committed"
    ELSE \/ out[i].state \in {"Claimed", "Unknown"}
         \/ out[i].state = "Pending" /\ run.plan.policy[i] = "Eager"
         \/ out[i].state = "Pending" /\ run.plan.policy[i] = "OnScopeCommit" /\ run.scope = "Committed"

(* It takes the least identity.                                            *)
Selected(w, i) ==
    /\ worker[w].pc = "Outbox" /\ CurrentClaim(w)
    /\ Dispatchable(i, worker[w].target)
    /\ \A j \in Intents: Dispatchable(j, worker[w].target) => Rank[i] <= Rank[j]

Unreleased == {i \in Intents: run.plan.policy[i] = "Explicit" /\ out[i].state = "Pending"
                              /\ run.scope = "Committed"}

-------------------------------------------------------------------------------
\* How a step leaves the rest.

(* w's next place in the drive; nothing else of it changes.                *)
Goto(w, pc, i) == worker' = [worker EXCEPT ![w].pc = pc, ![w].intent = i]

(* One successful compare-and-commit of w: every retained read is of an    *)
(* older revision from now on.                                             *)
Publish(w) == author' = worker[w].claim.fence /\ pinned' = {}

Silent == UNCHANGED <<author, pinned>>
Outside == UNCHANGED <<clock, holder, resolver, sent, released, providerVars>>

Step(w) == worker[w].pc = "Drive" /\ CurrentClaim(w)
Finished == run.step > Len(run.plan.steps)
Current == run.plan.steps[run.step]

-------------------------------------------------------------------------------
\* Claims.

(* The system clock advances the logical time of the scope with every      *)
(* observation.                                                            *)
Observe(w) ==
    /\ worker[w].pc = "Idle"
    /\ clock' \in (clock + 1)..MaxTime
    /\ holder' = w
    /\ UNCHANGED <<run, out, worker, pinned, resolver, sent, released, author, providerVars>>

(* commit_with_current_execution_clock around derive_execution_claim: the  *)
(* observation is the head of its scope until the claim is published.      *)
Acquire(w, pc, target) ==
    LET claim == [owner |-> w, fence |-> run.fence + 1, expires |-> clock + TTL]
    IN /\ worker[w].pc = "Idle" /\ holder = w /\ run.fence < MaxFence[run.plan]
       /\ run' = [run EXCEPT !.status = "Running", !.fence = @ + 1, !.claim = claim]
       /\ worker' = [worker EXCEPT ![w] = [Idle EXCEPT !.pc = pc, !.claim = claim,
                                                       !.target = target]]
       /\ author' = claim.fence /\ pinned' = {}
       /\ UNCHANGED <<out, clock, holder, resolver, sent, providerVars>>

StartRun(w) == run.status = "Absent" /\ Acquire(w, "Drive", None) /\ UNCHANGED released

Resume(w) ==
    /\ run.status = "Ready" /\ run.fenced = None
    /\ Acquire(w, "Drive", None)
    /\ UNCHANGED released

Takeover(w) ==
    /\ run.status = "Running" /\ run.fenced = None
    /\ clock >= run.claim.expires
    /\ Acquire(w, "Drive", None)
    /\ UNCHANGED released

(* The drive of a release starts at its intent alone.                      *)
ReleaseEffect(w, i) ==
    /\ run.plan.policy[i] = "Explicit" /\ out[i].state # None /\ run.scope = "Committed"
    /\ run.status = "Ready" /\ run.fenced = None
    /\ Acquire(w, "Outbox", i)
    /\ released' = released \cup {i}

-------------------------------------------------------------------------------
\* The steps of a drive.

(* prepare_and_enqueue_effect and derive_pinned_effect_enqueue: an eager   *)
(* step waits for its Effect and dispatches at once, any other is passed.  *)
Enqueue(w) ==
    /\ Step(w) /\ ~Finished /\ out[Current].state = None /\ run.scope = "Open"
    /\ out' = [out EXCEPT ![Current].state = "Pending"]
    /\ run' = IF run.plan.policy[Current] = "Eager" THEN run ELSE [run EXCEPT !.step = @ + 1]
    /\ Goto(w, IF run.plan.policy[Current] = "Eager" THEN "Outbox" ELSE "Drive", None)
    /\ Publish(w) /\ Outside

(* advance_existing_effect_step, settled: a step that binds a result needs *)
(* one.                                                                    *)
AdvanceSettled(w) ==
    /\ Step(w) /\ ~Finished
    /\ \/ out[Current].state = "Applied"
       \/ out[Current].state \in Settled /\ Current \notin Bind
    /\ run' = [run EXCEPT !.step = @ + 1]
    /\ Publish(w)
    /\ UNCHANGED <<out, worker>> /\ Outside

FaultyNotAppliedYield(w) == \* the missing result does not end the drive
    /\ Step(w) /\ ~Finished
    /\ out[Current].state \in Settled \ {"Applied"} /\ Current \in Bind
    /\ Goto(w, "Outbox", None)
    /\ UNCHANGED <<run, out>> /\ Silent /\ Outside

NotAppliedYield(w) ==
    /\ Step(w) /\ ~Finished
    /\ out[Current].state \in Settled \ {"Applied"} /\ Current \in Bind
    /\ Goto(w, "Yield", Current)
    /\ UNCHANGED <<run, out>> /\ Silent /\ Outside

RetryEager(w) ==
    /\ Step(w) /\ ~Finished
    /\ out[Current].state \in {"Pending", "Claimed", "Unknown"}
    /\ Goto(w, "Outbox", None)
    /\ UNCHANGED <<run, out>> /\ Silent /\ Outside

(* finish_root_frame.  The close of a wide Scope is paged: the Run is      *)
(* fenced from its first publication to its last.                          *)
CommitRootScope(w) ==
    /\ Step(w) /\ Finished /\ run.scope = "Open" /\ ~run.plan.wide
    /\ run' = [run EXCEPT !.scope = "Committed"]
    /\ Publish(w)
    /\ UNCHANGED <<out, worker>> /\ Outside

BeginCommitRootScope(w) ==
    /\ Step(w) /\ Finished /\ run.scope = "Open" /\ run.plan.wide
    /\ run' = [run EXCEPT !.fenced = "Scope"]
    /\ Goto(w, "Closing", None)
    /\ Publish(w)
    /\ UNCHANGED out /\ Outside

FinishCommitRootScope(w) ==
    /\ worker[w].pc = "Closing"
    /\ run' = [run EXCEPT !.fenced = None, !.scope = "Committed"]
    /\ Goto(w, "Drive", None)
    /\ Publish(w)
    /\ UNCHANGED out /\ Outside

FinishRoot(w) ==
    /\ Step(w) /\ Finished /\ run.scope = "Committed"
    /\ worker' = [worker EXCEPT ![w].pc = "Outbox", ![w].root = TRUE]
    /\ UNCHANGED <<run, out>> /\ Silent /\ Outside

FaultyOutboxDone(w) ==  \* the end of the Plan does not look for unreleased Effects
    /\ worker[w].pc = "Outbox" /\ CurrentClaim(w)
    /\ \A i \in Intents: ~Dispatchable(i, worker[w].target)
    /\ worker' = [worker EXCEPT ![w].pc = IF worker[w].root THEN "Complete" ELSE "Drive",
                                ![w].intent = None, ![w].target = None]
    /\ UNCHANGED <<run, out>> /\ Silent /\ Outside

(* dispatch_outbox_pinned finds nothing more; at the end of the Plan what  *)
(* is still to be released ends the drive.                                 *)
OutboxDone(w) ==
    /\ worker[w].pc = "Outbox" /\ CurrentClaim(w)
    /\ \A i \in Intents: ~Dispatchable(i, worker[w].target)
    /\ worker' = [worker EXCEPT ![w].pc = IF ~worker[w].root THEN "Drive"
                                          ELSE IF Unreleased = {} THEN "Complete" ELSE "Yield",
                                ![w].intent = None, ![w].target = None]
    /\ UNCHANGED <<run, out>> /\ Silent /\ Outside

(* finish_nonterminal_boundary and derive_yield_ready: the reason must     *)
(* still be there.                                                         *)
Yieldable(w) ==
    IF worker[w].intent = None
    THEN Unreleased # {} /\ \A i \in Intents: out[i].state # "Unknown"
    ELSE out[worker[w].intent].state \in {"NotApplied", "Unknown"} \/ ~out[worker[w].intent].avail

YieldReady(w) ==
    /\ worker[w].pc = "Yield" /\ CurrentClaim(w) /\ Yieldable(w)
    /\ run' = [run EXCEPT !.status = "Ready", !.claim = NoClaim]
    /\ worker' = [worker EXCEPT ![w] = Idle]
    /\ Publish(w)
    /\ UNCHANGED out /\ Outside

(* The reducer's condition on CompleteRun (terminal_effects).              *)
Completable == \A i \in Intents: out[i].state \in Settled \cup {None}

CompleteRun(w) ==
    /\ worker[w].pc = "Complete" /\ CurrentClaim(w) /\ Completable
    /\ run' = [run EXCEPT !.status = "Completed", !.claim = NoClaim]
    /\ worker' = [worker EXCEPT ![w] = Idle]
    /\ Publish(w)
    /\ UNCHANGED out /\ Outside

-------------------------------------------------------------------------------
\* One selected Effect (dispatch_selected_effect).

FoundUnavailable(w, i) ==
    /\ Selected(w, i) /\ ~out[i].avail
    /\ Goto(w, "Yield", i)
    /\ UNCHANGED <<run, out>> /\ Silent /\ Outside

(* settle_unavailable_effect: this executor lacks the implementation.      *)
MarkUnavailable(w, i) ==
    /\ Selected(w, i) /\ out[i].avail /\ i \in Fragile
    /\ out' = [out EXCEPT ![i].avail = FALSE,
                          ![i].state = IF @ = "Pending" THEN "CancelledBeforeRelease"
                                       ELSE "Unknown"]
    /\ Goto(w, IF out[i].state = "Pending" THEN "Outbox" ELSE "Yield",
               IF out[i].state = "Pending" THEN None ELSE i)
    /\ UNCHANGED run /\ Publish(w) /\ Outside

FaultyObserveUnknown(w, i) ==   \* an interrupted claim is given back
    /\ Selected(w, i) /\ out[i].avail /\ out[i].state = "Claimed"
    /\ out' = [out EXCEPT ![i].state = "Pending", ![i].owner = None]
    /\ UNCHANGED <<run, worker>> /\ Publish(w) /\ Outside

(* The claim of a drive that ended: whether it dispatched is not known.    *)
ObserveUnknown(w, i) ==
    /\ Selected(w, i) /\ out[i].avail /\ out[i].state = "Claimed"
    /\ out' = [out EXCEPT ![i].state = "Unknown"]
    /\ UNCHANGED <<run, worker>> /\ Publish(w) /\ Outside

ClaimEffect(w, i) ==
    /\ Selected(w, i) /\ out[i].avail /\ out[i].state = "Pending"
    /\ out' = [out EXCEPT ![i].state = "Claimed", ![i].owner = w]
    /\ Goto(w, "Claimed", i)
    /\ author' = worker[w].claim.fence /\ pinned' = {w}
    /\ UNCHANGED run /\ Outside

GovernanceNeeded(w, i) ==
    /\ Selected(w, i) /\ out[i].avail /\ out[i].state = "Unknown" /\ i \notin Queryable
    /\ Goto(w, "Yield", i)
    /\ UNCHANGED <<run, out>> /\ Silent /\ Outside

Request(w, op, i, attempt) ==
    [op |-> op, intent |-> i, attempt |-> attempt, by |-> w, fence |-> worker[w].claim.fence]

(* reconcile_unknown_effect, up to the provider.                           *)
AskProvider(w, i) ==
    /\ Selected(w, i) /\ out[i].avail /\ out[i].state = "Unknown" /\ i \in Queryable
    /\ calls' = calls \cup {Request(w, "Observe", i, out[i].owner)}
    /\ Goto(w, "Asking", i)
    /\ pinned' = pinned \cup {w}
    /\ UNCHANGED <<run, out, clock, holder, resolver, sent, released, author,
                   running, ledger, world>>

(* require_effect_claim_current, then the provider.                        *)
Dispatch(w) ==
    LET i == worker[w].intent
    IN /\ worker[w].pc = "Claimed" /\ CurrentClaim(w) /\ w \in pinned
       /\ out[i].state = "Claimed" /\ out[i].owner = w
       /\ calls' = calls \cup {Request(w, "Dispatch", i, w)}
       /\ sent' = [sent EXCEPT ![i] = @ + 1]
       /\ Goto(w, "Dispatching", i)
       /\ UNCHANGED <<run, out, clock, holder, pinned, resolver, released, author,
                      running, ledger, world>>

(* The readback differs in the Run from the one acknowledged, because an   *)
(* operator resolved another Effect of it: the drive ends with an error.   *)
ReadbackMismatch(w) ==
    /\ worker[w].pc = "Claimed" /\ CurrentClaim(w) /\ w \notin pinned
    /\ worker' = [worker EXCEPT ![w] = Idle]
    /\ UNCHANGED <<run, out>> /\ Silent /\ Outside

(* dispatch_observation: no answer, or none that is valid, is Unknown.     *)
SettleDispatch(w) ==
    LET i == worker[w].intent
        outcome == IF worker[w].reply = "Error" THEN "Unknown" ELSE worker[w].reply
    IN /\ worker[w].pc = "Dispatching" /\ worker[w].reply # None
       /\ CurrentClaim(w) /\ w \in pinned
       /\ out' = [out EXCEPT ![i].state = outcome]
       /\ worker' = [worker EXCEPT ![w].pc = IF outcome = "Unknown" THEN "Yield" ELSE "Outbox",
                                   ![w].intent = IF outcome = "Unknown" THEN i ELSE None,
                                   ![w].reply = None]
       /\ UNCHANGED run /\ Publish(w) /\ Outside

FaultySettleReconcile(w) == \* the answer of a failed call is published like any other
    LET i == worker[w].intent
    IN /\ worker[w].pc = "Asking" /\ worker[w].reply # None
       /\ CurrentClaim(w) /\ w \in pinned
       /\ out' = [out EXCEPT ![i].state = worker[w].reply]
       /\ worker' = [worker EXCEPT ![w].pc = IF worker[w].reply = "Unknown" THEN "Yield" ELSE "Outbox",
                                   ![w].intent = IF worker[w].reply = "Unknown" THEN i ELSE None,
                                   ![w].reply = None]
       /\ UNCHANGED run /\ Publish(w) /\ Outside

(* A failed call publishes nothing; StillUnknown is published and ends the *)
(* drive as well.                                                          *)
SettleReconcile(w) ==
    LET i == worker[w].intent
    IN /\ worker[w].pc = "Asking" /\ worker[w].reply \notin {None, "Error"}
       /\ CurrentClaim(w) /\ w \in pinned
       /\ out' = [out EXCEPT ![i].state = worker[w].reply]
       /\ worker' = [worker EXCEPT ![w].pc = IF worker[w].reply = "Unknown" THEN "Yield" ELSE "Outbox",
                                   ![w].intent = IF worker[w].reply = "Unknown" THEN i ELSE None,
                                   ![w].reply = None]
       /\ UNCHANGED run /\ Publish(w) /\ Outside

UnansweredReconcile(w) ==
    /\ worker[w].pc = "Asking" /\ worker[w].reply = "Error"
    /\ worker' = [worker EXCEPT ![w].pc = "Yield", ![w].reply = None]
    /\ pinned' = pinned \ {w}
    /\ UNCHANGED <<run, out, author>> /\ Outside

(* The call ends without an answer; its request may still arrive.          *)
Timeout(w) ==
    /\ worker[w].pc \in {"Dispatching", "Asking"} /\ worker[w].reply = None
    /\ worker' = [worker EXCEPT ![w].reply = "Error"]
    /\ UNCHANGED <<run, out>> /\ Silent /\ Outside

-------------------------------------------------------------------------------
\* How a drive ends without its outcome.

Leave(w) ==
    /\ worker' = [worker EXCEPT ![w] = Idle]
    /\ pinned' = pinned \ {w}
    /\ UNCHANGED <<run, out, author>> /\ Outside

(* The claim, the revision or the reason of a boundary is no longer there. *)
Refused(w) ==
    LET pc == worker[w].pc
        settling == worker[w].reply # None /\ \/ pc = "Dispatching"
                                              \/ pc = "Asking" /\ worker[w].reply # "Error"
    IN /\ \/ pc \in {"Drive", "Outbox", "Claimed", "Yield", "Complete"} /\ ~CurrentClaim(w)
          \/ pc = "Yield" /\ ~Yieldable(w)
          \/ settling /\ (~CurrentClaim(w) \/ w \notin pinned)
       /\ Leave(w)

(* The process ends, or its coordinator loses a compare to another Run.    *)
Crash(w) == worker[w].pc # "Idle" /\ Leave(w)

-------------------------------------------------------------------------------
\* The provider, and the operator (resolve_effect_with_provider).

WorkerAwaits(w, c) ==
    /\ c.by = w /\ c.fence = worker[w].claim.fence /\ c.intent = worker[w].intent
    /\ worker[w].pc = IF c.op = "Dispatch" THEN "Dispatching" ELSE "Asking"
    /\ worker[w].reply = None

ResolverAwaits(c) ==
    /\ c.by = None /\ c.op = resolver.op /\ c.intent = resolver.intent
    /\ c.attempt = resolver.attempt /\ resolver.reply = None

(* An answer reaches the caller that is still waiting for it.              *)
Answer(c, reply) ==
    /\ worker' = [w \in Workers |-> IF WorkerAwaits(w, c)
                                     THEN [worker[w] EXCEPT !.reply = reply] ELSE worker[w]]
    /\ resolver' = IF ResolverAwaits(c) THEN [resolver EXCEPT !.reply = reply] ELSE resolver

NoAnswer == UNCHANGED <<worker, resolver>>

Provider ==
    /\ \/ \E c \in calls: \/ Admit(c) /\ NoAnswer
                          \/ Drop(c) /\ NoAnswer
                          \/ /\ c.op = "Dispatch" /\ ledger[c.intent].state # "Free"
                             /\ Drop(c) /\ Answer(c, DispatchAnswer(c))
                          \/ Reconcile(c) /\ Answer(c, ReconcileAnswer(c))
       \/ \E c \in running: \/ Apply(c) /\ Answer(c, "Applied")
                            \/ Stop(c) /\ NoAnswer
    /\ UNCHANGED <<run, out, clock, holder, pinned, sent, released, author>>

AskResolution(i, op) ==
    /\ resolver = Quiet /\ out[i].state = "Unknown"
    /\ resolver' = [Quiet EXCEPT !.intent = i, !.attempt = out[i].owner, !.op = op]
    /\ calls' = calls \cup {[op |-> op, intent |-> i, attempt |-> out[i].owner,
                             by |-> None, fence |-> 0]}
    /\ UNCHANGED <<run, out, clock, holder, worker, pinned, sent, released, author,
                   running, ledger, world>>

(* commit_effect_resolution_pinned reads the Effect again.  The provider's *)
(* answer is recorded, not the operator's decision.                        *)
CommitResolution ==
    /\ resolver.reply \in {"Applied", "NotApplied"} /\ run.fenced = None
    /\ out[resolver.intent].state = "Unknown"
    /\ out[resolver.intent].owner = resolver.attempt
    /\ out' = [out EXCEPT ![resolver.intent].state = resolver.reply]
    /\ resolver' = Quiet /\ author' = 0 /\ pinned' = {}
    /\ UNCHANGED <<run, clock, holder, worker, sent, released, providerVars>>

(* No terminal answer, a resolution that came too late, or the operator    *)
(* gives up.                                                               *)
DropResolution ==
    /\ resolver # Quiet
    /\ resolver' = Quiet
    /\ UNCHANGED <<run, out, clock, holder, worker, pinned, sent, released, author, providerVars>>

-------------------------------------------------------------------------------
\* cancel_run: always paged; repeating the request continues it.

BeginCancel ==
    /\ run.status \in {"Ready", "Running"} /\ run.fenced = None /\ run.fence < MaxFence[run.plan]
    /\ run' = [run EXCEPT !.fenced = "Cancel"]
    /\ author' = 0 /\ pinned' = {}
    /\ UNCHANGED <<out, worker>> /\ Outside

FinishCancel ==
    /\ run.fenced = "Cancel"
    /\ run' = [run EXCEPT !.status = "Cancelled", !.fenced = None, !.claim = NoClaim,
                          !.fence = @ + 1, !.scope = IF @ = "Open" THEN "Aborted" ELSE @]
    /\ out' = [i \in Intents |-> [out[i] EXCEPT !.state =
                 CASE @ = "Pending" -> "CancelledBeforeRelease"
                   [] @ = "Claimed" -> "Unknown"
                   [] OTHER -> @]]
    /\ author' = 0 /\ pinned' = {}
    /\ UNCHANGED worker /\ Outside

-------------------------------------------------------------------------------

Drive(w) ==
    \/ Enqueue(w) \/ AdvanceSettled(w) \/ NotAppliedYield(w) \/ RetryEager(w)
    \/ CommitRootScope(w) \/ BeginCommitRootScope(w) \/ FinishCommitRootScope(w)
    \/ FinishRoot(w) \/ OutboxDone(w) \/ YieldReady(w) \/ CompleteRun(w)
    \/ \E i \in Intents: \/ FoundUnavailable(w, i) \/ MarkUnavailable(w, i)
                          \/ ObserveUnknown(w, i) \/ ClaimEffect(w, i)
                          \/ GovernanceNeeded(w, i) \/ AskProvider(w, i)
    \/ Dispatch(w) \/ ReadbackMismatch(w) \/ SettleDispatch(w)
    \/ SettleReconcile(w) \/ UnansweredReconcile(w) \/ Refused(w)

Next ==
    \/ \E w \in Workers: \/ Observe(w) \/ StartRun(w) \/ Resume(w) \/ Takeover(w)
                          \/ \E i \in Intents: ReleaseEffect(w, i)
                          \/ Drive(w) \/ Timeout(w) \/ Crash(w)
    \/ Provider
    \/ \E i \in Intents, op \in Decided: AskResolution(i, op)
    \/ CommitResolution \/ DropResolution
    \/ BeginCancel \/ FinishCancel

(* An executor in a drive goes on, and no call of a provider is unbounded. *)
Fairness == \A w \in Workers: WF_vars(Drive(w)) /\ WF_vars(Timeout(w))

Spec == Init /\ [][Next]_vars
FairSpec == Spec /\ Fairness

-------------------------------------------------------------------------------
\* Properties.

(* Whatever executors crash, time out or take over in the middle of a      *)
(* drive, the provider is asked to dispatch an intent at most once: after  *)
(* its claim is durable the intent is reconciled (release_effect,          *)
(* executor.rs 641-645); and only what may leave the Run is dispatched:    *)
(* after the Scope committed unless eager, and if explicit only after its  *)
(* release.                                                                *)
DispatchLicensed ==
    \A i \in Intents: sent[i] > 0 =>
        /\ sent[i] = 1
        /\ run.plan.policy[i] # "Eager" => run.scope = "Committed"
        /\ run.plan.policy[i] = "Explicit" => i \in released

(* What the outbox records of the world is so and stays so: NotApplied and *)
(* CancelledBeforeRelease mean the world was not touched and no admitted   *)
(* dispatch can still touch it, Applied that the provider recorded it; and *)
(* the provider's row is bound to the attempt the outbox retains, so every *)
(* later question about it is answered.                                    *)
VerdictTrue ==
    \A i \in Intents:
        /\ out[i].state \in {"NotApplied", "CancelledBeforeRelease"}
              => world[i] = 0 /\ \A c \in running: c.intent # i
        /\ out[i].state = "Applied" => ledger[i].state = "Applied"
        /\ ledger[i].state # "Free" => ledger[i].attempt = out[i].owner

(* An executor whose lease has not run out on the clock of the Run is its  *)
(* owner until it gives up or the Run is cancelled (takeover_running), and *)
(* nothing is published under a claim that is no longer the Run's latest,  *)
(* at whatever point of its drive the old owner is.                        *)
OwnershipExclusive ==
    /\ author \in {0, run.fence}
    /\ \A w \in Workers:
          worker[w].pc # "Idle" /\ clock < worker[w].claim.expires /\ run.status # "Cancelled"
              => run.claim = worker[w].claim

(* A drive asks to complete the Run only when the reducer will allow it:   *)
(* no Effect is left unreleased, claimed or unknown.                       *)
CompletionAccepted ==
    \A w \in Workers: worker[w].pc = "Complete" /\ CurrentClaim(w) => Completable

(* Every drive ends: no loop between the steps of the Plan and the outbox, *)
(* and no place an executor cannot leave.                                  *)
DriveEnds == \A w \in Workers: worker[w].pc # "Idle" ~> worker[w].pc = "Idle"

(* Persisted Running recovery is an explicit takeover after expiry         *)
(* (specification.md 769): whenever the lease ran out and no transition is *)
(* under way, the holder of the clock's head can take the Run over.        *)
ExpiredRunTakeable ==
    \A w \in Workers:
        /\ run.status = "Running" /\ run.fenced # "Cancel" /\ clock >= run.claim.expires
        /\ \A v \in Workers: worker[v].pc # "Closing"
        /\ worker[w].pc = "Idle" /\ holder = w /\ run.fence < MaxFence[run.plan]
        => ENABLED Takeover(w)
===============================================================================
