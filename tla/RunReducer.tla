------------------------------ MODULE RunReducer ------------------------------
(***************************************************************************)
(* The projection reducer of one Run (cymule-core, model.rs) together with *)
(* the admission rules of Machine that decide which commands reach it      *)
(* (machine.rs).  Every action is one accepted command and the Event it    *)
(* produces; a refused command changes nothing, because Machine rolls the  *)
(* projection entry back (ProjectionEntryUndo), and is not a step here.    *)
(*                                                                         *)
(* A key missing from one of the projection's maps is "None": the scope    *)
(* status, the Effect phase, the obligation.  An Attempt that was never    *)
(* started has fence 0, which no started Attempt can have.                 *)
(*                                                                         *)
(* The variables from `active` on are RunDerivedIndex: the reducer never   *)
(* recomputes it, it edits it with every Event and takes its decisions     *)
(* (may this scope close, may the Run complete, which Effects must be      *)
(* cancelled) from it alone.                                               *)
(*                                                                         *)
(* Scope, Effect and obligation identities are digests of the Plan, the    *)
(* lexical location and the arguments, so an identity determines them:     *)
(* that is what the constant functions Parent, ScopePlan, EffectScope,     *)
(* OriginPlan and Profile stand for.                                       *)
(***************************************************************************)
EXTENDS Naturals, FiniteSets

CONSTANTS
    Plans,          \* sealed Plans the Machine holds
    Bindings,       \* execution-binding Artifacts the Machine holds
    Scopes,         \* the nested scopes any of the Plans can open
    Root,           \* ROOT_SCOPE_ID, opened by RunStarted
    Parent,         \* lexical parent of a nested scope
    ScopePlan,      \* the Plan whose body holds a nested scope
    Effects,        \* Effect intents any of the Plans can propose
    EffectScope,    \* the scope that owns an intent
    OriginPlan,     \* the Plan that declares an intent
    Profile,        \* the declared EffectProfile of an intent
    Attempts,       \* Attempt identities
    MaxEpoch,       \* MAX_EXACT_INTEGER as it bounds epochs
    MaxFence        \* MAX_EXACT_INTEGER as it bounds execution fences

None == "None"
AllScopes == Scopes \cup {Root}

Profiles == [mutation: {"Mutating", "Observational"},
             dispatch: {"Eager", "OnScopeCommit", "Explicit"},
             reconciliation: {"Queryable", "ExternallyAttested", "Human", "Impossible"}]

ASSUME BoundAssumption == MaxEpoch \in Nat /\ MaxFence \in Nat \ {0}
ASSUME IdentityAssumption ==
    /\ None \notin Attempts
    /\ Root \notin Scopes
    /\ IsFiniteSet(Scopes)
    /\ IsFiniteSet(Effects)
(* A nested scope's parent belongs to the same Plan, or is the Root scope, *)
(* which every Plan of the lineage shares (validate_execution_location).   *)
ASSUME ScopeAssumption ==
    /\ Parent \in [Scopes -> AllScopes]
    /\ ScopePlan \in [Scopes -> Plans]
    /\ \A s \in Scopes : Parent[s] # s
    /\ \A s \in Scopes : Parent[s] # Root => ScopePlan[Parent[s]] = ScopePlan[s]
(* PlanCandidate::validate refuses a mutating Effect with eager dispatch.  *)
ASSUME EffectAssumption ==
    /\ EffectScope \in [Effects -> AllScopes]
    /\ OriginPlan \in [Effects -> Plans]
    /\ Profile \in [Effects -> Profiles]
    /\ \A e \in Effects : EffectScope[e] # Root => ScopePlan[EffectScope[e]] = OriginPlan[e]
    /\ \A e \in Effects :
          Profile[e].mutation = "Mutating" => Profile[e].dispatch # "Eager"

VARIABLES
    status,         \* RunExecutionStatus, or "None" before RunStarted
    epoch,          \* the Run's execution epoch
    plan, binding,  \* current_plan and current_binding_context
    scope,          \* [AllScopes -> ScopeStatus or "None"]
    eff,            \* [Effects -> EffectProjection]
    obl,            \* [Effects -> obligation of the intent, or "None"]
    att,            \* [Attempts -> AttemptProjection]
    settlement,     \* WorldSettlementStatus
    active,         \* active_attempt
    governance, unknown, pending,   \* unsettled Effects by settlement class
    terminal,       \* Effects that the end of the Run has to move
    unresolved,     \* unresolved_blocking_obligations
    open,           \* open_scope_ids
    descendants,    \* number of open direct children of a scope
    intents, mutating, abortMoves, abortBlockers,   \* open_scope_effects
    count,          \* effect_count_by_scope
    committed       \* committed_effect_count

projection == <<status, epoch, plan, binding, scope, eff, obl, att, settlement>>
classes == <<governance, unknown, pending, terminal>>
entries == <<intents, mutating, abortMoves, abortBlockers>>
vars == <<projection, active, classes, unresolved, open, descendants, entries, count, committed>>

-------------------------------------------------------------------------------
(* The types of the projection.                                            *)

RunStatus    == {"Active", "Completed", "Failed", "Cancelled"}
Settlement   == {"Settled", "Pending", "Unknown", "GovernanceRequired"}
ScopeStatus  == {"Open", "ClosedCommitted", "ClosedAborted"}
Phases       == {"Admitted", "Prepared", "ReleaseAuthorized", "DispatchStarted",
                 "CancelledBeforeRelease"}
Outcomes     == {"Unobserved", "Applied", "NotApplied", "Unknown"}
Known        == {"Applied", "NotApplied"}
Resolutions  == {"ResolvedApplied", "ResolvedNotApplied", "StillUnknown",
                 "GovernanceRequired"}
ReconStates  == {"NotRequired", "Pending", "Resolved", "GovernanceRequired"}
Availability == {"Available", "Unavailable"}

EffectRecord == [binding: Bindings \cup {None}, avail: Availability,
                 phase: Phases \cup {None}, outcome: Outcomes, recon: ReconStates]
AttemptRecord == [epoch: 0..MaxEpoch, fence: 0..MaxFence, active: BOOLEAN]

NoEffect == [binding |-> None, avail |-> "Available", phase |-> None,
             outcome |-> "Unobserved", recon |-> "NotRequired"]
NoAttempt == [epoch |-> 0, fence |-> 0, active |-> FALSE]

Mutating(e) == Profile[e].mutation = "Mutating"
Proposed == {e \in Effects : eff[e].phase # None}

-------------------------------------------------------------------------------
(* What one Effect contributes to the index.                               *)
(*                                                                         *)
(* A definition named Faulty... is the next one with a plausible coding    *)
(* error in it.  Nothing uses it: it documents an error the properties     *)
(* below are able to see.                                                  *)

SettlementClass(f) ==
    IF f.recon = "GovernanceRequired" THEN "GovernanceRequired"
    ELSE IF f.outcome = "Unknown" THEN "Unknown"
    ELSE IF f.phase # "CancelledBeforeRelease" /\ f.outcome = "Unobserved" THEN "Pending"
    ELSE "Settled"

FaultyNeedsTerminalTransition(f) ==   \* a released Effect is forgotten
    \/ f.phase = "DispatchStarted" /\ f.outcome = "Unobserved"
    \/ f.phase \in {"Admitted", "Prepared"}

NeedsTerminalTransition(f) ==
    \/ f.phase = "DispatchStarted" /\ f.outcome = "Unobserved"
    \/ f.phase \notin {"DispatchStarted", "CancelledBeforeRelease"}

NeedsAbortTransition(f) == f.phase \in {"Admitted", "Prepared"}

BlocksAbort(e, f) == Mutating(e) /\ f.phase \in {"ReleaseAuthorized", "DispatchStarted"}

Cancelled(f) == [binding |-> f.binding, avail |-> f.avail,
                 phase |-> "CancelledBeforeRelease", outcome |-> "NotApplied",
                 recon |-> "Resolved"]

ReconStateForUnknown(e) ==
    IF Profile[e].reconciliation \in {"Queryable", "ExternallyAttested"}
    THEN "Pending" ELSE "GovernanceRequired"

FaultyTerminalizedEffect(e, f) ==   \* cancels what was already dispatched
    IF f.phase = "DispatchStarted" /\ f.outcome # "Unobserved" THEN f ELSE Cancelled(f)

TerminalizedEffect(e, f) ==
    CASE f.phase = "DispatchStarted" /\ f.outcome = "Unobserved" ->
            [f EXCEPT !.outcome = "Unknown", !.recon = ReconStateForUnknown(e)]
      [] f.phase = "DispatchStarted" /\ f.outcome # "Unobserved" -> f
      [] OTHER -> Cancelled(f)

IsOpen(e) == scope[EffectScope[e]] = "Open"

Class(c, S, fs) == {e \in S : SettlementClass(fs[e]) = c}

(* The reducer reports a corrupt index instead of applying the Event.      *)
Indexed(S) ==
    /\ Class("GovernanceRequired", S, eff) = governance \cap S
    /\ Class("Unknown", S, eff) = unknown \cap S
    /\ Class("Pending", S, eff) = pending \cap S

(* The Effects S, and only they, go from eff to fs: remove_effect_state    *)
(* with the old projection, then add_effect_state with the new one.        *)
Reclassify(S, fs) ==
    /\ governance' = (governance \ Class("GovernanceRequired", S, eff))
                         \cup Class("GovernanceRequired", S, fs)
    /\ unknown' = (unknown \ Class("Unknown", S, eff)) \cup Class("Unknown", S, fs)
    /\ pending' = (pending \ Class("Pending", S, eff)) \cup Class("Pending", S, fs)
    /\ terminal' = (terminal \ S) \cup {e \in S : NeedsTerminalTransition(fs[e])}

(* The same two steps for the index entry of an open scope.                *)
ReclassifyOpen(S, fs) ==
    LET here == {e \in S : IsOpen(e)} IN
    /\ abortMoves' = (abortMoves \ here) \cup {e \in here : NeedsAbortTransition(fs[e])}
    /\ abortBlockers' = (abortBlockers \ here) \cup {e \in here : BlocksAbort(e, fs[e])}

IndexSettlement ==
    IF governance # {} THEN "GovernanceRequired"
    ELSE IF unknown # {} THEN "Unknown"
    ELSE IF pending # {} THEN "Pending"
    ELSE "Settled"

(* update_obligation: an obligation follows the outcome of its Effect.     *)
FaultyObligationResolved(f) == f.outcome = "Applied"   \* misses NotApplied

ObligationResolved(f) == f.phase = "CancelledBeforeRelease" \/ f.outcome \in Known

UpdatedObligations(S, fs) ==
    [e \in Effects |->
        IF e \in S /\ obl[e] # None
        THEN IF ObligationResolved(fs[e]) THEN "Resolved" ELSE "Unresolved"
        ELSE obl[e]]

UpdatedUnresolved(S, fs) ==
    LET owed == {e \in S : obl[e] # None} IN
    (unresolved \ owed) \cup {e \in owed : ~ObligationResolved(fs[e])}

(* index_closed_scope: the entry of s is dropped, its parent loses a child.*)
CloseIndex(s, isCommit) ==
    LET Others(S) == {e \in S : EffectScope[e] # s} IN
    /\ open' = open \ {s}
    /\ intents' = Others(intents)
    /\ mutating' = Others(mutating)
    /\ abortMoves' = Others(abortMoves)
    /\ abortBlockers' = Others(abortBlockers)
    /\ descendants' = IF s = Root THEN descendants
                      ELSE [descendants EXCEPT ![Parent[s]] = @ - 1]
    /\ committed' = IF isCommit
                    THEN committed + Cardinality({e \in intents : EffectScope[e] = s})
                    ELSE committed

-------------------------------------------------------------------------------
Init ==
    /\ status = None
    /\ epoch = 0
    /\ plan = None
    /\ binding = None
    /\ scope = [s \in AllScopes |-> None]
    /\ eff = [e \in Effects |-> NoEffect]
    /\ obl = [e \in Effects |-> None]
    /\ att = [a \in Attempts |-> NoAttempt]
    /\ settlement = "Settled"
    /\ active = None
    /\ governance = {} /\ unknown = {} /\ pending = {} /\ terminal = {}
    /\ unresolved = {}
    /\ open = {}
    /\ descendants = [s \in AllScopes |-> 0]
    /\ intents = {} /\ mutating = {} /\ abortMoves = {} /\ abortBlockers = {}
    /\ count = [s \in AllScopes |-> 0]
    /\ committed = 0

(* RunStarted and the initial AttemptStarted are one atomic batch.         *)
StartRun(p, b, a) ==
    /\ status = None
    /\ status' = "Active"
    /\ plan' = p
    /\ binding' = b
    /\ scope' = [scope EXCEPT ![Root] = "Open"]
    /\ att' = [att EXCEPT ![a] = [epoch |-> 0, fence |-> 1, active |-> TRUE]]
    /\ active' = a
    /\ open' = {Root}
    /\ UNCHANGED <<epoch, eff, obl, settlement, classes, unresolved, descendants, entries,
                   count, committed>>

BeginAttempt(a, ep, f) ==
    /\ status = "Active"
    /\ ep = epoch
    /\ f >= 1
    /\ att[a].fence = 0
    /\ active = None
    /\ att' = [att EXCEPT ![a] = [epoch |-> ep, fence |-> f, active |-> TRUE]]
    /\ active' = a
    /\ UNCHANGED <<status, epoch, plan, binding, scope, eff, obl, settlement, classes,
                   unresolved, open, descendants, entries, count, committed>>

YieldAttempt(a, ep, f) ==
    /\ status = "Active"
    /\ f >= 1
    /\ att[a] = [epoch |-> ep, fence |-> f, active |-> TRUE]
    /\ att' = [att EXCEPT ![a].active = FALSE]
    /\ active' = None
    /\ UNCHANGED <<status, epoch, plan, binding, scope, eff, obl, settlement, classes,
                   unresolved, open, descendants, entries, count, committed>>

(* The Attempt the index calls active loses its execution authority.       *)
FaultyDeactivated == att   \* the fenced Attempt stays active

Deactivated == [a \in Attempts |->
                   IF a = active THEN [att[a] EXCEPT !.active = FALSE] ELSE att[a]]

(* checked_add(1) filtered by MAX_EXACT_INTEGER.  A migration, a failure   *)
(* and a cancellation take an epoch as well and none is reserved for them: *)
(* at the last epoch all four are refused.                                 *)
FaultyEpochUnchecked == TRUE
EpochCanAdvance == epoch + 1 <= MaxEpoch

AdvanceEpoch ==
    /\ status = "Active"
    /\ EpochCanAdvance
    /\ epoch' = epoch + 1
    /\ att' = Deactivated
    /\ active' = None
    /\ UNCHANGED <<status, plan, binding, scope, eff, obl, settlement, classes,
                   unresolved, open, descendants, entries, count, committed>>

OpenScope(s) ==
    /\ status = "Active"
    /\ ScopePlan[s] = plan
    /\ scope[s] = None
    /\ scope[Parent[s]] = "Open"
    /\ scope' = [scope EXCEPT ![s] = "Open"]
    /\ open' = open \cup {s}
    /\ descendants' = [descendants EXCEPT ![Parent[s]] = @ + 1]
    /\ UNCHANGED <<status, epoch, plan, binding, eff, obl, att, settlement, active, classes,
                   unresolved, entries, count, committed>>

NewEffect(b) == [binding |-> b, avail |-> "Available", phase |-> "Admitted",
                 outcome |-> "Unobserved", recon |-> "NotRequired"]

ProposeEffect(e, b) ==
    /\ status = "Active"
    /\ eff[e].phase = None
    /\ OriginPlan[e] = plan
    /\ b = binding
    /\ IsOpen(e)
    /\ eff' = [eff EXCEPT ![e] = NewEffect(b)]
    /\ pending' = pending \cup {e}
    /\ terminal' = terminal \cup {e}
    /\ intents' = intents \cup {e}
    /\ mutating' = IF Mutating(e) THEN mutating \cup {e} ELSE mutating
    /\ abortMoves' = abortMoves \cup {e}
    /\ count' = [count EXCEPT ![EffectScope[e]] = @ + 1]
    /\ UNCHANGED <<status, epoch, plan, binding, scope, obl, att, active, governance, unknown,
                   unresolved, open, descendants, abortBlockers, committed>>
    /\ settlement' = IndexSettlement'

(* apply_effect_transitioned: Effect e becomes f.                          *)
TransitionEffect(e, f) ==
    LET fs == [eff EXCEPT ![e] = f]
    IN  /\ Indexed({e})
        /\ eff' = fs
        /\ Reclassify({e}, fs)
        /\ ReclassifyOpen({e}, fs)
        /\ obl' = UpdatedObligations({e}, fs)
        /\ unresolved' = UpdatedUnresolved({e}, fs)
        /\ settlement' = IndexSettlement'
        /\ UNCHANGED <<status, epoch, plan, binding, scope, att, active, open, descendants,
                       intents, mutating, count, committed>>

Prepare(e) ==
    /\ status = "Active"
    /\ eff[e].phase = "Admitted"
    /\ TransitionEffect(e, [eff[e] EXCEPT !.phase = "Prepared"])

AuthorizeRelease(e) ==
    /\ status = "Active"
    /\ eff[e].phase = "Prepared"
    /\ eff[e].avail = "Available"
    /\ IF Profile[e].dispatch = "Eager"
       THEN scope[EffectScope[e]] # "ClosedAborted"
       ELSE scope[EffectScope[e]] = "ClosedCommitted"
    /\ TransitionEffect(e, [eff[e] EXCEPT !.phase = "ReleaseAuthorized"])

StartDispatch(e) ==
    /\ status = "Active"
    /\ eff[e].phase = "ReleaseAuthorized"
    /\ eff[e].avail = "Available"
    /\ TransitionEffect(e, [eff[e] EXCEPT !.phase = "DispatchStarted"])

Observe(e, o) ==
    /\ status = "Active"
    /\ eff[e].phase = "DispatchStarted"
    /\ eff[e].avail = "Available"
    /\ eff[e].outcome = "Unobserved"
    /\ o # "Unobserved"
    /\ TransitionEffect(e, [eff[e] EXCEPT
           !.outcome = o,
           !.recon = IF o = "Unknown" THEN ReconStateForUnknown(e) ELSE "NotRequired"])

ReconcileAllowed(e, r) ==
    IF Profile[e].reconciliation \in {"Queryable", "ExternallyAttested"}
    THEN eff[e].recon = "Pending" /\ r # "GovernanceRequired"
    ELSE eff[e].recon = "GovernanceRequired" /\ r \in {"ResolvedApplied", "ResolvedNotApplied"}

Reconciled(f, r) ==
    CASE r = "ResolvedApplied"    -> [f EXCEPT !.outcome = "Applied", !.recon = "Resolved"]
      [] r = "ResolvedNotApplied" -> [f EXCEPT !.outcome = "NotApplied", !.recon = "Resolved"]
      [] r = "StillUnknown"       -> [f EXCEPT !.recon = "Pending"]
      [] r = "GovernanceRequired" -> [f EXCEPT !.recon = "GovernanceRequired"]

(* The one command a Failed or Cancelled Run still accepts.                *)
Reconcile(e, r) ==
    /\ status \in {"Active", "Failed", "Cancelled"}
    /\ eff[e].phase = "DispatchStarted"
    /\ eff[e].outcome = "Unknown"
    /\ \/ ReconcileAllowed(e, r)
       \/ /\ eff[e].avail = "Unavailable"
          /\ eff[e].recon = "GovernanceRequired"
          /\ r \in {"ResolvedApplied", "ResolvedNotApplied"}
    /\ TransitionEffect(e, Reconciled(eff[e], r))

MadeUnavailable(f) ==
    IF f.phase = "DispatchStarted"
    THEN [f EXCEPT !.avail = "Unavailable", !.outcome = "Unknown",
                   !.recon = "GovernanceRequired"]
    ELSE Cancelled([f EXCEPT !.avail = "Unavailable"])

FaultyMarkUnavailable(e) ==   \* neither the Run nor the outcome is looked at
    /\ eff[e].phase \notin {None, "CancelledBeforeRelease"}
    /\ eff[e].avail = "Available"
    /\ TransitionEffect(e, MadeUnavailable(eff[e]))

MarkUnavailable(e) ==
    /\ status = "Active"
    /\ eff[e].phase \notin {None, "CancelledBeforeRelease"}
    /\ eff[e].avail = "Available"
    /\ eff[e].outcome \notin Known
    /\ TransitionEffect(e, MadeUnavailable(eff[e]))

(* open_scope_close_index: the child count stands for the whole subtree.   *)
FaultyMayClose(s) == scope[s] = "Open" /\ s \in open   \* open children ignored

MayClose(s) == scope[s] = "Open" /\ descendants[s] = 0 /\ s \in open

CommitScope(s) ==
    LET mine == {e \in mutating : EffectScope[e] = s}
        resolved == {e \in mine : eff[e].outcome \in Known}
    IN  /\ status = "Active"
        /\ MayClose(s)
        /\ scope' = [scope EXCEPT ![s] = "ClosedCommitted"]
        /\ CloseIndex(s, TRUE)
        /\ obl' = [e \in Effects |->
                     IF e \in resolved THEN "Resolved"
                     ELSE IF e \in mine THEN "Unresolved" ELSE obl[e]]
        /\ unresolved' = unresolved \cup (mine \ resolved)
        /\ UNCHANGED <<status, epoch, plan, binding, eff, att, settlement, active, classes,
                       count>>

AbortScope(s) ==
    LET moved == {e \in abortMoves : EffectScope[e] = s}
        fs == [e \in Effects |-> IF e \in moved THEN Cancelled(eff[e]) ELSE eff[e]]
    IN  /\ status = "Active"
        /\ MayClose(s)
        /\ \A e \in abortBlockers : EffectScope[e] # s
        /\ Indexed(moved)
        /\ eff' = fs
        /\ Reclassify(moved, fs)
        /\ scope' = [scope EXCEPT ![s] = "ClosedAborted"]
        /\ CloseIndex(s, FALSE)
        /\ settlement' = IndexSettlement'
        /\ UNCHANGED <<status, epoch, plan, binding, obl, att, active, unresolved, count>>

UpdateBinding(b) ==
    /\ status = "Active"
    /\ binding' = b
    /\ UNCHANGED <<status, epoch, plan, scope, eff, obl, att, settlement, active, classes,
                   unresolved, open, descendants, entries, count, committed>>

MigrateRun(p, b) ==
    /\ status = "Active"
    /\ p # plan
    /\ active = None
    /\ EpochCanAdvance
    /\ plan' = p
    /\ binding' = b
    /\ epoch' = epoch + 1
    /\ UNCHANGED <<status, scope, eff, obl, att, settlement, active, classes,
                   unresolved, open, descendants, entries, count, committed>>

CompleteRun ==
    /\ status = "Active"
    /\ active = None
    /\ unresolved = {}
    /\ open = {}
    /\ IndexSettlement = "Settled"
    /\ status' = "Completed"
    /\ UNCHANGED <<epoch, plan, binding, scope, eff, obl, att, settlement, active, classes,
                   unresolved, open, descendants, entries, count, committed>>

(* terminate_run_execution, shared by RunFailed and RunCancelled.          *)
Terminate(reason) ==
    LET fs == [e \in Effects |->
                 IF e \in terminal THEN TerminalizedEffect(e, eff[e]) ELSE eff[e]]
    IN  /\ status = "Active"
        /\ EpochCanAdvance
        /\ Indexed(terminal)
        /\ status' = reason
        /\ epoch' = epoch + 1
        /\ att' = Deactivated
        /\ active' = None
        /\ eff' = fs
        /\ Reclassify(terminal, fs)
        /\ obl' = UpdatedObligations(terminal, fs)
        /\ unresolved' = UpdatedUnresolved(terminal, fs)
        /\ scope' = [s \in AllScopes |-> IF s \in open THEN "ClosedAborted" ELSE scope[s]]
        /\ open' = {}
        /\ descendants' = [s \in AllScopes |-> 0]
        /\ intents' = {} /\ mutating' = {} /\ abortMoves' = {} /\ abortBlockers' = {}
        /\ settlement' = IndexSettlement'
        /\ UNCHANGED <<plan, binding, count, committed>>

FailRun == Terminate("Failed")
CancelRun == Terminate("Cancelled")

AttemptStep ==
    \/ \E a \in Attempts, ep \in 0..MaxEpoch, f \in 0..MaxFence :
          BeginAttempt(a, ep, f) \/ YieldAttempt(a, ep, f)
    \/ AdvanceEpoch

EffectStep ==
    \E e \in Effects :
        \/ \E b \in Bindings : ProposeEffect(e, b)
        \/ Prepare(e) \/ AuthorizeRelease(e) \/ StartDispatch(e) \/ MarkUnavailable(e)
        \/ \E o \in Outcomes : Observe(e, o)
        \/ \E r \in Resolutions : Reconcile(e, r)

ScopeStep ==
    \/ \E s \in Scopes : OpenScope(s)
    \/ \E s \in AllScopes : CommitScope(s) \/ AbortScope(s)

RunStep ==
    \/ \E p \in Plans, b \in Bindings :
          \/ \E a \in Attempts : StartRun(p, b, a)
          \/ MigrateRun(p, b)
    \/ \E b \in Bindings : UpdateBinding(b)
    \/ CompleteRun \/ FailRun \/ CancelRun

Next == AttemptStep \/ EffectStep \/ ScopeStep \/ RunStep

Spec == Init /\ [][Next]_vars

-------------------------------------------------------------------------------
(* What a restore recomputes from the canonical projection.                *)

RebuiltActive == {a \in Attempts : att[a].active}
RebuiltClass(c) == Class(c, Proposed, eff)
RebuiltTerminal == {e \in Proposed : NeedsTerminalTransition(eff[e])}
RebuiltIntents == {e \in Proposed : IsOpen(e)}
RebuiltDescendants ==
    [p \in AllScopes |-> Cardinality({s \in Scopes : scope[s] = "Open" /\ Parent[s] = p})]
RebuiltCount == [s \in AllScopes |-> Cardinality({e \in Proposed : EffectScope[e] = s})]
RebuiltCommitted ==
    Cardinality({e \in Proposed : scope[EffectScope[e]] = "ClosedCommitted"})

DerivedSettlement ==
    IF \E e \in Proposed : eff[e].recon = "GovernanceRequired" THEN "GovernanceRequired"
    ELSE IF \E e \in Proposed : eff[e].outcome = "Unknown" THEN "Unknown"
    ELSE IF \E e \in Proposed : /\ eff[e].phase # "CancelledBeforeRelease"
                                /\ eff[e].outcome = "Unobserved" THEN "Pending"
    ELSE "Settled"

(* verify_effect_reducer_state                                             *)
LegalEffect(e, f) ==
    \/ /\ f.phase \in {"Admitted", "Prepared", "ReleaseAuthorized"}
       /\ f.avail = "Available" /\ f.outcome = "Unobserved" /\ f.recon = "NotRequired"
    \/ /\ f.phase = "CancelledBeforeRelease"
       /\ f.outcome = "NotApplied" /\ f.recon = "Resolved"
    \/ /\ f.phase = "DispatchStarted" /\ f.avail = "Available"
       /\ \/ f.outcome = "Unobserved" /\ f.recon = "NotRequired"
          \/ f.outcome \in Known /\ f.recon \in {"NotRequired", "Resolved"}
          \/ /\ f.outcome = "Unknown" /\ f.recon = "Pending"
             /\ Profile[e].reconciliation \in {"Queryable", "ExternallyAttested"}
          \/ /\ f.outcome = "Unknown" /\ f.recon = "GovernanceRequired"
             /\ Profile[e].reconciliation \in {"Human", "Impossible"}
    \/ /\ f.phase = "DispatchStarted" /\ f.avail = "Unavailable"
       /\ \/ f.outcome = "Unknown" /\ f.recon = "GovernanceRequired"
          \/ f.outcome \in Known /\ f.recon = "Resolved"

(* verify_effect_scope_state, for an Effect whose scope has status owner   *)
LegalInScope(e, f, owner) ==
    LET released == f.phase \in {"ReleaseAuthorized", "DispatchStarted"}
        eager == Profile[e].dispatch = "Eager"
    IN  /\ owner # None
        /\ released /\ ~eager => owner = "ClosedCommitted"
        /\ owner = "ClosedAborted" =>
              f.phase = "CancelledBeforeRelease" \/ (eager /\ released)

-------------------------------------------------------------------------------
(* Invariants.  A Machine that restores a projection re-validates it with  *)
(* the verify_* functions of model.rs and refuses to open when one fails:  *)
(* the reducer must never leave a projection the restore would refuse.     *)

(* Every field of RunProjection and RunDerivedIndex holds a value of its   *)
(* type; epochs and fences stay in the exact-integer range                 *)
(* (verify_execution_numbers).                                             *)
TypeOK ==
    /\ status \in RunStatus \cup {None}
    /\ epoch \in 0..MaxEpoch
    /\ plan \in Plans \cup {None}
    /\ binding \in Bindings \cup {None}
    /\ scope \in [AllScopes -> ScopeStatus \cup {None}]
    /\ eff \in [Effects -> EffectRecord]
    /\ obl \in [Effects -> {None, "Unresolved", "Resolved"}]
    /\ att \in [Attempts -> AttemptRecord]
    /\ settlement \in Settlement
    /\ active \in Attempts \cup {None}
    /\ governance \subseteq Effects /\ unknown \subseteq Effects /\ pending \subseteq Effects
    /\ terminal \subseteq Effects /\ unresolved \subseteq Effects
    /\ intents \subseteq Effects /\ mutating \subseteq Effects
    /\ abortMoves \subseteq Effects /\ abortBlockers \subseteq Effects
    /\ open \subseteq AllScopes
    /\ descendants \in [AllScopes -> Nat]
    /\ count \in [AllScopes -> Nat]
    /\ committed \in Nat

(* The index edited event by event is the one RunDerivedIndex::rebuild     *)
(* computes from the projection (verify_derived_indexes).                  *)
DerivedIndexExact ==
    /\ RebuiltActive = IF active = None THEN {} ELSE {active}
    /\ governance = RebuiltClass("GovernanceRequired")
    /\ unknown = RebuiltClass("Unknown")
    /\ pending = RebuiltClass("Pending")
    /\ terminal = RebuiltTerminal
    /\ unresolved = {e \in Effects : obl[e] = "Unresolved"}
    /\ open = {s \in AllScopes : scope[s] = "Open"}
    /\ descendants = RebuiltDescendants
    /\ intents = RebuiltIntents
    /\ mutating = {e \in RebuiltIntents : Mutating(e)}
    /\ abortMoves = {e \in RebuiltIntents : NeedsAbortTransition(eff[e])}
    /\ abortBlockers = {e \in RebuiltIntents : BlocksAbort(e, eff[e])}
    /\ count = RebuiltCount
    /\ committed = RebuiltCommitted

(* The recorded world settlement is the one the Effects imply, and a       *)
(* completed Run is settled (verify_world_settlement_invariants).          *)
SettlementExact ==
    /\ settlement = DerivedSettlement
    /\ status = "Completed" => DerivedSettlement = "Settled"

(* No open scope lies inside a closed one, although closing a scope looks  *)
(* only at the number of its direct open children                          *)
(* (verify_scope_projection against open_scope_close_index).               *)
OpenScopesNest ==
    \A s \in Scopes : scope[s] = "Open" => scope[Parent[s]] = "Open"

(* Phase, outcome, reconciliation and availability of every Effect are one *)
(* of the combinations verify_effect_reducer_state accepts.                *)
EffectStateLegal == \A e \in Proposed : LegalEffect(e, eff[e])

(* A release waited for the commit of the owning scope unless the Effect   *)
(* is an eager observation, and nothing an aborted scope proposed can      *)
(* still reach the world (verify_effect_scope_state).                      *)
EffectScopeLegal ==
    \A e \in Proposed : LegalInScope(e, eff[e], scope[EffectScope[e]])

(* The obligations are exactly the mutating Effects of committed scopes,   *)
(* each resolved when the fate of its Effect is known                      *)
(* (verify_obligation_projection).                                         *)
ObligationsExact ==
    \A e \in Effects :
        obl[e] = IF e \in Proposed /\ Mutating(e) /\ scope[EffectScope[e]] = "ClosedCommitted"
                 THEN IF \/ eff[e].phase = "CancelledBeforeRelease"
                         \/ eff[e].outcome \in {"Applied", "NotApplied"}
                      THEN "Resolved" ELSE "Unresolved"
                 ELSE None

(* Whatever the events did, a restore that recomputes index, settlement    *)
(* and obligations from the projection finds what was kept beside it.      *)
DerivedStateExact == DerivedIndexExact /\ SettlementExact /\ ObligationsExact

(* A restore accepts the projection itself: its scopes nest, and each      *)
(* Effect is in a state that its profile and its owning scope allow.       *)
ProjectionLegal == OpenScopesNest /\ EffectStateLegal /\ EffectScopeLegal

(* At most one Attempt holds execution authority, at the current epoch     *)
(* (verify_reducer_invariants).                                            *)
OneAttemptAtCurrentEpoch ==
    /\ \A a \in Attempts : att[a].epoch <= epoch
    /\ \A a \in Attempts : att[a].active => att[a].epoch = epoch
    /\ \A a, b \in Attempts : att[a].active /\ att[b].active => a = b

(* A terminal Run holds no authority and nothing that could still be       *)
(* released: no active Attempt, no open scope, no Pending settlement, and  *)
(* after a failure or cancellation every Attempt below the final epoch and *)
(* every Effect dispatched or cancelled (verify_terminal_run).             *)
TerminalRunClosed ==
    status \in RunStatus \ {"Active"} =>
        /\ \A a \in Attempts : ~att[a].active
        /\ \A s \in AllScopes : scope[s] # "Open"
        /\ settlement # "Pending"
        /\ status # "Completed" =>
              /\ \A a \in Attempts : att[a].fence # 0 => att[a].epoch < epoch
              /\ \A e \in Proposed : eff[e].phase \in {"DispatchStarted",
                                                       "CancelledBeforeRelease"}

-------------------------------------------------------------------------------
(* Action properties.                                                      *)

(* What was handed to the world is never taken back: no abort, failure or  *)
(* loss of the implementation un-dispatches an Effect, and a known outcome *)
(* is never changed, reconciled away or forgotten.                         *)
DispatchIrrevocable ==
    [][\A e \in Effects :
         /\ eff[e].phase = "DispatchStarted" => eff'[e].phase = "DispatchStarted"
         /\ eff[e].outcome \in Known => eff'[e].outcome = eff[e].outcome]_vars

(* After a Run ended, only the Unknown outcomes of its Effects change      *)
(* (verify_run_event_gate): no scope, Attempt, epoch or known Effect does, *)
(* and a Completed Run never changes at all.                               *)
TerminalRunFrozen ==
    [][(status \notin {None, "Active"}) =>
         /\ UNCHANGED <<status, epoch, plan, binding, scope, att>>
         /\ \A e \in Effects :
               eff[e] # eff'[e] => status # "Completed" /\ eff[e].outcome = "Unknown"]_vars

(* An Attempt that lost its authority (yielded, fenced off by a later      *)
(* epoch or by the end of the Run) never gets it back.                     *)
AttemptNeverRevived ==
    [][\A a \in Attempts :
         att[a].fence # 0 /\ ~att[a].active => att'[a] = att[a]]_vars

(* A resolved obligation never blocks the Run again.                       *)
ObligationNeverReopens ==
    [][\A e \in Effects : obl[e] = "Resolved" => obl'[e] = "Resolved"]_vars
===============================================================================
