-------------------------- MODULE RunReducerProofs --------------------------
(* Proofs about RunReducer, for every set of Plans, scopes, Effects and    *)
(* Attempts and every bound on epochs and fences.                          *)
EXTENDS RunReducer, FiniteSetTheorems, TLAPS

(* Before RunStarted the projection has no entry for the Run, and an       *)
(* Attempt that was never started holds nothing.                           *)
Fresh ==
    /\ status = None => /\ \A s \in AllScopes : scope[s] = None
                        /\ \A e \in Effects : eff[e].phase = None
                        /\ \A a \in Attempts : att[a].fence = 0
                        /\ epoch = 0 /\ active = None
    /\ \A a \in Attempts : att[a].fence = 0 => ~att[a].active /\ att[a].epoch = 0
    /\ \A e \in Effects : eff[e].phase = None => eff[e] = NoEffect

(* TerminalRunClosed is not inductive on its own: an Unknown outcome could *)
(* hide an unobserved one, which its reconciliation would bring to light.  *)
NothingUnobserved ==
    status \in RunStatus \ {"Active"} => \A e \in Proposed : eff[e].outcome # "Unobserved"

(* The inductive invariant.                                                *)
Inv ==
    /\ TypeOK
    /\ Fresh
    /\ DerivedIndexExact
    /\ SettlementExact
    /\ OpenScopesNest
    /\ EffectStateLegal
    /\ EffectScopeLegal
    /\ ObligationsExact
    /\ OneAttemptAtCurrentEpoch
    /\ TerminalRunClosed
    /\ NothingUnobserved

-----------------------------------------------------------------------------
(* One lemma covers the six Effect transitions: what the rest of the proof *)
(* has to know about the Effect f that takes the place of eff[e].          *)

EffectMove(e, f) ==
    /\ TransitionEffect(e, f)
    /\ eff[e].phase # None
    /\ f \in EffectRecord
    /\ f.phase # None
    /\ LegalEffect(e, f)
    /\ LegalInScope(e, f, scope[EffectScope[e]])
    /\ eff[e].phase = "DispatchStarted" => f.phase = "DispatchStarted"
    /\ eff[e].outcome \notin Known
    /\ status # "Active" =>
          /\ status \in {"Failed", "Cancelled"}
          /\ eff[e].phase = "DispatchStarted"
          /\ eff[e].outcome = "Unknown"
          /\ f.outcome # "Unobserved"

LEMMA EffectMoves ==
    ASSUME TypeOK, EffectStateLegal, EffectScopeLegal, NEW e \in Effects,
           \/ Prepare(e) \/ AuthorizeRelease(e) \/ StartDispatch(e) \/ MarkUnavailable(e)
           \/ \E o \in Outcomes : Observe(e, o)
           \/ \E r \in Resolutions : Reconcile(e, r)
    PROVE  \E f : EffectMove(e, f)
<1> USE EffectAssumption DEF TypeOK, EffectRecord, EffectMove, Proposed, EffectStateLegal,
        EffectScopeLegal, Profiles, Phases, Availability, ReconStates, Known
<1>0. Profile[e] \in Profiles /\ eff[e] \in EffectRecord
  OBVIOUS
<1>1. CASE Prepare(e)
  <2> DEFINE f == [eff[e] EXCEPT !.phase = "Prepared"]
  <2>1. EffectMove(e, f)
    BY <1>0, <1>1, ZenonT(60) DEF Prepare, LegalEffect, LegalInScope, None
  <2> QED BY <2>1
<1>2. CASE AuthorizeRelease(e)
  <2> DEFINE f == [eff[e] EXCEPT !.phase = "ReleaseAuthorized"]
  <2>1. EffectMove(e, f)
    BY <1>0, <1>2 DEF AuthorizeRelease, LegalEffect, LegalInScope, None
  <2> QED BY <2>1
<1>3. CASE StartDispatch(e)
  <2> DEFINE f == [eff[e] EXCEPT !.phase = "DispatchStarted"]
  <2>1. EffectMove(e, f)
    BY <1>0, <1>3 DEF StartDispatch, LegalEffect, LegalInScope, None
  <2> QED BY <2>1
<1>4. CASE MarkUnavailable(e)
  <2> DEFINE f == MadeUnavailable(eff[e])
  <2>1. CASE eff[e].phase = "DispatchStarted"
    <3>1. f = [eff[e] EXCEPT !.avail = "Unavailable", !.outcome = "Unknown",
                             !.recon = "GovernanceRequired"]
      BY <2>1 DEF MadeUnavailable
    <3>2. EffectMove(e, f)
      BY <1>0, <1>4, <2>1, <3>1, ZenonT(60) DEF MarkUnavailable, LegalEffect, LegalInScope, None, Outcomes
    <3> QED BY <3>2
  <2>2. CASE eff[e].phase # "DispatchStarted"
    <3>1. f = [binding |-> eff[e].binding, avail |-> "Unavailable",
               phase |-> "CancelledBeforeRelease", outcome |-> "NotApplied",
               recon |-> "Resolved"]
      BY <1>0, <2>2 DEF MadeUnavailable, Cancelled
    <3>2. EffectMove(e, f)
      BY <1>0, <1>4, <2>2, <3>1 DEF MarkUnavailable, LegalEffect, LegalInScope, None, Outcomes
    <3> QED BY <3>2
  <2> QED BY <2>1, <2>2
<1>5. ASSUME NEW o \in Outcomes, Observe(e, o) PROVE \E f : EffectMove(e, f)
  <2> DEFINE f == [eff[e] EXCEPT !.outcome = o,
           !.recon = IF o = "Unknown" THEN ReconStateForUnknown(e) ELSE "NotRequired"]
  <2>1. EffectMove(e, f)
    BY <1>0, <1>5, ZenonT(60) DEF Observe, Outcomes, ReconStateForUnknown, LegalEffect, LegalInScope, None
  <2> QED BY <2>1
<1>6. ASSUME NEW r \in Resolutions, Reconcile(e, r) PROVE \E f : EffectMove(e, f)
  <2> DEFINE f == Reconciled(eff[e], r)
  <2>1. /\ TransitionEffect(e, f)
        /\ status \in {"Active", "Failed", "Cancelled"}
        /\ eff[e].phase = "DispatchStarted" /\ eff[e].outcome = "Unknown"
        /\ LegalEffect(e, eff[e]) /\ LegalInScope(e, eff[e], scope[EffectScope[e]])
        /\ \/ r \in {"ResolvedApplied", "ResolvedNotApplied"}
           \/ r = "StillUnknown" /\ eff[e].recon = "Pending"
    BY <1>6 DEF Reconcile, ReconcileAllowed, Resolutions, None
  <2>2. CASE r \in {"ResolvedApplied", "ResolvedNotApplied"}
    <3>1. PICK o \in {"Applied", "NotApplied"} :
             f = [binding |-> eff[e].binding, avail |-> eff[e].avail, phase |-> eff[e].phase,
                  outcome |-> o, recon |-> "Resolved"]
      BY <1>0, <2>2 DEF Reconciled
    <3>2. EffectMove(e, f)
      BY <1>0, <2>1, <3>1 DEF LegalEffect, LegalInScope, None, Outcomes
    <3> QED BY <3>2
  <2>3. CASE r = "StillUnknown" /\ eff[e].recon = "Pending"
    <3>1. f = eff[e]
      BY <1>0, <2>3 DEF Reconciled
    <3>2. EffectMove(e, f)
      BY <1>0, <2>1, <3>1 DEF LegalEffect, LegalInScope, None, Outcomes
    <3> QED BY <3>2
  <2> QED BY <2>1, <2>2, <2>3
<1> QED BY <1>1, <1>2, <1>3, <1>4, <1>5, <1>6

(* The steps of the Run as the proofs tell them apart.  A step of the      *)
(* first kind touches Attempts, epoch, Plan or binding only.               *)
Quiet == UNCHANGED <<status, scope, eff, obl, settlement, classes, unresolved, open,
                     descendants, entries, count, committed>>
Step ==
    \/ Quiet
    \/ \E p \in Plans, b \in Bindings, a \in Attempts : StartRun(p, b, a)
    \/ CompleteRun
    \/ \E s \in Scopes : OpenScope(s)
    \/ \E s \in AllScopes : CommitScope(s)
    \/ \E s \in AllScopes : AbortScope(s)
    \/ \E e \in Effects, b \in Bindings : ProposeEffect(e, b)
    \/ \E e \in Effects : \E f : EffectMove(e, f)
    \/ \E r \in {"Failed", "Cancelled"} : Terminate(r)

LEMMA Steps == Inv /\ [Next]_vars => Step
<1> SUFFICES ASSUME Inv, [Next]_vars PROVE Step
  OBVIOUS
<1>1. CASE AttemptStep
  BY <1>1, ZenonT(60) DEF AttemptStep, BeginAttempt, YieldAttempt, AdvanceEpoch, Step, Quiet
<1>2. CASE EffectStep
  <2>1. PICK e \in Effects :
          \/ \E b \in Bindings : ProposeEffect(e, b)
          \/ Prepare(e) \/ AuthorizeRelease(e) \/ StartDispatch(e) \/ MarkUnavailable(e)
          \/ \E o \in Outcomes : Observe(e, o)
          \/ \E r \in Resolutions : Reconcile(e, r)
    BY <1>2 DEF EffectStep
  <2>2. CASE \E b \in Bindings : ProposeEffect(e, b)
    BY <2>2 DEF Step
  <2>3. CASE ~ \E b \in Bindings : ProposeEffect(e, b)
    BY <2>1, <2>3, EffectMoves DEF Inv, Step
  <2> QED BY <2>2, <2>3
<1>3. CASE ScopeStep
  BY <1>3 DEF ScopeStep, Step
<1>4. CASE RunStep
  <2>1. CASE \E p \in Plans, b \in Bindings : MigrateRun(p, b)
    BY <2>1 DEF MigrateRun, Step, Quiet
  <2>2. CASE \E b \in Bindings : UpdateBinding(b)
    BY <2>2 DEF UpdateBinding, Step, Quiet
  <2>3. CASE CompleteRun
    BY <2>3 DEF Step
  <2>4. CASE FailRun \/ CancelRun
    BY <2>4 DEF FailRun, CancelRun, Step
  <2>5. CASE \E p \in Plans, b \in Bindings, a \in Attempts : StartRun(p, b, a)
    BY <2>5 DEF Step
  <2> QED BY <1>4, <2>1, <2>2, <2>3, <2>4, <2>5 DEF RunStep
<1>5. CASE UNCHANGED vars
  BY <1>5 DEF vars, projection, Step, Quiet
<1> QED BY <1>1, <1>2, <1>3, <1>4, <1>5 DEF Next

-----------------------------------------------------------------------------
LEMMA InitInv == Init => Inv
<1> SUFFICES ASSUME Init PROVE Inv
  OBVIOUS
<1> USE DEF Init
<1>1. Proposed = {}
  BY DEF Proposed, NoEffect, None
<1>2. TypeOK
  BY BoundAssumption DEF TypeOK, RunStatus, Settlement, EffectRecord, AttemptRecord, NoEffect, NoAttempt,
     Availability, Phases, Outcomes, ReconStates
<1>3. Fresh
  BY DEF Fresh, NoEffect, NoAttempt
<1>4. DerivedIndexExact
  <2>1. RebuiltActive = {}
    BY DEF RebuiltActive, NoAttempt
  <2>2. RebuiltDescendants = descendants
    <3>1. \A p \in AllScopes : {s \in Scopes : scope[s] = "Open" /\ Parent[s] = p} = {}
      BY DEF AllScopes, None
    <3> QED BY <3>1, FS_EmptySet DEF RebuiltDescendants
  <2>3. RebuiltCount = count
    BY <1>1, FS_EmptySet DEF RebuiltCount
  <2>4. RebuiltCommitted = 0
    BY <1>1, FS_EmptySet DEF RebuiltCommitted
  <2>5. open = {s \in AllScopes : scope[s] = "Open"}
    BY DEF None
  <2>6. unresolved = {e \in Effects : obl[e] = "Unresolved"}
    BY DEF None
  <2> QED BY <1>1, <2>1, <2>2, <2>3, <2>4, <2>5, <2>6
          DEF DerivedIndexExact, RebuiltClass, Class, RebuiltTerminal, RebuiltIntents
<1>5. SettlementExact
  BY <1>1 DEF SettlementExact, DerivedSettlement, None
<1>6. OpenScopesNest
  BY DEF OpenScopesNest, AllScopes, None
<1>7. EffectStateLegal /\ EffectScopeLegal
  BY <1>1 DEF EffectStateLegal, EffectScopeLegal
<1>8. ObligationsExact
  BY <1>1 DEF ObligationsExact
<1>9. OneAttemptAtCurrentEpoch
  BY BoundAssumption DEF OneAttemptAtCurrentEpoch, NoAttempt
<1>10. TerminalRunClosed /\ NothingUnobserved
  BY DEF TerminalRunClosed, NothingUnobserved, RunStatus, None
<1> QED BY <1>2, <1>3, <1>4, <1>5, <1>6, <1>7, <1>8, <1>9, <1>10 DEF Inv

-----------------------------------------------------------------------------
(* Attempts and the epoch that fences them.                                *)
AttemptPart ==
    /\ epoch \in 0..MaxEpoch
    /\ att \in [Attempts -> AttemptRecord]
    /\ active \in Attempts \cup {None}
    /\ \A a \in Attempts : att[a].active <=> a = active
    /\ \A a \in Attempts : att[a].epoch <= epoch
    /\ \A a \in Attempts : att[a].active => att[a].epoch = epoch
    /\ \A a \in Attempts : att[a].fence = 0 => ~att[a].active /\ att[a].epoch = 0

LEMMA AttemptPartMeaning ==
    ASSUME TypeOK
    PROVE  ((RebuiltActive = IF active = None THEN {} ELSE {active}) /\ OneAttemptAtCurrentEpoch
               /\ \A a \in Attempts : att[a].fence = 0 => ~att[a].active /\ att[a].epoch = 0)
           <=> AttemptPart
BY IdentityAssumption DEF TypeOK, RebuiltActive, OneAttemptAtCurrentEpoch, AttemptPart

LEMMA DeactivatedFacts ==
    ASSUME AttemptPart
    PROVE  /\ Deactivated \in [Attempts -> AttemptRecord]
           /\ \A a \in Attempts : /\ ~Deactivated[a].active
                                  /\ Deactivated[a].epoch = att[a].epoch
                                  /\ Deactivated[a].fence = att[a].fence
<1> SUFFICES ASSUME NEW a \in Attempts
             PROVE  /\ Deactivated[a] \in AttemptRecord
                    /\ ~Deactivated[a].active
                    /\ Deactivated[a].epoch = att[a].epoch
                    /\ Deactivated[a].fence = att[a].fence
  BY DEF Deactivated
<1>1. att[a] \in AttemptRecord
  BY DEF AttemptPart
<1>2. CASE a = active
  <2>1. Deactivated[a] = [epoch |-> att[a].epoch, fence |-> att[a].fence, active |-> FALSE]
    BY <1>1, <1>2 DEF Deactivated, AttemptRecord
  <2> QED BY <1>1, <2>1 DEF AttemptRecord
<1>3. CASE a # active
  BY <1>1, <1>3 DEF Deactivated, AttemptPart
<1> QED BY <1>2, <1>3

(* The Attempt variables after each kind of step.                          *)
LEMMA AttemptPartStep ==
    AttemptPart /\ (status = None => active = None /\ epoch = 0) /\ [Next]_vars => AttemptPart'
<1> SUFFICES ASSUME AttemptPart, status = None => active = None /\ epoch = 0, [Next]_vars
             PROVE  AttemptPart'
  OBVIOUS
<1> USE BoundAssumption, IdentityAssumption DEF AttemptPart, AttemptRecord
<1>1. ASSUME NEW a \in Attempts, NEW ep \in 0..MaxEpoch, NEW f \in 0..MaxFence,
             BeginAttempt(a, ep, f)
      PROVE  AttemptPart'
  BY <1>1 DEF BeginAttempt
<1>2. ASSUME NEW a \in Attempts, NEW ep \in 0..MaxEpoch, NEW f \in 0..MaxFence,
             YieldAttempt(a, ep, f)
      PROVE  AttemptPart'
  <2>1. att[a].active /\ a = active
    BY <1>2 DEF YieldAttempt
  <2>2. att' = Deactivated
    BY <1>2, <2>1 DEF YieldAttempt, Deactivated
  <2>3. epoch' = epoch /\ active' = None
    BY <1>2 DEF YieldAttempt
  <2> QED BY <2>2, <2>3, DeactivatedFacts
<1>3. CASE AdvanceEpoch
  <2>1. att' = Deactivated /\ epoch' = epoch + 1 /\ active' = None /\ epoch' \in 0..MaxEpoch
    BY <1>3 DEF AdvanceEpoch, EpochCanAdvance
  <2> QED BY <2>1, DeactivatedFacts
<1>4. ASSUME NEW p \in Plans, NEW b \in Bindings, NEW a \in Attempts, StartRun(p, b, a)
      PROVE  AttemptPart'
  BY <1>4 DEF StartRun
<1>5. ASSUME NEW p \in Plans, NEW b \in Bindings, MigrateRun(p, b) PROVE AttemptPart'
  BY <1>5 DEF MigrateRun, EpochCanAdvance
<1>6. ASSUME NEW r, Terminate(r) PROVE AttemptPart'
  <2>1. att' = Deactivated /\ epoch' = epoch + 1 /\ active' = None /\ epoch' \in 0..MaxEpoch
    BY <1>6 DEF Terminate, EpochCanAdvance
  <2> QED BY <2>1, DeactivatedFacts
<1>7. ASSUME UNCHANGED <<epoch, att, active>> PROVE AttemptPart'
  BY <1>7
<1>8. ASSUME EffectStep PROVE UNCHANGED <<epoch, att, active>>
  <2>1. ASSUME NEW e, NEW f, TransitionEffect(e, f) PROVE UNCHANGED <<epoch, att, active>>
    BY <2>1 DEF TransitionEffect
  <2>2. ASSUME NEW e, NEW b, ProposeEffect(e, b) PROVE UNCHANGED <<epoch, att, active>>
    BY <2>2 DEF ProposeEffect
  <2> QED BY <1>8, <2>1, <2>2 DEF EffectStep, Prepare, AuthorizeRelease, StartDispatch,
             MarkUnavailable, Observe, Reconcile
<1>9. ScopeStep => UNCHANGED <<epoch, att, active>>
  BY DEF ScopeStep, OpenScope, CommitScope, AbortScope
<1>10. (\E b \in Bindings : UpdateBinding(b)) \/ CompleteRun => UNCHANGED <<epoch, att, active>>
  BY DEF UpdateBinding, CompleteRun
<1>11. UNCHANGED vars => UNCHANGED <<epoch, att, active>>
  BY DEF vars, projection
<1> QED
  BY <1>1, <1>2, <1>3, <1>4, <1>5, <1>6, <1>7, <1>8, <1>9, <1>10, <1>11
     DEF Next, AttemptStep, RunStep, FailRun, CancelRun

-----------------------------------------------------------------------------
(* Scopes: the open set and the number of open children.                   *)
Children(p) == {s \in Scopes : scope[s] = "Open" /\ Parent[s] = p}

ScopePart ==
    /\ scope \in [AllScopes -> ScopeStatus \cup {None}]
    /\ open = {s \in AllScopes : scope[s] = "Open"}
    /\ descendants \in [AllScopes -> Nat]
    /\ \A p \in AllScopes : descendants[p] = Cardinality(Children(p))
    /\ OpenScopesNest

LEMMA ChildrenFinite ==
    \A p : IsFiniteSet(Children(p)) /\ Cardinality(Children(p)) \in Nat
BY IdentityAssumption, FS_Subset, FS_CardinalityType DEF Children

LEMMA ScopePartMeaning ==
    ASSUME TypeOK
    PROVE  (/\ open = {s \in AllScopes : scope[s] = "Open"}
            /\ descendants = RebuiltDescendants
            /\ OpenScopesNest) <=> ScopePart
BY ChildrenFinite DEF TypeOK, RebuiltDescendants, ScopePart, Children

(* A scope without open children leaves the tree nested when it closes,    *)
(* and its parent has one open child less.                                 *)
LEMMA ScopeClose ==
    ASSUME ScopePart, NEW s \in AllScopes, NEW st \in {"ClosedCommitted", "ClosedAborted"},
           NEW c, MayClose(s), CloseIndex(s, c), scope' = [scope EXCEPT ![s] = st]
    PROVE  ScopePart'
<1> USE ScopeAssumption, IdentityAssumption DEF ScopePart, MayClose, AllScopes
<1>1. /\ scope' \in [AllScopes -> ScopeStatus \cup {None}]
      /\ open' = {t \in AllScopes : scope'[t] = "Open"}
  BY DEF CloseIndex, ScopeStatus
<1>2. Children(s) = {}
  BY ChildrenFinite, FS_EmptySet
<1>3. OpenScopesNest'
  BY <1>2 DEF OpenScopesNest, Children
<1>4. CASE s = Root
  <2>1. descendants' = descendants /\ \A p \in AllScopes : Children(p)' = Children(p)
    BY <1>4 DEF CloseIndex, Children
  <2> QED BY <1>1, <1>3, <2>1
<1>5. CASE s # Root
  <2>1. s \in Scopes /\ s \in Children(Parent[s]) /\ Parent[s] \in AllScopes
    BY <1>5 DEF Children
  <2>2. \A p \in AllScopes : p # Parent[s] => Children(p)' = Children(p)
    BY <2>1 DEF Children
  <2>3. Children(Parent[s])' = Children(Parent[s]) \ {s}
    BY <2>1 DEF Children
  <2>4. Cardinality(Children(Parent[s]) \ {s}) = Cardinality(Children(Parent[s])) - 1
    BY <2>1, ChildrenFinite, FS_RemoveElement
  <2>5. Cardinality(Children(Parent[s]) \ {s}) \in Nat
    BY ChildrenFinite, FS_RemoveElement, FS_CardinalityType
  <2>6. descendants' = [descendants EXCEPT ![Parent[s]] = @ - 1]
    BY <1>5 DEF CloseIndex
  <2>7. \A p \in AllScopes : descendants'[p] = Cardinality(Children(p)')
    BY <2>1, <2>2, <2>3, <2>4, <2>6
  <2>8. descendants' \in [AllScopes -> Nat]
    BY <2>1, <2>4, <2>5, <2>6
  <2> QED BY <1>1, <1>3, <2>7, <2>8
<1> QED BY <1>4, <1>5

LEMMA ScopePartStep == ScopePart /\ Fresh /\ Step => ScopePart'
<1> SUFFICES ASSUME ScopePart, Fresh, Step PROVE ScopePart'
  OBVIOUS
<1> USE ScopeAssumption, IdentityAssumption DEF AllScopes
<1>1. ASSUME UNCHANGED <<scope, open, descendants>> PROVE ScopePart'
  BY <1>1 DEF ScopePart, Children, OpenScopesNest
<1>2. ASSUME NEW p, NEW b, NEW a, StartRun(p, b, a) PROVE ScopePart'
  <2>1. \A q \in AllScopes : Children(q) = {} /\ Children(q)' = {}
    BY <1>2 DEF StartRun, Fresh, Children, None, ScopePart
  <2>2. /\ scope' = [scope EXCEPT ![Root] = "Open"] /\ open' = {Root} /\ descendants' = descendants
        /\ \A s \in AllScopes : scope[s] = None
    BY <1>2 DEF StartRun, Fresh
  <2> QED BY <2>1, <2>2, SMTT(60) DEF ScopePart, OpenScopesNest, ScopeStatus, None
<1>3. ASSUME NEW s \in Scopes, OpenScope(s) PROVE ScopePart'
  <2>1. /\ scope[s] = None /\ scope[Parent[s]] = "Open" /\ scope' = [scope EXCEPT ![s] = "Open"]
        /\ open' = open \cup {s} /\ descendants' = [descendants EXCEPT ![Parent[s]] = @ + 1]
    BY <1>3 DEF OpenScope
  <2>2. /\ s \notin Children(Parent[s])
        /\ Children(Parent[s])' = Children(Parent[s]) \cup {s}
        /\ \A p \in AllScopes : p # Parent[s] => Children(p)' = Children(p)
    BY <2>1 DEF Children, ScopePart, None
  <2>3. Cardinality(Children(Parent[s]) \cup {s}) = Cardinality(Children(Parent[s])) + 1
    BY <2>2, ChildrenFinite, FS_AddElement
  <2>4. \A p \in AllScopes : descendants'[p] = Cardinality(Children(p)')
    BY <2>1, <2>2, <2>3 DEF ScopePart
  <2>5. OpenScopesNest'
    BY <2>1 DEF ScopePart, OpenScopesNest
  <2>6. /\ scope' \in [AllScopes -> ScopeStatus \cup {None}]
        /\ open' = {t \in AllScopes : scope'[t] = "Open"}
        /\ descendants' \in [AllScopes -> Nat]
    BY <2>1 DEF ScopePart, ScopeStatus
  <2> QED BY <2>4, <2>5, <2>6 DEF ScopePart
<1>4. ASSUME NEW s \in AllScopes, CommitScope(s) PROVE ScopePart'
  BY <1>4, ScopeClose DEF CommitScope
<1>5. ASSUME NEW s \in AllScopes, AbortScope(s) PROVE ScopePart'
  BY <1>5, ScopeClose DEF AbortScope
<1>6. ASSUME NEW r, Terminate(r) PROVE ScopePart'
  <2>1. /\ scope' = [s \in AllScopes |-> IF s \in open THEN "ClosedAborted" ELSE scope[s]]
        /\ open' = {} /\ descendants' = [s \in AllScopes |-> 0]
    BY <1>6 DEF Terminate
  <2>2. \A s \in AllScopes : scope'[s] # "Open"
    BY <2>1 DEF ScopePart
  <2>3. \A p \in AllScopes : Children(p)' = {}
    BY <2>2 DEF Children
  <2> QED BY <2>1, <2>2, <2>3, FS_EmptySet DEF ScopePart, OpenScopesNest, ScopeStatus
<1>7. Quiet \/ CompleteRun => UNCHANGED <<scope, open, descendants>>
  BY DEF Quiet, CompleteRun
<1>8. ASSUME NEW e, NEW f, EffectMove(e, f) PROVE UNCHANGED <<scope, open, descendants>>
  BY <1>8 DEF EffectMove, TransitionEffect
<1>9. ASSUME NEW e, NEW b, ProposeEffect(e, b) PROVE UNCHANGED <<scope, open, descendants>>
  BY <1>9 DEF ProposeEffect
<1> QED BY <1>1, <1>2, <1>3, <1>4, <1>5, <1>6, <1>7, <1>8, <1>9 DEF Step

-----------------------------------------------------------------------------
(* Effects: their states and the four class sets.                          *)
EffectPart ==
    /\ eff \in [Effects -> EffectRecord]
    /\ \A e \in Effects : eff[e].phase = None => eff[e] = NoEffect
    /\ EffectStateLegal
    /\ EffectScopeLegal

ClassPart ==
    /\ governance = RebuiltClass("GovernanceRequired")
    /\ unknown = RebuiltClass("Unknown")
    /\ pending = RebuiltClass("Pending")
    /\ terminal = RebuiltTerminal

(* What a step does to the Effects, whatever its reason: the Effects of S  *)
(* were proposed before and move to legal states, the others stay.         *)
Moves(S) ==
    /\ S \subseteq Proposed
    /\ eff' \in [Effects -> EffectRecord]
    /\ \A e \in Effects : e \notin S => eff'[e] = eff[e]
    /\ \A e \in S : eff'[e].phase # None /\ LegalEffect(e, eff'[e])
    /\ \A e \in Proposed : LegalInScope(e, eff'[e], scope'[EffectScope[e]])

LEMMA MovesProposed == ASSUME NEW S, Moves(S) PROVE Proposed' = Proposed
BY DEF Moves, Proposed

LEMMA MovesEffectPart == ASSUME NEW S, Moves(S), EffectPart PROVE EffectPart'
BY MovesProposed DEF Moves, EffectPart, EffectStateLegal, EffectScopeLegal, Proposed

LEMMA MovesClassPart ==
    ASSUME NEW S, Moves(S), ClassPart, Reclassify(S, eff')
    PROVE  ClassPart'
<1>1. Proposed' = Proposed
  BY MovesProposed
<1>2. S \subseteq Proposed /\ \A e \in Proposed : e \notin S => eff'[e] = eff[e]
  BY DEF Moves, Proposed
<1>3. terminal' = RebuiltTerminal'
  BY <1>1, <1>2 DEF ClassPart, RebuiltTerminal, Reclassify
<1>4. governance' = RebuiltClass("GovernanceRequired")'
  BY <1>1, <1>2 DEF ClassPart, RebuiltClass, Class, Reclassify
<1>5. unknown' = RebuiltClass("Unknown")'
  BY <1>1, <1>2 DEF ClassPart, RebuiltClass, Class, Reclassify
<1>6. pending' = RebuiltClass("Pending")'
  BY <1>1, <1>2 DEF ClassPart, RebuiltClass, Class, Reclassify
<1> QED BY <1>3, <1>4, <1>5, <1>6 DEF ClassPart

(* RunDerivedIndex::settlement agrees with derive_world_settlement.        *)
LEMMA SettlementAgrees == ClassPart => IndexSettlement = DerivedSettlement
<1> SUFFICES ASSUME ClassPart PROVE IndexSettlement = DerivedSettlement
  OBVIOUS
<1>1. governance # {} <=> \E e \in Proposed : eff[e].recon = "GovernanceRequired"
  BY DEF ClassPart, RebuiltClass, Class, SettlementClass
<1>2. governance = {} => (unknown # {} <=> \E e \in Proposed : eff[e].outcome = "Unknown")
  BY <1>1 DEF ClassPart, RebuiltClass, Class, SettlementClass
<1>3. governance = {} /\ unknown = {} =>
        (pending # {} <=> \E e \in Proposed : /\ eff[e].phase # "CancelledBeforeRelease"
                                             /\ eff[e].outcome = "Unobserved")
  BY <1>1, <1>2 DEF ClassPart, RebuiltClass, Class, SettlementClass
<1> QED BY <1>1, <1>2, <1>3 DEF IndexSettlement, DerivedSettlement

(* The Effects that the three kinds of Effect step move.                   *)
LEMMA EffectMoveMoves ==
    ASSUME EffectPart, NEW e \in Effects, NEW f, EffectMove(e, f)
    PROVE  /\ Moves({e}) /\ eff' = [eff EXCEPT ![e] = f]
           /\ Reclassify({e}, eff') /\ ReclassifyOpen({e}, eff')
           /\ obl' = UpdatedObligations({e}, eff')
           /\ unresolved' = UpdatedUnresolved({e}, eff')
           /\ settlement' = IndexSettlement'
           /\ UNCHANGED <<status, scope, open, intents, mutating, count, committed>>
<1>1. /\ eff' = [eff EXCEPT ![e] = f]
      /\ UNCHANGED <<status, scope, open, intents, mutating, count, committed>>
      /\ settlement' = IndexSettlement'
  BY DEF EffectMove, TransitionEffect
<1>2. /\ Reclassify({e}, eff') /\ ReclassifyOpen({e}, eff')
      /\ obl' = UpdatedObligations({e}, eff')
      /\ unresolved' = UpdatedUnresolved({e}, eff')
  BY <1>1 DEF EffectMove, TransitionEffect
<1>3. Moves({e})
  BY <1>1 DEF EffectMove, Moves, EffectPart, EffectScopeLegal, Proposed
<1> QED BY <1>1, <1>2, <1>3

LEMMA AbortMoves ==
    ASSUME EffectPart, NEW s \in AllScopes, AbortScope(s),
           scope \in [AllScopes -> ScopeStatus \cup {None}],
           abortMoves = {e \in RebuiltIntents : NeedsAbortTransition(eff[e])},
           abortBlockers = {e \in RebuiltIntents : BlocksAbort(e, eff[e])}
    PROVE  LET S == {e \in abortMoves : EffectScope[e] = s} IN
           /\ Moves(S)
           /\ Reclassify(S, eff')
           /\ \A e \in S : eff'[e] = Cancelled(eff[e])
           /\ settlement' = IndexSettlement'
<1> DEFINE S == {e \in abortMoves : EffectScope[e] = s}
<1>1. /\ eff' = [e \in Effects |-> IF e \in S THEN Cancelled(eff[e]) ELSE eff[e]]
      /\ scope' = [scope EXCEPT ![s] = "ClosedAborted"]
      /\ scope[s] = "Open"
      /\ settlement' = IndexSettlement'
      /\ \A e \in abortBlockers : EffectScope[e] # s
  BY DEF AbortScope, MayClose
<1>2. Reclassify(S, eff')
  BY <1>1 DEF AbortScope
<1>3. S \subseteq Proposed /\ S \subseteq Effects
  BY DEF RebuiltIntents, Proposed
<1>4. \A e \in S : eff'[e] = [binding |-> eff[e].binding, avail |-> eff[e].avail,
                       phase |-> "CancelledBeforeRelease", outcome |-> "NotApplied",
                       recon |-> "Resolved"]
  BY <1>1, <1>3 DEF Cancelled
<1>5. \A e \in S : /\ eff'[e] \in EffectRecord
                   /\ eff'[e].phase = "CancelledBeforeRelease" /\ eff'[e].phase # None
                   /\ LegalEffect(e, eff'[e])
  <2> SUFFICES ASSUME NEW e \in S
               PROVE  /\ eff'[e] \in EffectRecord
                      /\ eff'[e].phase = "CancelledBeforeRelease" /\ eff'[e].phase # None
                      /\ LegalEffect(e, eff'[e])
    OBVIOUS
  <2>1. eff[e] \in EffectRecord
    BY <1>3 DEF EffectPart
  <2>2. eff'[e] = [binding |-> eff[e].binding, avail |-> eff[e].avail,
                   phase |-> "CancelledBeforeRelease", outcome |-> "NotApplied",
                   recon |-> "Resolved"]
    BY <1>4
  <2> HIDE DEF S
  <2> QED BY <2>1, <2>2 DEF EffectRecord, LegalEffect, Phases, Outcomes, ReconStates, None
<1>6. eff' \in [Effects -> EffectRecord] /\ \A e \in Effects : e \notin S => eff'[e] = eff[e]
  BY <1>1, <1>5 DEF EffectPart
<1>7. \A e \in Proposed : LegalInScope(e, eff'[e], scope'[EffectScope[e]])
  <2> SUFFICES ASSUME NEW e \in Proposed
               PROVE  LegalInScope(e, eff'[e], scope'[EffectScope[e]])
    OBVIOUS
  <2>0. e \in Effects /\ LegalInScope(e, eff[e], scope[EffectScope[e]])
    BY DEF EffectPart, EffectScopeLegal, Proposed
  <2>1. CASE e \in S
    <3>0. eff'[e].phase = "CancelledBeforeRelease"
      BY <1>5, <2>1
    <3>1. scope'[EffectScope[e]] = "ClosedAborted"
      BY <1>1, <2>1
    <3> QED BY <3>0, <3>1 DEF LegalInScope, None
  <2>2. CASE EffectScope[e] # s
    <3>1. eff'[e] = eff[e] /\ scope'[EffectScope[e]] = scope[EffectScope[e]]
      BY <1>1, <2>0, <2>2, EffectAssumption
    <3> QED BY <2>0, <3>1
  <2>3. CASE EffectScope[e] = s /\ e \notin S
    <3>1. eff'[e] = eff[e] /\ scope'[EffectScope[e]] = "ClosedAborted"
      BY <1>1, <2>0, <2>3
    <3>2. e \in RebuiltIntents /\ ~NeedsAbortTransition(eff[e]) /\ ~BlocksAbort(e, eff[e])
      BY <1>1, <2>3 DEF RebuiltIntents, IsOpen
    <3>3. eff[e].phase \notin {"Admitted", "Prepared"} /\ eff[e].phase \in Phases
      BY <2>0, <3>2 DEF NeedsAbortTransition, EffectPart, EffectRecord, Proposed
    <3>4. eff[e].phase \in {"ReleaseAuthorized", "DispatchStarted"} => Profile[e].dispatch = "Eager"
      BY <1>1, <2>0, <2>3 DEF LegalInScope
    <3> QED BY <3>1, <3>3, <3>4 DEF LegalInScope, Phases, None
  <2> QED BY <2>1, <2>2, <2>3
<1> QED BY <1>1, <1>2, <1>3, <1>4, <1>5, <1>6, <1>7 DEF Moves

LEMMA TerminalizedFacts ==
    ASSUME EffectPart, NEW e \in Effects, NeedsTerminalTransition(eff[e]), eff[e].phase # None
    PROVE  LET f == TerminalizedEffect(e, eff[e]) IN
           /\ f \in EffectRecord /\ f.phase # None /\ LegalEffect(e, f)
           /\ f.phase \in {"DispatchStarted", "CancelledBeforeRelease"}
           /\ f.phase = "DispatchStarted" <=> eff[e].phase = "DispatchStarted"
           /\ f.outcome # "Unobserved"
           /\ f.phase = "DispatchStarted" => f.outcome = "Unknown"
<1> DEFINE f == TerminalizedEffect(e, eff[e])
<1>0. eff[e] \in EffectRecord /\ LegalEffect(e, eff[e]) /\ Profile[e] \in Profiles
  BY EffectAssumption DEF EffectPart, EffectStateLegal, Proposed
<1>1. CASE eff[e].phase = "DispatchStarted" /\ eff[e].outcome = "Unobserved"
  <2>1. f = [eff[e] EXCEPT !.outcome = "Unknown", !.recon = ReconStateForUnknown(e)]
    BY <1>1 DEF TerminalizedEffect
  <2>2. eff[e].avail = "Available"
    BY <1>0, <1>1 DEF LegalEffect, Known
  <2>3. /\ f.phase = "DispatchStarted" /\ f.outcome = "Unknown" /\ f.avail = "Available"
        /\ f.recon = ReconStateForUnknown(e) /\ f \in EffectRecord
    BY <1>0, <1>1, <2>1, <2>2 DEF EffectRecord, Phases, Availability, Outcomes, ReconStates,
       ReconStateForUnknown
  <2>4. LegalEffect(e, f)
    BY <1>0, <2>3 DEF LegalEffect, ReconStateForUnknown, Profiles
  <2> QED BY <1>1, <2>3, <2>4 DEF None
<1>2. CASE eff[e].phase \notin {"DispatchStarted", "CancelledBeforeRelease"}
  <2>1. f = Cancelled(eff[e])
    BY <1>2 DEF TerminalizedEffect
  <2> QED BY <1>0, <1>2, <2>1 DEF Cancelled, EffectRecord, LegalEffect, Phases, Outcomes,
             ReconStates, None
<1> QED BY <1>1, <1>2 DEF NeedsTerminalTransition

LEMMA TerminateMoves ==
    ASSUME EffectPart, ClassPart, NEW r, Terminate(r),
           scope \in [AllScopes -> ScopeStatus \cup {None}],
           open = {s \in AllScopes : scope[s] = "Open"}
    PROVE  /\ Moves(terminal)
           /\ Reclassify(terminal, eff')
           /\ obl' = UpdatedObligations(terminal, eff')
           /\ unresolved' = UpdatedUnresolved(terminal, eff')
           /\ settlement' = IndexSettlement'
           /\ \A e \in Proposed : /\ eff'[e].phase \in {"DispatchStarted", "CancelledBeforeRelease"}
                                  /\ eff'[e].outcome # "Unobserved"
                                  /\ eff[e].phase = "DispatchStarted" => eff'[e].phase = "DispatchStarted"
                                  /\ eff[e].outcome \in Known => eff'[e].outcome = eff[e].outcome
<1>1. /\ eff' = [e \in Effects |->
                   IF e \in terminal THEN TerminalizedEffect(e, eff[e]) ELSE eff[e]]
      /\ scope' = [s \in AllScopes |-> IF s \in open THEN "ClosedAborted" ELSE scope[s]]
      /\ settlement' = IndexSettlement'
  BY DEF Terminate
<1>2. /\ Reclassify(terminal, eff')
      /\ obl' = UpdatedObligations(terminal, eff')
      /\ unresolved' = UpdatedUnresolved(terminal, eff')
  BY <1>1 DEF Terminate
<1>3. /\ terminal \subseteq Proposed /\ Proposed \subseteq Effects
      /\ \A e \in Proposed : e \in terminal <=> NeedsTerminalTransition(eff[e])
  BY DEF ClassPart, RebuiltTerminal, Proposed
<1>4. ASSUME NEW e \in Proposed
      PROVE  /\ e \in terminal => LegalEffect(e, eff'[e]) /\ eff'[e] \in EffectRecord
             /\ eff'[e].phase # None
             /\ eff'[e].phase \in {"DispatchStarted", "CancelledBeforeRelease"}
             /\ eff'[e].outcome # "Unobserved"
             /\ eff'[e].phase = "DispatchStarted" <=> eff[e].phase = "DispatchStarted"
             /\ eff[e].outcome \in Known => eff'[e].outcome = eff[e].outcome
  <2>0. e \in Effects /\ eff[e].phase # None /\ LegalEffect(e, eff[e]) /\ eff[e] \in EffectRecord
    BY DEF Proposed, EffectPart, EffectStateLegal
  <2>1. CASE e \in terminal
    <3>1. eff'[e] = TerminalizedEffect(e, eff[e]) /\ NeedsTerminalTransition(eff[e])
      BY <1>1, <1>3, <2>0, <2>1
    <3>2. eff[e].outcome \notin Known
      BY <2>0, <3>1 DEF NeedsTerminalTransition, LegalEffect, Known
    <3> QED BY <2>0, <3>1, <3>2, TerminalizedFacts
  <2>2. CASE e \notin terminal
    <3>1. eff'[e] = eff[e] /\ ~NeedsTerminalTransition(eff[e])
      BY <1>1, <1>3, <2>0, <2>2
    <3> QED BY <2>0, <2>2, <3>1 DEF NeedsTerminalTransition, LegalEffect, EffectRecord, Phases
  <2> QED BY <2>1, <2>2
<1>5. eff' \in [Effects -> EffectRecord] /\ \A e \in Effects : e \notin terminal => eff'[e] = eff[e]
  BY <1>1, <1>3, <1>4 DEF EffectPart
<1>6. ASSUME NEW e \in Proposed PROVE LegalInScope(e, eff'[e], scope'[EffectScope[e]])
  <2>1. EffectScope[e] \in AllScopes /\ LegalInScope(e, eff[e], scope[EffectScope[e]])
    BY <1>3, EffectAssumption DEF EffectPart, EffectScopeLegal
  <2>2. scope'[EffectScope[e]] = IF scope[EffectScope[e]] = "Open" THEN "ClosedAborted"
                                 ELSE scope[EffectScope[e]]
    BY <1>1, <2>1
  <2> QED BY <1>4, <2>1, <2>2 DEF LegalInScope, None
<1>7. Moves(terminal)
  BY <1>3, <1>4, <1>5, <1>6 DEF Moves
<1> QED BY <1>1, <1>2, <1>4, <1>7

(* A proposed Effect is one more member of the pending and terminal sets.  *)
LEMMA ProposeParts ==
    ASSUME EffectPart, ClassPart, NEW e \in Effects, NEW b \in Bindings, ProposeEffect(e, b)
    PROVE  EffectPart' /\ ClassPart' /\ Proposed' = Proposed \cup {e} /\ settlement' = IndexSettlement'
<1>1. /\ eff' = [eff EXCEPT ![e] = NewEffect(b)]
      /\ pending' = pending \cup {e} /\ terminal' = terminal \cup {e}
      /\ governance' = governance /\ unknown' = unknown
      /\ scope' = scope /\ scope[EffectScope[e]] = "Open"
      /\ settlement' = IndexSettlement'
      /\ eff[e].phase = None
  BY DEF ProposeEffect, IsOpen
<1>2. /\ NewEffect(b) \in EffectRecord
      /\ NewEffect(b).phase = "Admitted"
      /\ NewEffect(b).phase # None
      /\ LegalEffect(e, NewEffect(b))
      /\ LegalInScope(e, NewEffect(b), "Open")
      /\ SettlementClass(NewEffect(b)) = "Pending"
      /\ NeedsTerminalTransition(NewEffect(b))
  BY DEF NewEffect, EffectRecord, Availability, Phases, Outcomes, ReconStates, None, LegalEffect,
         LegalInScope, SettlementClass, NeedsTerminalTransition
<1>3. /\ eff'[e] = NewEffect(b)
      /\ \A x \in Effects : x # e => eff'[x] = eff[x]
      /\ eff' \in [Effects -> EffectRecord]
  BY <1>1, <1>2 DEF EffectPart
<1>4. Proposed' = Proposed \cup {e} /\ e \notin Proposed
  BY <1>1, <1>2, <1>3 DEF Proposed
<1>5. EffectPart'
  <2>1. \A x \in Effects : eff'[x].phase = None => eff'[x] = NoEffect
    BY <1>2, <1>3 DEF EffectPart
  <2>2. EffectStateLegal'
    BY <1>2, <1>3, <1>4 DEF EffectPart, EffectStateLegal, Proposed
  <2>3. EffectScopeLegal'
    BY <1>1, <1>2, <1>3, <1>4 DEF EffectPart, EffectScopeLegal, Proposed
  <2> QED BY <1>3, <2>1, <2>2, <2>3 DEF EffectPart
<1>6. ClassPart'
  <2>1. terminal' = RebuiltTerminal'
    BY <1>1, <1>2, <1>3, <1>4 DEF ClassPart, RebuiltTerminal, Proposed
  <2>2. \A c : RebuiltClass(c)' = RebuiltClass(c) \cup (IF c = "Pending" THEN {e} ELSE {})
    BY <1>2, <1>3, <1>4 DEF RebuiltClass, Class, Proposed
  <2> QED BY <1>1, <2>1, <2>2 DEF ClassPart
<1> QED BY <1>1, <1>4, <1>5, <1>6

(* The steps that leave every Effect alone: a scope status that changes    *)
(* under an Effect changes to one the Effect is legal in.                  *)
LEMMA StillMoves ==
    ASSUME EffectPart, ScopePart, Fresh, Step, UNCHANGED eff,
           \/ Quiet \/ CompleteRun
           \/ \E p \in Plans, b \in Bindings, a \in Attempts : StartRun(p, b, a)
           \/ \E s \in Scopes : OpenScope(s)
           \/ \E s \in AllScopes : CommitScope(s)
    PROVE  Moves({})
<1> USE EffectAssumption, ScopeAssumption, IdentityAssumption
<1>1. SUFFICES ASSUME NEW e \in Proposed PROVE LegalInScope(e, eff[e], scope'[EffectScope[e]])
  BY DEF Moves, EffectPart
<1>2. e \in Effects /\ EffectScope[e] \in AllScopes /\ eff[e].phase # None
      /\ LegalInScope(e, eff[e], scope[EffectScope[e]])
  BY DEF Proposed, EffectPart, EffectScopeLegal
<1>3. CASE Quiet \/ CompleteRun
  BY <1>2, <1>3 DEF Quiet, CompleteRun
<1>4. CASE \E p \in Plans, b \in Bindings, a \in Attempts : StartRun(p, b, a)
  BY <1>2, <1>4 DEF StartRun, Fresh
<1>5. ASSUME NEW s \in Scopes, OpenScope(s) PROVE LegalInScope(e, eff[e], scope'[EffectScope[e]])
  <2>1. EffectScope[e] # s
    BY <1>2, <1>5 DEF OpenScope, LegalInScope
  <2>2. scope'[EffectScope[e]] = scope[EffectScope[e]]
    BY <1>2, <1>5, <2>1 DEF OpenScope, ScopePart
  <2> QED BY <1>2, <2>2
<1>6. ASSUME NEW s \in AllScopes, CommitScope(s)
      PROVE  LegalInScope(e, eff[e], scope'[EffectScope[e]])
  <2>1. scope'[EffectScope[e]] = IF EffectScope[e] = s THEN "ClosedCommitted"
                                 ELSE scope[EffectScope[e]]
    BY <1>2, <1>6 DEF CommitScope, ScopePart
  <2> QED BY <1>2, <2>1 DEF LegalInScope, None
<1> QED BY <1>3, <1>4, <1>5, <1>6

LEMMA EffectClassStep ==
    ASSUME EffectPart, ClassPart, ScopePart, Fresh, Step, settlement = IndexSettlement,
           abortMoves = {e \in RebuiltIntents : NeedsAbortTransition(eff[e])},
           abortBlockers = {e \in RebuiltIntents : BlocksAbort(e, eff[e])}
    PROVE  EffectPart' /\ ClassPart' /\ settlement' = IndexSettlement'
<1> DEFINE Goal == EffectPart' /\ ClassPart' /\ settlement' = IndexSettlement'
<1>1. ASSUME NEW S, Moves(S), Reclassify(S, eff'), settlement' = IndexSettlement' PROVE Goal
  BY <1>1, MovesEffectPart, MovesClassPart
<1>2. ASSUME Moves({}), UNCHANGED <<eff, classes, settlement>> PROVE Goal
  <2>1. EffectPart'
    BY <1>2, MovesEffectPart
  <2>2. ClassPart'
    BY <1>2, MovesProposed DEF ClassPart, classes, RebuiltClass, Class, RebuiltTerminal
  <2>3. settlement' = IndexSettlement'
    BY <1>2 DEF classes, IndexSettlement
  <2> QED BY <2>1, <2>2, <2>3
<1>3. CASE Quiet \/ CompleteRun
  <2>1. UNCHANGED <<eff, classes, settlement>>
    BY <1>3 DEF Quiet, CompleteRun
  <2> QED BY <1>2, <1>3, <2>1, StillMoves
<1>4. ASSUME NEW p \in Plans, NEW b \in Bindings, NEW a \in Attempts, StartRun(p, b, a) PROVE Goal
  <2>1. UNCHANGED <<eff, classes, settlement>>
    BY <1>4 DEF StartRun
  <2> QED BY <1>2, <1>4, <2>1, StillMoves
<1>5. ASSUME NEW s \in Scopes, OpenScope(s) PROVE Goal
  <2>1. UNCHANGED <<eff, classes, settlement>>
    BY <1>5 DEF OpenScope
  <2> QED BY <1>2, <1>5, <2>1, StillMoves
<1>6. ASSUME NEW s \in AllScopes, CommitScope(s) PROVE Goal
  <2>1. UNCHANGED <<eff, classes, settlement>>
    BY <1>6 DEF CommitScope
  <2> QED BY <1>2, <1>6, <2>1, StillMoves
<1>7. ASSUME NEW s \in AllScopes, AbortScope(s) PROVE Goal
  BY <1>1, <1>7, AbortMoves DEF ScopePart
<1>8. ASSUME NEW e \in Effects, NEW b \in Bindings, ProposeEffect(e, b) PROVE Goal
  BY <1>8, ProposeParts
<1>9. ASSUME NEW e \in Effects, NEW f, EffectMove(e, f) PROVE Goal
  BY <1>1, <1>9, EffectMoveMoves
<1>10. ASSUME NEW r \in {"Failed", "Cancelled"}, Terminate(r) PROVE Goal
  BY <1>1, <1>10, TerminateMoves DEF ScopePart
<1> QED BY <1>3, <1>4, <1>5, <1>6, <1>7, <1>8, <1>9, <1>10 DEF Step

-----------------------------------------------------------------------------
(* The index entries of the open scopes.                                   *)
EntryPart ==
    /\ intents = RebuiltIntents
    /\ mutating = {e \in RebuiltIntents : Mutating(e)}
    /\ abortMoves = {e \in RebuiltIntents : NeedsAbortTransition(eff[e])}
    /\ abortBlockers = {e \in RebuiltIntents : BlocksAbort(e, eff[e])}

(* When a scope closes, its entry disappears and the others are untouched. *)
LEMMA EntryClose ==
    ASSUME EntryPart, ScopePart, NEW s \in AllScopes, NEW c, CloseIndex(s, c),
           NEW st \in {"ClosedCommitted", "ClosedAborted"}, scope' = [scope EXCEPT ![s] = st],
           Proposed' = Proposed, \A e \in Proposed : EffectScope[e] # s => eff'[e] = eff[e]
    PROVE  EntryPart'
<1>1. RebuiltIntents' = {e \in RebuiltIntents : EffectScope[e] # s}
  <2>1. \A e \in Proposed : IsOpen(e)' <=> (IsOpen(e) /\ EffectScope[e] # s)
    BY EffectAssumption DEF Proposed, IsOpen, ScopePart
  <2> QED BY <2>1 DEF RebuiltIntents
<1>2. \A e \in RebuiltIntents' : eff'[e] = eff[e]
  BY <1>1 DEF RebuiltIntents
<1>3. /\ intents' = {e \in intents : EffectScope[e] # s}
      /\ mutating' = {e \in mutating : EffectScope[e] # s}
      /\ abortMoves' = {e \in abortMoves : EffectScope[e] # s}
      /\ abortBlockers' = {e \in abortBlockers : EffectScope[e] # s}
  BY DEF CloseIndex
<1>4. abortMoves' = {e \in RebuiltIntents' : NeedsAbortTransition(eff'[e])}
  BY <1>1, <1>2, <1>3 DEF EntryPart
<1>5. abortBlockers' = {e \in RebuiltIntents' : BlocksAbort(e, eff'[e])}
  BY <1>1, <1>2, <1>3 DEF EntryPart, BlocksAbort
<1> QED BY <1>1, <1>3, <1>4, <1>5 DEF EntryPart, Mutating

LEMMA EntryStep ==
    ASSUME EffectPart, ClassPart, ScopePart, EntryPart, Fresh, Step
    PROVE  EntryPart'
<1> USE EffectAssumption
<1>1. ASSUME UNCHANGED <<eff, entries>>, \A e \in Proposed : IsOpen(e)' = IsOpen(e)
      PROVE  EntryPart'
  <2>1. Proposed' = Proposed /\ RebuiltIntents' = RebuiltIntents
    BY <1>1 DEF Proposed, RebuiltIntents
  <2> QED BY <1>1, <2>1 DEF EntryPart, entries, BlocksAbort, Mutating
<1>2. CASE Quiet \/ CompleteRun
  BY <1>1, <1>2 DEF Quiet, CompleteRun, IsOpen
<1>3. ASSUME NEW p \in Plans, NEW b \in Bindings, NEW a \in Attempts, StartRun(p, b, a)
      PROVE  EntryPart'
  <2>1. Proposed = {} /\ UNCHANGED <<eff, entries>>
    BY <1>3 DEF StartRun, Fresh, Proposed
  <2> QED BY <1>1, <2>1
<1>4. ASSUME NEW s \in Scopes, OpenScope(s) PROVE EntryPart'
  <2>1. scope[s] = None /\ scope' = [scope EXCEPT ![s] = "Open"] /\ UNCHANGED <<eff, entries>>
    BY <1>4 DEF OpenScope
  <2>2. \A e \in Proposed : EffectScope[e] # s /\ EffectScope[e] \in AllScopes
    BY <2>1 DEF EffectPart, EffectScopeLegal, LegalInScope, Proposed
  <2> QED BY <1>1, <2>1, <2>2 DEF IsOpen, ScopePart
<1>5. ASSUME NEW s \in AllScopes, CommitScope(s) PROVE EntryPart'
  <2>1. /\ CloseIndex(s, TRUE) /\ scope' = [scope EXCEPT ![s] = "ClosedCommitted"]
        /\ UNCHANGED eff
    BY <1>5 DEF CommitScope
  <2> QED BY <2>1, EntryClose DEF Proposed
<1>6. ASSUME NEW s \in AllScopes, AbortScope(s) PROVE EntryPart'
  <2>1. CloseIndex(s, FALSE) /\ scope' = [scope EXCEPT ![s] = "ClosedAborted"]
    BY <1>6 DEF AbortScope
  <2>2. Moves({e \in abortMoves : EffectScope[e] = s})
    BY <1>6, AbortMoves DEF EntryPart, ScopePart
  <2>3. Proposed' = Proposed /\ \A e \in Proposed : EffectScope[e] # s => eff'[e] = eff[e]
    BY <2>2, MovesProposed DEF Moves, Proposed
  <2> QED BY <2>1, <2>3, EntryClose
<1>7. ASSUME NEW e \in Effects, NEW b \in Bindings, ProposeEffect(e, b) PROVE EntryPart'
  <2>1. /\ eff' = [eff EXCEPT ![e] = NewEffect(b)] /\ scope' = scope /\ IsOpen(e)
        /\ eff[e].phase = None
        /\ intents' = intents \cup {e}
        /\ mutating' = IF Mutating(e) THEN mutating \cup {e} ELSE mutating
        /\ abortMoves' = abortMoves \cup {e} /\ abortBlockers' = abortBlockers
    BY <1>7 DEF ProposeEffect
  <2>2. /\ Proposed' = Proposed \cup {e} /\ e \notin Proposed
        /\ RebuiltIntents' = RebuiltIntents \cup {e} /\ e \notin RebuiltIntents
    BY <1>7, <2>1, ProposeParts DEF RebuiltIntents, IsOpen, Proposed
  <2>3. /\ \A x \in RebuiltIntents : eff'[x] = eff[x]
        /\ eff'[e].phase = "Admitted"
    BY <2>1, <2>2 DEF RebuiltIntents, Proposed, EffectPart, NewEffect
  <2>4. NeedsAbortTransition(eff'[e]) /\ ~BlocksAbort(e, eff'[e])
    BY <2>3 DEF NeedsAbortTransition, BlocksAbort
  <2>5. abortMoves' = {x \in RebuiltIntents' : NeedsAbortTransition(eff'[x])}
    BY <2>1, <2>2, <2>3, <2>4 DEF EntryPart
  <2>6. abortBlockers' = {x \in RebuiltIntents' : BlocksAbort(x, eff'[x])}
    BY <2>1, <2>2, <2>3, <2>4 DEF EntryPart, BlocksAbort
  <2> QED BY <2>1, <2>2, <2>5, <2>6 DEF EntryPart, Mutating
<1>8. ASSUME NEW e \in Effects, NEW f, EffectMove(e, f) PROVE EntryPart'
  <2>1. /\ Moves({e}) /\ ReclassifyOpen({e}, eff') /\ scope' = scope
        /\ intents' = intents /\ mutating' = mutating
    BY <1>8, EffectMoveMoves
  <2>2. /\ Proposed' = Proposed /\ e \in Proposed
        /\ \A x \in Proposed : x # e => eff'[x] = eff[x]
        /\ RebuiltIntents' = RebuiltIntents
        /\ IsOpen(e) <=> e \in RebuiltIntents
    BY <2>1, MovesProposed DEF Moves, RebuiltIntents, IsOpen, Proposed
  <2>3. abortMoves' = {x \in RebuiltIntents' : NeedsAbortTransition(eff'[x])}
    BY <2>1, <2>2 DEF ReclassifyOpen, EntryPart, RebuiltIntents
  <2>4. abortBlockers' = {x \in RebuiltIntents' : BlocksAbort(x, eff'[x])}
    BY <2>1, <2>2 DEF ReclassifyOpen, EntryPart, RebuiltIntents, BlocksAbort
  <2> QED BY <2>1, <2>2, <2>3, <2>4 DEF EntryPart, Mutating
<1>9. ASSUME NEW r \in {"Failed", "Cancelled"}, Terminate(r) PROVE EntryPart'
  <2>1. /\ scope' = [s \in AllScopes |-> IF s \in open THEN "ClosedAborted" ELSE scope[s]]
        /\ intents' = {} /\ mutating' = {} /\ abortMoves' = {} /\ abortBlockers' = {}
    BY <1>9 DEF Terminate
  <2>2. \A e \in Effects : ~IsOpen(e)'
    BY <2>1 DEF IsOpen, ScopePart
  <2>3. RebuiltIntents' = {}
    BY <2>2 DEF RebuiltIntents, Proposed
  <2> QED BY <2>1, <2>3 DEF EntryPart
<1> QED BY <1>2, <1>3, <1>4, <1>5, <1>6, <1>7, <1>8, <1>9 DEF Step

-----------------------------------------------------------------------------
(* Obligations: exactly the mutating Effects of committed scopes.          *)
Owed(e) == e \in Proposed /\ Mutating(e) /\ scope[EffectScope[e]] = "ClosedCommitted"

ObligationPart ==
    /\ obl \in [Effects -> {None, "Unresolved", "Resolved"}]
    /\ \A e \in Effects :
          obl[e] = IF Owed(e) THEN IF ObligationResolved(eff[e]) THEN "Resolved" ELSE "Unresolved"
                   ELSE None
    /\ unresolved = {e \in Effects : obl[e] = "Unresolved"}

LEMMA ObligationPartMeaning ==
    ASSUME TypeOK
    PROVE  (ObligationsExact /\ unresolved = {e \in Effects : obl[e] = "Unresolved"})
           <=> ObligationPart
BY DEF TypeOK, ObligationsExact, ObligationPart, Owed, ObligationResolved, Known

(* Steps that keep every obligation: what is owed, and how it ended, stay. *)
LEMMA ObligationKept ==
    ASSUME ObligationPart, UNCHANGED <<obl, unresolved>>,
           \A e \in Effects : /\ Owed(e)' <=> Owed(e)
                              /\ Owed(e) => (ObligationResolved(eff'[e]) <=> ObligationResolved(eff[e]))
    PROVE  ObligationPart'
BY DEF ObligationPart

(* update_obligation after the Effects of S moved.                         *)
LEMMA ObligationUpdated ==
    ASSUME ObligationPart, NEW S \in SUBSET Effects,
           obl' = UpdatedObligations(S, eff'), unresolved' = UpdatedUnresolved(S, eff'),
           \A e \in Effects : Owed(e)' <=> Owed(e),
           \A e \in Effects : e \notin S => eff'[e] = eff[e]
    PROVE  ObligationPart'
<1>1. obl' \in [Effects -> {None, "Unresolved", "Resolved"}]
  BY DEF ObligationPart, UpdatedObligations
<1>2. \A e \in Effects :
         obl'[e] = IF Owed(e)' THEN IF ObligationResolved(eff'[e]) THEN "Resolved" ELSE "Unresolved"
                   ELSE None
  BY DEF ObligationPart, UpdatedObligations, None
<1>3. unresolved' = {e \in Effects : obl'[e] = "Unresolved"}
  BY DEF ObligationPart, UpdatedObligations, UpdatedUnresolved, None
<1> QED BY <1>1, <1>2, <1>3 DEF ObligationPart

LEMMA ObligationStep ==
    ASSUME EffectPart, ClassPart, ScopePart, EntryPart, ObligationPart, Fresh, Step
    PROVE  ObligationPart'
<1> USE EffectAssumption
<1>0. \A e \in Effects : EffectScope[e] \in AllScopes
  OBVIOUS
<1>1. CASE Quiet \/ CompleteRun
  <2>1. UNCHANGED <<obl, unresolved, eff, scope>>
    BY <1>1 DEF Quiet, CompleteRun
  <2> QED BY <2>1, ObligationKept DEF Owed, Proposed
<1>2. ASSUME NEW p \in Plans, NEW b \in Bindings, NEW a \in Attempts, StartRun(p, b, a)
      PROVE  ObligationPart'
  <2>1. Proposed = {} /\ UNCHANGED <<eff, obl, unresolved>>
    BY <1>2 DEF StartRun, Fresh, Proposed
  <2> QED BY <2>1, ObligationKept DEF Owed, Proposed
<1>3. ASSUME NEW s \in Scopes, OpenScope(s) PROVE ObligationPart'
  <2>1. /\ scope[s] = None /\ scope' = [scope EXCEPT ![s] = "Open"]
        /\ UNCHANGED <<eff, obl, unresolved>>
    BY <1>3 DEF OpenScope
  <2>2. \A e \in Effects : scope'[EffectScope[e]] = "ClosedCommitted"
                              <=> scope[EffectScope[e]] = "ClosedCommitted"
    BY <1>0, <2>1 DEF ScopePart, None
  <2> QED BY <2>1, <2>2, ObligationKept DEF Owed, Proposed
<1>4. ASSUME NEW s \in AllScopes, CommitScope(s) PROVE ObligationPart'
  <2> DEFINE mine == {e \in mutating : EffectScope[e] = s}
             resolved == {e \in mine : eff[e].outcome \in Known}
  <2>1. /\ scope[s] = "Open" /\ scope' = [scope EXCEPT ![s] = "ClosedCommitted"]
        /\ UNCHANGED eff
        /\ obl' = [e \in Effects |->
                     IF e \in resolved THEN "Resolved"
                     ELSE IF e \in mine THEN "Unresolved" ELSE obl[e]]
        /\ unresolved' = unresolved \cup (mine \ resolved)
    BY <1>4 DEF CommitScope, MayClose
  <2>2. /\ mine \subseteq Effects
        /\ \A e \in Effects : e \in mine <=> e \in Proposed /\ Mutating(e) /\ EffectScope[e] = s
    BY <2>1 DEF EntryPart, RebuiltIntents, IsOpen, Proposed
  <2>3. \A e \in mine : e \in resolved <=> ObligationResolved(eff[e])
    BY <2>2 DEF EffectPart, EffectStateLegal, LegalEffect, ObligationResolved, Known
  <2>4. Proposed' = Proposed
    BY <2>1 DEF Proposed
  <2>5. \A e \in Effects : Owed(e)' <=> Owed(e) \/ e \in mine
    BY <1>0, <2>1, <2>2, <2>4 DEF Owed, ScopePart, Mutating
  <2>6. \A e \in mine : ~Owed(e)
    BY <2>1, <2>2 DEF Owed
  <2> HIDE DEF mine
  <2>7. resolved \subseteq mine
    OBVIOUS
  <2> HIDE DEF resolved
  <2>8. obl' \in [Effects -> {None, "Unresolved", "Resolved"}]
    BY <2>1 DEF ObligationPart
  <2>9. \A e \in Effects :
         obl'[e] = IF Owed(e)' THEN IF ObligationResolved(eff'[e]) THEN "Resolved" ELSE "Unresolved"
                   ELSE None
    BY <2>1, <2>3, <2>5, <2>7 DEF ObligationPart
  <2>10. unresolved' = {e \in Effects : obl'[e] = "Unresolved"}
    BY <2>1, <2>2, <2>6, <2>7 DEF ObligationPart, None
  <2> QED BY <2>8, <2>9, <2>10 DEF ObligationPart
<1>5. ASSUME NEW s \in AllScopes, AbortScope(s) PROVE ObligationPart'
  <2>1. /\ scope[s] = "Open" /\ scope' = [scope EXCEPT ![s] = "ClosedAborted"]
        /\ UNCHANGED <<obl, unresolved>>
    BY <1>5 DEF AbortScope, MayClose
  <2>2. Moves({e \in abortMoves : EffectScope[e] = s})
    BY <1>5, AbortMoves DEF EntryPart, ScopePart
  <2>3. Proposed' = Proposed /\ \A e \in Effects : EffectScope[e] # s => eff'[e] = eff[e]
    BY <2>2, MovesProposed DEF Moves
  <2>4. \A e \in Effects : Owed(e)' <=> Owed(e)
    BY <1>0, <2>1, <2>3 DEF Owed, ScopePart, Mutating
  <2>5. \A e \in Effects : Owed(e) => EffectScope[e] # s
    BY <2>1 DEF Owed
  <2> QED BY <2>1, <2>3, <2>4, <2>5, ObligationKept
<1>6. ASSUME NEW e \in Effects, NEW b \in Bindings, ProposeEffect(e, b) PROVE ObligationPart'
  <2>1. /\ scope[EffectScope[e]] = "Open" /\ scope' = scope
        /\ eff' = [eff EXCEPT ![e] = NewEffect(b)] /\ UNCHANGED <<obl, unresolved>>
    BY <1>6 DEF ProposeEffect, IsOpen
  <2>2. Proposed' = Proposed \cup {e}
    BY <1>6, ProposeParts
  <2>3. \A x \in Effects : (Owed(x)' <=> Owed(x)) /\ (Owed(x) => x # e)
    BY <2>1, <2>2 DEF Owed, Mutating
  <2>4. \A x \in Effects : x # e => eff'[x] = eff[x]
    BY <2>1 DEF EffectPart
  <2> QED BY <2>1, <2>3, <2>4, ObligationKept
<1>7. ASSUME NEW e \in Effects, NEW f, EffectMove(e, f) PROVE ObligationPart'
  <2>1. /\ Moves({e}) /\ scope' = scope
        /\ obl' = UpdatedObligations({e}, eff') /\ unresolved' = UpdatedUnresolved({e}, eff')
    BY <1>7, EffectMoveMoves
  <2>2. \A x \in Effects : Owed(x)' <=> Owed(x)
    BY <2>1, MovesProposed DEF Owed, Mutating
  <2> QED BY <2>1, <2>2, ObligationUpdated DEF Moves
<1>8. ASSUME NEW r \in {"Failed", "Cancelled"}, Terminate(r) PROVE ObligationPart'
  <2>1. /\ Moves(terminal) /\ obl' = UpdatedObligations(terminal, eff')
        /\ unresolved' = UpdatedUnresolved(terminal, eff')
    BY <1>8, TerminateMoves DEF ScopePart
  <2>2. scope' = [s \in AllScopes |-> IF s \in open THEN "ClosedAborted" ELSE scope[s]]
    BY <1>8 DEF Terminate
  <2>3. \A x \in Effects : Owed(x)' <=> Owed(x)
    BY <1>0, <2>1, <2>2, MovesProposed DEF Owed, Mutating, ScopePart
  <2>4. terminal \in SUBSET Effects
    BY DEF ClassPart, RebuiltTerminal, Proposed
  <2> QED BY <2>1, <2>3, <2>4, ObligationUpdated DEF Moves
<1> QED BY <1>1, <1>2, <1>3, <1>4, <1>5, <1>6, <1>7, <1>8 DEF Step

-----------------------------------------------------------------------------
(* The two counters that scope queries are charged with.                   *)
In(s) == {e \in Proposed : EffectScope[e] = s}
InCommitted == {e \in Proposed : scope[EffectScope[e]] = "ClosedCommitted"}

CountPart ==
    /\ count \in [AllScopes -> Nat]
    /\ \A s \in AllScopes : count[s] = Cardinality(In(s))
    /\ committed = Cardinality(InCommitted)

LEMMA CountFinite ==
    /\ \A s : IsFiniteSet(In(s)) /\ Cardinality(In(s)) \in Nat
    /\ IsFiniteSet(InCommitted) /\ Cardinality(InCommitted) \in Nat
<1>1. IsFiniteSet(Proposed)
  BY IdentityAssumption, FS_Subset DEF Proposed
<1> QED BY <1>1, FS_Subset, FS_CardinalityType DEF In, InCommitted

LEMMA CountPartMeaning ==
    ASSUME TypeOK
    PROVE  (count = RebuiltCount /\ committed = RebuiltCommitted) <=> CountPart
BY CountFinite DEF TypeOK, RebuiltCount, RebuiltCommitted, CountPart, In, InCommitted

LEMMA CountStep ==
    ASSUME EffectPart, ClassPart, ScopePart, EntryPart, CountPart, Fresh, Step
    PROVE  CountPart'
<1>0. \A e \in Effects : EffectScope[e] \in AllScopes
  BY EffectAssumption
<1>1. ASSUME UNCHANGED <<count, committed>>, Proposed' = Proposed,
             \A e \in Proposed : scope'[EffectScope[e]] = "ClosedCommitted"
                                    <=> scope[EffectScope[e]] = "ClosedCommitted"
      PROVE  CountPart'
  <2>1. InCommitted' = InCommitted /\ \A s \in AllScopes : In(s)' = In(s)
    BY <1>1 DEF In, InCommitted
  <2> QED BY <1>1, <2>1 DEF CountPart
<1>2. CASE Quiet \/ CompleteRun
  BY <1>1, <1>2 DEF Quiet, CompleteRun, Proposed
<1>3. ASSUME NEW p \in Plans, NEW b \in Bindings, NEW a \in Attempts, StartRun(p, b, a)
      PROVE  CountPart'
  <2>1. Proposed = {} /\ Proposed' = {} /\ UNCHANGED <<count, committed>>
    BY <1>3 DEF StartRun, Fresh, Proposed
  <2> QED BY <1>1, <2>1
<1>4. ASSUME NEW s \in Scopes, OpenScope(s) PROVE CountPart'
  <2>1. /\ scope[s] = None /\ scope' = [scope EXCEPT ![s] = "Open"]
        /\ UNCHANGED <<eff, count, committed>>
    BY <1>4 DEF OpenScope
  <2>2. \A e \in Proposed : scope'[EffectScope[e]] = "ClosedCommitted"
                               <=> scope[EffectScope[e]] = "ClosedCommitted"
    BY <1>0, <2>1 DEF ScopePart, None, Proposed
  <2> QED BY <1>1, <2>1, <2>2 DEF Proposed
<1>5. ASSUME NEW s \in AllScopes, CommitScope(s) PROVE CountPart'
  <2>1. /\ scope[s] = "Open" /\ scope' = [scope EXCEPT ![s] = "ClosedCommitted"]
        /\ UNCHANGED <<eff, count>>
        /\ committed' = committed + Cardinality({e \in intents : EffectScope[e] = s})
    BY <1>5 DEF CommitScope, MayClose, CloseIndex
  <2>2. {e \in intents : EffectScope[e] = s} = In(s) /\ Proposed' = Proposed
    BY <2>1 DEF EntryPart, RebuiltIntents, IsOpen, In, Proposed
  <2>3. InCommitted' = InCommitted \cup In(s) /\ InCommitted \cap In(s) = {}
    BY <1>0, <2>1, <2>2 DEF InCommitted, In, ScopePart, Proposed
  <2>4. Cardinality(InCommitted \cup In(s)) = Cardinality(InCommitted) + Cardinality(In(s))
    <3>1. /\ Cardinality(InCommitted \cup In(s)) = Cardinality(InCommitted)
                 + Cardinality(In(s)) - Cardinality(InCommitted \cap In(s))
      BY CountFinite, FS_Union
    <3> QED BY <2>3, <3>1, CountFinite, FS_EmptySet
  <2>5. committed' = Cardinality(InCommitted')
    BY <2>1, <2>2, <2>3, <2>4 DEF CountPart
  <2>6. \A t \in AllScopes : In(t)' = In(t)
    BY <2>2 DEF In
  <2> QED BY <2>1, <2>5, <2>6 DEF CountPart
<1>6. ASSUME NEW s \in AllScopes, AbortScope(s) PROVE CountPart'
  <2>1. /\ scope[s] = "Open" /\ scope' = [scope EXCEPT ![s] = "ClosedAborted"]
        /\ UNCHANGED <<count, committed>>
    BY <1>6 DEF AbortScope, MayClose, CloseIndex
  <2>2. Proposed' = Proposed
    BY <1>6, AbortMoves, MovesProposed DEF EntryPart, ScopePart
  <2>3. \A e \in Proposed : scope'[EffectScope[e]] = "ClosedCommitted"
                               <=> scope[EffectScope[e]] = "ClosedCommitted"
    BY <1>0, <2>1 DEF ScopePart, Proposed
  <2> QED BY <1>1, <2>1, <2>2, <2>3
<1>7. ASSUME NEW e \in Effects, NEW b \in Bindings, ProposeEffect(e, b) PROVE CountPart'
  <2>1. /\ scope[EffectScope[e]] = "Open" /\ scope' = scope /\ eff[e].phase = None
        /\ count' = [count EXCEPT ![EffectScope[e]] = @ + 1] /\ committed' = committed
    BY <1>7 DEF ProposeEffect, IsOpen
  <2>2. Proposed' = Proposed \cup {e} /\ e \notin Proposed
    BY <1>7, <2>1, ProposeParts DEF Proposed
  <2>3. InCommitted' = InCommitted
    BY <2>1, <2>2 DEF InCommitted
  <2>4. /\ In(EffectScope[e])' = In(EffectScope[e]) \cup {e} /\ e \notin In(EffectScope[e])
        /\ \A t \in AllScopes : t # EffectScope[e] => In(t)' = In(t)
    BY <2>2 DEF In
  <2>5. Cardinality(In(EffectScope[e]) \cup {e}) = Cardinality(In(EffectScope[e])) + 1
    BY <2>4, CountFinite, FS_AddElement
  <2>6. \A t \in AllScopes : count'[t] = Cardinality(In(t)')
    BY <1>0, <2>1, <2>4, <2>5 DEF CountPart
  <2>7. count' \in [AllScopes -> Nat]
    BY <1>0, <2>1 DEF CountPart
  <2> QED BY <2>1, <2>3, <2>6, <2>7 DEF CountPart
<1>8. ASSUME NEW e \in Effects, NEW f, EffectMove(e, f) PROVE CountPart'
  <2>1. Moves({e}) /\ UNCHANGED <<scope, count, committed>>
    BY <1>8, EffectMoveMoves
  <2> QED BY <1>1, <2>1, MovesProposed
<1>9. ASSUME NEW r \in {"Failed", "Cancelled"}, Terminate(r) PROVE CountPart'
  <2>1. /\ scope' = [s \in AllScopes |-> IF s \in open THEN "ClosedAborted" ELSE scope[s]]
        /\ UNCHANGED <<count, committed>>
    BY <1>9 DEF Terminate
  <2>2. Proposed' = Proposed
    BY <1>9, TerminateMoves, MovesProposed DEF ScopePart
  <2>3. \A e \in Proposed : scope'[EffectScope[e]] = "ClosedCommitted"
                               <=> scope[EffectScope[e]] = "ClosedCommitted"
    BY <1>0, <2>1 DEF ScopePart, Proposed
  <2> QED BY <1>1, <2>1, <2>2, <2>3
<1> QED BY <1>2, <1>3, <1>4, <1>5, <1>6, <1>7, <1>8, <1>9 DEF Step

-----------------------------------------------------------------------------
(* The end of a Run.  verify_run_event_gate: what a step can still do once *)
(* the Run is terminal.                                                    *)
Frozen == UNCHANGED <<status, epoch, plan, binding, scope, att, active>>

LEMMA TerminalSteps ==
    ASSUME Inv, [Next]_vars, status \notin {None, "Active"}
    PROVE  /\ Frozen
           /\ \/ UNCHANGED <<eff, obl, settlement>>
              \/ \E e \in Effects : \E f : EffectMove(e, f)
<1> USE DEF Frozen
<1>1. CASE AttemptStep
  BY <1>1 DEF AttemptStep, BeginAttempt, YieldAttempt, AdvanceEpoch
<1>2. CASE EffectStep
  <2>1. PICK e \in Effects :
          \/ \E b \in Bindings : ProposeEffect(e, b)
          \/ Prepare(e) \/ AuthorizeRelease(e) \/ StartDispatch(e) \/ MarkUnavailable(e)
          \/ \E o \in Outcomes : Observe(e, o)
          \/ \E r \in Resolutions : Reconcile(e, r)
    BY <1>2 DEF EffectStep
  <2>2. ~ \E b \in Bindings : ProposeEffect(e, b)
    BY DEF ProposeEffect
  <2>3. PICK f : EffectMove(e, f)
    BY <2>1, <2>2, EffectMoves DEF Inv
  <2> QED BY <2>3 DEF EffectMove, TransitionEffect
<1>3. CASE ScopeStep
  BY <1>3 DEF ScopeStep, OpenScope, CommitScope, AbortScope
<1>4. CASE RunStep
  BY <1>4 DEF RunStep, StartRun, MigrateRun, UpdateBinding, CompleteRun, FailRun, CancelRun, Terminate
<1>5. CASE UNCHANGED vars
  BY <1>5 DEF vars, projection
<1> QED BY <1>1, <1>2, <1>3, <1>4, <1>5 DEF Next

(* How the status changes at all.                                          *)
LEMMA StatusSteps ==
    ASSUME Inv, [Next]_vars
    PROVE  \/ status' = status
           \/ \E p \in Plans, b \in Bindings, a \in Attempts : StartRun(p, b, a)
           \/ CompleteRun
           \/ \E r \in {"Failed", "Cancelled"} : Terminate(r)
<1>1. Step
  BY Steps
<1>2. Quiet => status' = status
  BY DEF Quiet
<1>3. \A s : OpenScope(s) \/ CommitScope(s) \/ AbortScope(s) => status' = status
  BY DEF OpenScope, CommitScope, AbortScope
<1>4. \A e, b : ProposeEffect(e, b) => status' = status
  BY DEF ProposeEffect
<1>5. \A e, f : EffectMove(e, f) => status' = status
  BY DEF EffectMove, TransitionEffect
<1> QED BY <1>1, <1>2, <1>3, <1>4, <1>5 DEF Step

(* Everything but the end of the Run, in the parts proved above.           *)
Parts ==
    AttemptPart /\ ScopePart /\ EffectPart /\ ClassPart /\ EntryPart /\ ObligationPart /\ CountPart

LEMMA InvParts == Inv => Parts /\ settlement = IndexSettlement
<1> SUFFICES ASSUME Inv PROVE Parts /\ settlement = IndexSettlement
  OBVIOUS
<1> USE DEF Inv
<1>1. AttemptPart
  BY AttemptPartMeaning DEF DerivedIndexExact, Fresh
<1>2. ScopePart
  BY ScopePartMeaning DEF DerivedIndexExact
<1>3. EffectPart
  BY DEF EffectPart, TypeOK, Fresh
<1>4. ClassPart /\ EntryPart
  BY DEF ClassPart, EntryPart, DerivedIndexExact
<1>5. ObligationPart
  BY ObligationPartMeaning DEF DerivedIndexExact
<1>6. CountPart
  BY CountPartMeaning DEF DerivedIndexExact
<1>7. settlement = IndexSettlement
  BY <1>4, SettlementAgrees DEF SettlementExact
<1> QED BY <1>1, <1>2, <1>3, <1>4, <1>5, <1>6, <1>7 DEF Parts

LEMMA PartsStep ==
    ASSUME Inv, [Next]_vars PROVE Parts' /\ settlement' = IndexSettlement'
<1>1. Step /\ Fresh
  BY Steps DEF Inv
<1>2. Parts /\ settlement = IndexSettlement
  BY InvParts
<1>3. AttemptPart'
  BY <1>1, <1>2, AttemptPartStep DEF Parts, Fresh
<1>4. ScopePart'
  BY <1>1, <1>2, ScopePartStep DEF Parts
<1>5. EffectPart' /\ ClassPart' /\ settlement' = IndexSettlement'
  BY <1>1, <1>2, EffectClassStep DEF Parts, EntryPart
<1>6. EntryPart' /\ ObligationPart' /\ CountPart'
  BY <1>1, <1>2, EntryStep, ObligationStep, CountStep DEF Parts
<1> QED BY <1>3, <1>4, <1>5, <1>6 DEF Parts

LEMMA TypeStep == ASSUME Inv, [Next]_vars PROVE TypeOK'
<1>1. Parts' /\ settlement' = IndexSettlement'
  BY PartsStep
<1>2. /\ epoch' \in 0..MaxEpoch /\ att' \in [Attempts -> AttemptRecord]
      /\ active' \in Attempts \cup {None}
  BY <1>1 DEF Parts, AttemptPart
<1>3. /\ scope' \in [AllScopes -> ScopeStatus \cup {None}] /\ open' \subseteq AllScopes
      /\ descendants' \in [AllScopes -> Nat]
  BY <1>1 DEF Parts, ScopePart
<1>4. eff' \in [Effects -> EffectRecord] /\ Proposed' \subseteq Effects
  BY <1>1 DEF Parts, EffectPart, Proposed
<1>5. /\ governance' \subseteq Effects /\ unknown' \subseteq Effects /\ pending' \subseteq Effects
      /\ terminal' \subseteq Effects
  BY <1>1, <1>4 DEF Parts, ClassPart, RebuiltClass, Class, RebuiltTerminal
<1>6. /\ intents' \subseteq Effects /\ mutating' \subseteq Effects
      /\ abortMoves' \subseteq Effects /\ abortBlockers' \subseteq Effects
  BY <1>1, <1>4 DEF Parts, EntryPart, RebuiltIntents
<1>7. obl' \in [Effects -> {None, "Unresolved", "Resolved"}] /\ unresolved' \subseteq Effects
  BY <1>1 DEF Parts, ObligationPart
<1>8. count' \in [AllScopes -> Nat] /\ committed' \in Nat
  <2>1. IsFiniteSet(InCommitted') /\ Cardinality(InCommitted') \in Nat
    BY <1>4, IdentityAssumption, FS_Subset, FS_CardinalityType DEF InCommitted
  <2> QED BY <1>1, <2>1 DEF Parts, CountPart
<1>9. settlement' \in Settlement
  BY <1>1 DEF IndexSettlement, Settlement
<1>10. status' \in RunStatus \cup {None}
  BY StatusSteps DEF Inv, TypeOK, StartRun, CompleteRun, Terminate, RunStatus
<1>11. plan' \in Plans \cup {None} /\ binding' \in Bindings \cup {None}
  <2>1. plan \in Plans \cup {None} /\ binding \in Bindings \cup {None}
    BY DEF Inv, TypeOK
  <2>2. AttemptStep => UNCHANGED <<plan, binding>>
    BY DEF AttemptStep, BeginAttempt, YieldAttempt, AdvanceEpoch
  <2>3. ASSUME EffectStep PROVE UNCHANGED <<plan, binding>>
    <3>1. \A e, f : TransitionEffect(e, f) => UNCHANGED <<plan, binding>>
      BY DEF TransitionEffect
    <3> QED BY <2>3, <3>1 DEF EffectStep, ProposeEffect, Prepare, AuthorizeRelease, StartDispatch,
               MarkUnavailable, Observe, Reconcile
  <2>4. ScopeStep => UNCHANGED <<plan, binding>>
    BY DEF ScopeStep, OpenScope, CommitScope, AbortScope
  <2>5. UNCHANGED vars => UNCHANGED <<plan, binding>>
    BY DEF vars, projection
  <2>6. RunStep => plan' \in Plans \cup {plan} /\ binding' \in Bindings \cup {binding}
    BY DEF RunStep, StartRun, MigrateRun, UpdateBinding, CompleteRun, FailRun, CancelRun, Terminate
  <2> QED BY <2>1, <2>2, <2>3, <2>4, <2>5, <2>6 DEF Next
<1> QED BY <1>2, <1>3, <1>4, <1>5, <1>6, <1>7, <1>8, <1>9, <1>10, <1>11 DEF TypeOK

LEMMA FreshStep == ASSUME Inv, [Next]_vars PROVE Fresh'
<1>1. Parts'
  BY PartsStep
<1>2. /\ \A a \in Attempts : att'[a].fence = 0 => ~att'[a].active /\ att'[a].epoch = 0
      /\ \A e \in Effects : eff'[e].phase = None => eff'[e] = NoEffect
  BY <1>1 DEF Parts, AttemptPart, EffectPart
<1>3. ASSUME status' = None
      PROVE  UNCHANGED <<status, scope, eff, att, epoch, active>>
  <2>1. status = None
    BY <1>3, StatusSteps DEF StartRun, CompleteRun, Terminate, None
  <2>2. CASE AttemptStep
    BY <2>1, <2>2 DEF AttemptStep, BeginAttempt, YieldAttempt, AdvanceEpoch, None
  <2>3. CASE EffectStep
    BY <2>1, <2>3 DEF EffectStep, ProposeEffect, Prepare, AuthorizeRelease, StartDispatch,
       MarkUnavailable, Observe, Reconcile, None
  <2>4. CASE ScopeStep
    BY <2>1, <2>4 DEF ScopeStep, OpenScope, CommitScope, AbortScope, None
  <2>5. CASE RunStep
    BY <1>3, <2>1, <2>5 DEF RunStep, StartRun, MigrateRun, UpdateBinding, CompleteRun, FailRun,
       CancelRun, Terminate, None
  <2>6. CASE UNCHANGED vars
    BY <2>6 DEF vars, projection
  <2> QED BY <2>2, <2>3, <2>4, <2>5, <2>6 DEF Next
<1>4. status = None => /\ \A s \in AllScopes : scope[s] = None
                       /\ \A e \in Effects : eff[e].phase = None
                       /\ \A a \in Attempts : att[a].fence = 0
                       /\ epoch = 0 /\ active = None
  BY DEF Inv, Fresh
<1> QED BY <1>2, <1>3, <1>4 DEF Fresh

(* Once no outcome is Unobserved the settlement cannot be Pending.         *)
LEMMA NotPending ==
    (\A e \in Proposed : eff[e].outcome # "Unobserved") => DerivedSettlement # "Pending"
BY DEF DerivedSettlement

LEMMA TerminalStep ==
    ASSUME Inv, [Next]_vars
    PROVE  TerminalRunClosed' /\ NothingUnobserved'
           /\ (status' = "Completed" => DerivedSettlement' = "Settled")
<1> DEFINE Goal == TerminalRunClosed' /\ NothingUnobserved'
                   /\ (status' = "Completed" => DerivedSettlement' = "Settled")
<1>0. Parts /\ settlement = IndexSettlement /\ Parts' /\ settlement' = IndexSettlement'
  BY InvParts, PartsStep
<1>1. settlement = DerivedSettlement /\ settlement' = DerivedSettlement'
  <2>1. settlement = DerivedSettlement
    BY DEF Inv, SettlementExact
  <2>2. (ClassPart => IndexSettlement = DerivedSettlement)'
    BY SettlementAgrees, PTL
  <2> QED BY <1>0, <2>1, <2>2 DEF Parts
<1>2. ((\A e \in Proposed : eff[e].outcome # "Unobserved") => DerivedSettlement # "Pending")'
  BY NotPending, PTL
<1>3. CASE status \notin {None, "Active"}
  <2>1. Frozen /\ (UNCHANGED <<eff, obl, settlement>> \/ \E e \in Effects : \E f : EffectMove(e, f))
    BY <1>3, TerminalSteps
  <2>2. TerminalRunClosed /\ NothingUnobserved /\ status \in RunStatus \ {"Active"}
    BY <1>3 DEF Inv, TypeOK
  <2>3. CASE UNCHANGED <<eff, obl, settlement>>
    <3>1. UNCHANGED <<status, scope, att, epoch, eff, settlement>> /\ Proposed' = Proposed
      BY <2>1, <2>3 DEF Frozen, Proposed
    <3>2. status' = "Completed" => DerivedSettlement' = "Settled"
      BY <1>1, <3>1 DEF Inv, SettlementExact
    <3>3. TerminalRunClosed' /\ NothingUnobserved'
      BY <2>2, <3>1 DEF TerminalRunClosed, NothingUnobserved
    <3> QED BY <3>2, <3>3
  <2>4. ASSUME NEW e \in Effects, NEW f, EffectMove(e, f) PROVE Goal
    <3>1. status \in {"Failed", "Cancelled"} /\ eff[e].phase = "DispatchStarted"
          /\ f.outcome # "Unobserved" /\ f.phase = "DispatchStarted"
      BY <1>3, <2>2, <2>4 DEF EffectMove
    <3>2. eff' = [eff EXCEPT ![e] = f] /\ Moves({e})
      BY <1>0, <2>4, EffectMoveMoves DEF Parts
    <3>3. Proposed' = Proposed
      BY <3>2, MovesProposed
    <3>4. \A x \in Proposed : /\ eff'[x].outcome # "Unobserved"
                              /\ eff'[x].phase \in {"DispatchStarted", "CancelledBeforeRelease"}
      BY <1>0, <2>2, <3>1, <3>2 DEF TerminalRunClosed, NothingUnobserved, Proposed, Parts, EffectPart
    <3>5. settlement' # "Pending" /\ NothingUnobserved'
      BY <1>1, <1>2, <3>3, <3>4 DEF NothingUnobserved
    <3>6. UNCHANGED <<status, scope, att, epoch>>
      BY <2>1 DEF Frozen
    <3>7. TerminalRunClosed'
      BY <2>2, <3>3, <3>4, <3>5, <3>6 DEF TerminalRunClosed
    <3> QED BY <3>1, <3>5, <3>6, <3>7
  <2> QED BY <2>1, <2>3, <2>4
<1>4. CASE status \in {None, "Active"}
  <2>1. CASE status' = status
    BY <1>4, <2>1 DEF TerminalRunClosed, NothingUnobserved, RunStatus, None
  <2>2. ASSUME NEW p \in Plans, NEW b \in Bindings, NEW a \in Attempts, StartRun(p, b, a)
        PROVE  Goal
    BY <2>2 DEF StartRun, TerminalRunClosed, NothingUnobserved
  <2>3. CASE CompleteRun
    <3>1. /\ status' = "Completed" /\ active = None /\ open = {}
          /\ IndexSettlement = "Settled" /\ UNCHANGED <<scope, att, eff, settlement>>
      BY <2>3 DEF CompleteRun
    <3>2. /\ \A a \in Attempts : ~att'[a].active
          /\ \A s \in AllScopes : scope'[s] # "Open"
      BY <1>0, <3>1, IdentityAssumption DEF Parts, AttemptPart, ScopePart
    <3>3. settlement' = "Settled" /\ DerivedSettlement = "Settled"
      BY <1>0, <1>1, <3>1
    <3>4. \A e \in Proposed : eff[e].outcome # "Unobserved"
      <4>1. \A e \in Proposed : ~(/\ eff[e].phase # "CancelledBeforeRelease"
                                  /\ eff[e].outcome = "Unobserved")
        BY <3>3 DEF DerivedSettlement
      <4>2. \A e \in Proposed : eff[e].phase = "CancelledBeforeRelease" => eff[e].outcome = "NotApplied"
        BY DEF Inv, EffectStateLegal, LegalEffect
      <4> QED BY <4>1, <4>2
    <3>5. NothingUnobserved'
      BY <3>1, <3>4 DEF NothingUnobserved, Proposed
    <3> QED BY <1>1, <3>1, <3>2, <3>3, <3>5 DEF TerminalRunClosed
  <2>4. ASSUME NEW r \in {"Failed", "Cancelled"}, Terminate(r) PROVE Goal
    <3>1. /\ Moves(terminal)
          /\ \A e \in Proposed : /\ eff'[e].phase \in {"DispatchStarted", "CancelledBeforeRelease"}
                                 /\ eff'[e].outcome # "Unobserved"
      BY <1>0, <2>4, TerminateMoves DEF Parts, ScopePart
    <3>2. Proposed' = Proposed
      BY <3>1, MovesProposed
    <3>3. NothingUnobserved' /\ settlement' # "Pending"
      BY <1>1, <1>2, <3>1, <3>2 DEF NothingUnobserved
    <3>4. /\ status' = r /\ att' = Deactivated /\ epoch' = epoch + 1
          /\ scope' = [s \in AllScopes |-> IF s \in open THEN "ClosedAborted" ELSE scope[s]]
      BY <2>4 DEF Terminate
    <3>5. \A a \in Attempts : ~att'[a].active /\ att'[a].epoch < epoch'
      <4>1. \A a \in Attempts : ~att'[a].active /\ att'[a].epoch = att[a].epoch
        BY <1>0, <3>4, DeactivatedFacts DEF Parts
      <4>2. \A a \in Attempts : att[a].epoch \in Nat /\ att[a].epoch <= epoch
        BY <1>0, BoundAssumption DEF Parts, AttemptPart, AttemptRecord
      <4>3. epoch \in Nat
        BY BoundAssumption DEF Inv, TypeOK
      <4> QED BY <3>4, <4>1, <4>2, <4>3
    <3>6. \A s \in AllScopes : scope'[s] # "Open"
      BY <1>0, <3>4 DEF Parts, ScopePart
    <3>7. TerminalRunClosed'
      BY <3>1, <3>2, <3>3, <3>5, <3>6 DEF TerminalRunClosed
    <3> QED BY <3>3, <3>4, <3>7
  <2> QED BY <2>1, <2>2, <2>3, <2>4, StatusSteps
<1> QED BY <1>3, <1>4

LEMMA InvStep == Inv /\ [Next]_vars => Inv'
<1> SUFFICES ASSUME Inv, [Next]_vars PROVE Inv'
  OBVIOUS
<1>1. Parts' /\ settlement' = IndexSettlement'
  BY PartsStep
<1>2. TypeOK' /\ Fresh'
  BY TypeStep, FreshStep
<1>3. (/\ RebuiltActive = IF active = None THEN {} ELSE {active}
       /\ OneAttemptAtCurrentEpoch)'
  <2>1. (TypeOK => (AttemptPart =>
            /\ RebuiltActive = IF active = None THEN {} ELSE {active}
            /\ OneAttemptAtCurrentEpoch))'
    BY AttemptPartMeaning, PTL
  <2> QED BY <1>1, <1>2, <2>1 DEF Parts
<1>4. (/\ open = {s \in AllScopes : scope[s] = "Open"}
       /\ descendants = RebuiltDescendants
       /\ OpenScopesNest)'
  <2>1. (TypeOK => (ScopePart =>
            /\ open = {s \in AllScopes : scope[s] = "Open"}
            /\ descendants = RebuiltDescendants
            /\ OpenScopesNest))'
    BY ScopePartMeaning, PTL
  <2> QED BY <1>1, <1>2, <2>1 DEF Parts
<1>5. (ObligationsExact /\ unresolved = {e \in Effects : obl[e] = "Unresolved"})'
  <2>1. (TypeOK => (ObligationPart =>
            ObligationsExact /\ unresolved = {e \in Effects : obl[e] = "Unresolved"}))'
    BY ObligationPartMeaning, PTL
  <2> QED BY <1>1, <1>2, <2>1 DEF Parts
<1>6. (count = RebuiltCount /\ committed = RebuiltCommitted)'
  <2>1. (TypeOK => (CountPart => count = RebuiltCount /\ committed = RebuiltCommitted))'
    BY CountPartMeaning, PTL
  <2> QED BY <1>1, <1>2, <2>1 DEF Parts
<1>7. DerivedIndexExact'
  BY <1>1, <1>3, <1>4, <1>5, <1>6 DEF DerivedIndexExact, Parts, ClassPart, EntryPart
<1>8. EffectStateLegal' /\ EffectScopeLegal'
  BY <1>1 DEF Parts, EffectPart
<1>9. settlement' = DerivedSettlement'
  <2>1. (ClassPart => IndexSettlement = DerivedSettlement)'
    BY SettlementAgrees, PTL
  <2> QED BY <1>1, <2>1 DEF Parts
<1>10. SettlementExact' /\ TerminalRunClosed' /\ NothingUnobserved'
  BY <1>9, TerminalStep DEF SettlementExact
<1> QED BY <1>2, <1>3, <1>4, <1>5, <1>7, <1>8, <1>10 DEF Inv

-----------------------------------------------------------------------------
(* Theorems about every reachable state.                                   *)

(* The inductive invariant holds in every state of every Run.              *)
THEOREM Invariance == Spec => []Inv
BY InitInv, InvStep, PTL DEF Spec

(* Every field of the projection and of its index keeps its type; in       *)
(* particular no event pushes an epoch or a fence out of range.            *)
THEOREM TypeCorrectness == Spec => []TypeOK
<1>1. Inv => TypeOK
  BY DEF Inv
<1> QED BY <1>1, Invariance, PTL

(* The index edited event by event never differs from the one a restore    *)
(* rebuilds, so verify_derived_indexes refuses no stored projection.       *)
THEOREM IndexIsExact == Spec => []DerivedIndexExact
<1>1. Inv => DerivedIndexExact
  BY DEF Inv
<1> QED BY <1>1, Invariance, PTL

(* The world settlement always follows from the Effects, and no Run        *)
(* completes while an Effect is unsettled.                                 *)
THEOREM SettlementIsExact == Spec => []SettlementExact
<1>1. Inv => SettlementExact
  BY DEF Inv
<1> QED BY <1>1, Invariance, PTL

(* Counting direct open children is enough: no open scope is ever left     *)
(* inside a closed one.                                                    *)
THEOREM ScopesNest == Spec => []OpenScopesNest
<1>1. Inv => OpenScopesNest
  BY DEF Inv
<1> QED BY <1>1, Invariance, PTL

(* Every Effect is in a state verify_effect_reducer_state accepts, and in  *)
(* one its owning scope allows: a mutation is released only after the      *)
(* scope committed, and an aborted scope leaves nothing to release.        *)
THEOREM EffectsAreLegal == Spec => [](EffectStateLegal /\ EffectScopeLegal)
<1>1. Inv => EffectStateLegal /\ EffectScopeLegal
  BY DEF Inv
<1> QED BY <1>1, Invariance, PTL

(* The obligations are exactly the mutating Effects of committed scopes,   *)
(* each resolved when its Effect is.                                       *)
THEOREM ObligationsAreExact == Spec => []ObligationsExact
<1>1. Inv => ObligationsExact
  BY DEF Inv
<1> QED BY <1>1, Invariance, PTL

(* What a restore recomputes, index, settlement and obligations, is what   *)
(* the events left.                                                        *)
THEOREM DerivedStateIsExact == Spec => []DerivedStateExact
<1>1. Inv => DerivedStateExact
  BY DEF Inv, DerivedStateExact
<1> QED BY <1>1, Invariance, PTL

(* A restore accepts every projection the events can build.                *)
THEOREM ProjectionIsLegal == Spec => []ProjectionLegal
<1>1. Inv => ProjectionLegal
  BY DEF Inv, ProjectionLegal
<1> QED BY <1>1, Invariance, PTL

(* At most one Attempt holds authority, and only at the current epoch.     *)
THEOREM SingleAuthority == Spec => []OneAttemptAtCurrentEpoch
<1>1. Inv => OneAttemptAtCurrentEpoch
  BY DEF Inv
<1> QED BY <1>1, Invariance, PTL

(* A terminal Run holds no authority and nothing that could be released.   *)
THEOREM TerminalIsClosed == Spec => []TerminalRunClosed
<1>1. Inv => TerminalRunClosed
  BY DEF Inv
<1> QED BY <1>1, Invariance, PTL

-----------------------------------------------------------------------------
(* Theorems about every step.                                              *)

LEMMA EffectsOnlyAdvance ==
    ASSUME Inv, [Next]_vars, NEW e \in Effects
    PROVE  /\ eff[e].phase = "DispatchStarted" => eff'[e].phase = "DispatchStarted"
           /\ eff[e].outcome \in Known => eff'[e].outcome = eff[e].outcome
<1> DEFINE Goal == /\ eff[e].phase = "DispatchStarted" => eff'[e].phase = "DispatchStarted"
                   /\ eff[e].outcome \in Known => eff'[e].outcome = eff[e].outcome
<1>0. Parts /\ Step
  BY InvParts, Steps
<1>1. /\ eff \in [Effects -> EffectRecord]
      /\ eff[e].phase # None => LegalEffect(e, eff[e])
      /\ eff[e].phase = None => eff[e].outcome = "Unobserved"
  BY <1>0 DEF Parts, EffectPart, EffectStateLegal, Proposed, NoEffect
<1>2. CASE UNCHANGED eff
  BY <1>2
<1>3. Quiet \/ CompleteRun => UNCHANGED eff
  BY DEF Quiet, CompleteRun
<1>4. \A p, b, a : StartRun(p, b, a) => UNCHANGED eff
  BY DEF StartRun
<1>5. \A s : OpenScope(s) \/ CommitScope(s) => UNCHANGED eff
  BY DEF OpenScope, CommitScope
<1>6. ASSUME NEW s \in AllScopes, AbortScope(s) PROVE Goal
  <2>1. Moves({x \in abortMoves : EffectScope[x] = s})
    BY <1>0, <1>6, AbortMoves DEF Parts, EntryPart, ScopePart
  <2>2. e \in abortMoves => eff[e].phase \in {"Admitted", "Prepared"}
    BY <1>0 DEF Parts, EntryPart, NeedsAbortTransition
  <2>3. eff[e].phase \in {"Admitted", "Prepared"} => eff[e].outcome = "Unobserved"
    BY <1>1 DEF LegalEffect, None
  <2>4. e \notin abortMoves => eff'[e] = eff[e]
    BY <2>1 DEF Moves
  <2> QED BY <2>2, <2>3, <2>4 DEF Known
<1>7. ASSUME NEW x \in Effects, NEW b \in Bindings, ProposeEffect(x, b) PROVE Goal
  <2>1. eff[x].phase = None /\ eff' = [eff EXCEPT ![x] = NewEffect(b)]
    BY <1>7 DEF ProposeEffect
  <2> QED BY <1>1, <2>1 DEF None, Known
<1>8. ASSUME NEW x \in Effects, NEW f, EffectMove(x, f) PROVE Goal
  <2>1. eff' = [eff EXCEPT ![x] = f]
    BY <1>0, <1>8, EffectMoveMoves DEF Parts
  <2> QED BY <1>1, <1>8, <2>1 DEF EffectMove
<1>9. ASSUME NEW r \in {"Failed", "Cancelled"}, Terminate(r) PROVE Goal
  <2>1. \A x \in Proposed : /\ eff[x].phase = "DispatchStarted" => eff'[x].phase = "DispatchStarted"
                            /\ eff[x].outcome \in Known => eff'[x].outcome = eff[x].outcome
    BY <1>0, <1>9, TerminateMoves DEF Parts, ScopePart
  <2> QED BY <1>1, <2>1 DEF Proposed, None, Known
<1> QED BY <1>0, <1>2, <1>3, <1>4, <1>5, <1>6, <1>7, <1>8, <1>9 DEF Step

(* No step takes a dispatched Effect back or changes a known outcome.      *)
THEOREM DispatchIsIrrevocable == Spec => DispatchIrrevocable
<1>1. Inv /\ [Next]_vars =>
        [\A e \in Effects :
           /\ eff[e].phase = "DispatchStarted" => eff'[e].phase = "DispatchStarted"
           /\ eff[e].outcome \in Known => eff'[e].outcome = eff[e].outcome]_vars
  BY EffectsOnlyAdvance
<1> QED BY <1>1, Invariance, PTL DEF Spec, DispatchIrrevocable

(* After the end of a Run only an Unknown outcome is still reconciled.     *)
THEOREM TerminalIsFrozen == Spec => TerminalRunFrozen
<1>1. ASSUME Inv, [Next]_vars, status \notin {None, "Active"}
      PROVE  /\ UNCHANGED <<status, epoch, plan, binding, scope, att>>
             /\ \A e \in Effects :
                   eff[e] # eff'[e] => status # "Completed" /\ eff[e].outcome = "Unknown"
  <2>1. Frozen /\ (UNCHANGED <<eff, obl, settlement>> \/ \E e \in Effects : \E f : EffectMove(e, f))
    BY <1>1, TerminalSteps
  <2>2. ASSUME NEW x \in Effects, NEW f, EffectMove(x, f), NEW e \in Effects, eff[e] # eff'[e]
        PROVE  status # "Completed" /\ eff[e].outcome = "Unknown"
    <3>1. eff' = [eff EXCEPT ![x] = f]
      BY <1>1, <2>2, InvParts, EffectMoveMoves DEF Parts
    <3>2. e = x
      BY <2>2, <3>1 DEF Inv, TypeOK
    <3> QED BY <1>1, <2>2, <3>2 DEF EffectMove
  <2> QED BY <2>1, <2>2 DEF Frozen
<1>2. Inv /\ [Next]_vars =>
        [(status \notin {None, "Active"}) =>
           /\ UNCHANGED <<status, epoch, plan, binding, scope, att>>
           /\ \A e \in Effects :
                 eff[e] # eff'[e] => status # "Completed" /\ eff[e].outcome = "Unknown"]_vars
  BY <1>1
<1> QED BY <1>2, Invariance, PTL DEF Spec, TerminalRunFrozen

(* An Attempt that lost its authority never changes again.                 *)
THEOREM AttemptsNeverRevive == Spec => AttemptNeverRevived
<1>1. ASSUME Inv, [Next]_vars, NEW a \in Attempts, att[a].fence # 0, ~att[a].active
      PROVE  att'[a] = att[a]
  <2>0. AttemptPart /\ a # active /\ status # None
    <3>1. AttemptPart
      BY <1>1, InvParts DEF Parts
    <3>2. status # None
      BY <1>1 DEF Inv, Fresh
    <3> QED BY <1>1, <3>1, <3>2 DEF AttemptPart
  <2>1. Deactivated[a] = att[a]
    BY <2>0 DEF Deactivated
  <2>2. CASE AttemptStep
    <3>1. ASSUME NEW c \in Attempts, NEW ep, NEW f, BeginAttempt(c, ep, f) PROVE att'[a] = att[a]
      BY <1>1, <2>0, <3>1 DEF BeginAttempt, AttemptPart
    <3>2. ASSUME NEW c \in Attempts, NEW ep, NEW f, YieldAttempt(c, ep, f) PROVE att'[a] = att[a]
      <4>1. att' = [att EXCEPT ![c].active = FALSE] /\ att[c].active
        BY <3>2 DEF YieldAttempt
      <4> QED BY <1>1, <2>0, <4>1 DEF AttemptPart
    <3>3. AdvanceEpoch => att'[a] = att[a]
      BY <2>1 DEF AdvanceEpoch
    <3> QED BY <2>2, <3>1, <3>2, <3>3 DEF AttemptStep
  <2>3. ASSUME EffectStep PROVE att' = att
    <3>1. \A e, f : TransitionEffect(e, f) => att' = att
      BY DEF TransitionEffect
    <3> QED BY <2>3, <3>1 DEF EffectStep, ProposeEffect, Prepare, AuthorizeRelease, StartDispatch,
               MarkUnavailable, Observe, Reconcile
  <2>4. ScopeStep => att' = att
    BY DEF ScopeStep, OpenScope, CommitScope, AbortScope
  <2>5. CASE RunStep
    BY <2>0, <2>1, <2>5 DEF RunStep, StartRun, MigrateRun, UpdateBinding, CompleteRun, FailRun,
       CancelRun, Terminate
  <2>6. UNCHANGED vars => att' = att
    BY DEF vars, projection
  <2> QED BY <1>1, <2>2, <2>3, <2>4, <2>5, <2>6 DEF Next
<1>2. Inv /\ [Next]_vars =>
        [\A a \in Attempts : att[a].fence # 0 /\ ~att[a].active => att'[a] = att[a]]_vars
  BY <1>1
<1> QED BY <1>2, Invariance, PTL DEF Spec, AttemptNeverRevived

LEMMA ClosedStaysClosed ==
    ASSUME Inv, [Next]_vars, NEW s \in AllScopes, scope[s] = "ClosedCommitted"
    PROVE  scope'[s] = "ClosedCommitted"
<1>0. Parts /\ Step
  BY InvParts, Steps
<1>1. Quiet \/ CompleteRun => UNCHANGED scope
  BY DEF Quiet, CompleteRun
<1>2. \A e, f, b : EffectMove(e, f) \/ ProposeEffect(e, b) => UNCHANGED scope
  BY DEF EffectMove, TransitionEffect, ProposeEffect
<1>3. ASSUME NEW p \in Plans, NEW b \in Bindings, NEW a \in Attempts, StartRun(p, b, a)
      PROVE  scope'[s] = "ClosedCommitted"
  BY <1>3 DEF Inv, Fresh, StartRun, None
<1>4. ASSUME NEW t \in AllScopes, scope[t] # "ClosedCommitted",
             NEW v, scope' = [scope EXCEPT ![t] = v]
      PROVE  scope'[s] = "ClosedCommitted"
  BY <1>0, <1>4 DEF Parts, ScopePart
<1>5. \A t \in Scopes : OpenScope(t) => scope[t] # "ClosedCommitted"
                                        /\ scope' = [scope EXCEPT ![t] = "Open"]
  BY DEF OpenScope, None
<1>6. \A t \in AllScopes : CommitScope(t) => scope[t] # "ClosedCommitted"
                                        /\ scope' = [scope EXCEPT ![t] = "ClosedCommitted"]
  BY DEF CommitScope, MayClose
<1>7. \A t \in AllScopes : AbortScope(t) => scope[t] # "ClosedCommitted"
                                        /\ scope' = [scope EXCEPT ![t] = "ClosedAborted"]
  BY DEF AbortScope, MayClose
<1>8. \A r : Terminate(r) => scope'[s] = "ClosedCommitted"
  BY <1>0 DEF Terminate, Parts, ScopePart
<1> QED BY <1>0, <1>1, <1>2, <1>3, <1>4, <1>5, <1>6, <1>7, <1>8 DEF Step, AllScopes

(* A resolved obligation stays resolved.                                   *)
THEOREM ObligationsNeverReopen == Spec => ObligationNeverReopens
<1>1. ASSUME Inv, [Next]_vars, NEW e \in Effects, obl[e] = "Resolved" PROVE obl'[e] = "Resolved"
  <2>0. Parts /\ Parts'
    BY <1>1, InvParts, PartsStep
  <2>1. Owed(e) /\ ObligationResolved(eff[e])
    BY <1>1, <2>0 DEF Parts, ObligationPart, None
  <2>2. eff[e].outcome \in Known
    <3>1. LegalEffect(e, eff[e])
      BY <2>0, <2>1 DEF Parts, EffectPart, EffectStateLegal, Owed
    <3> QED BY <2>1, <3>1 DEF ObligationResolved, LegalEffect, Known
  <2>3. eff'[e].outcome \in Known /\ ObligationResolved(eff'[e])
    BY <1>1, <2>2, EffectsOnlyAdvance DEF ObligationResolved
  <2>4. eff'[e].phase # None
    BY <2>0, <2>3 DEF Parts, EffectPart, NoEffect, Known
  <2>5. scope'[EffectScope[e]] = "ClosedCommitted"
    BY <1>1, <2>1, ClosedStaysClosed, EffectAssumption DEF Owed
  <2>6. Owed(e)'
    BY <2>1, <2>4, <2>5 DEF Owed, Proposed, Mutating
  <2> QED BY <2>0, <2>3, <2>6 DEF Parts, ObligationPart
<1>2. Inv /\ [Next]_vars => [\A e \in Effects : obl[e] = "Resolved" => obl'[e] = "Resolved"]_vars
  BY <1>1
<1> QED BY <1>2, Invariance, PTL DEF Spec, ObligationNeverReopens
=============================================================================
