---------------------------- MODULE Evolution ----------------------------
(***************************************************************************)
(* Live evolution: the registry of reusable definitions, the templates     *)
(* linked against it, and the rollout of the linked Plans of a template.   *)
(*                                                                         *)
(* One action is one accepted command of the reducer in                    *)
(* evolution/persistence.rs, with the single compare-and-commit that       *)
(* publishes it (coordinator.rs, commit_evolution): a command is prepared  *)
(* from one pinned root and lost if the head moves, so it is one step. A   *)
(* refused command, and one repeated under a command or record identity    *)
(* that is retained, changes nothing and is not a step. The scalar         *)
(* revision counts commands and is left out.                               *)
(*                                                                         *)
(* What a leaf family is an index of is a map of its own here: heads and   *)
(* compatibility heads beside the recorded revisions, dependents beside    *)
(* the templates, the evidence accumulator beside the evidence records.    *)
(* Aliases that are always written with the record they name (evidence     *)
(* kind, shadow subject, observed occurrence, selection) are read off it.  *)
(***************************************************************************)
EXTENDS Naturals, FiniteSets

CONSTANTS
    Revisions,      \* immutable revisions of reusable definitions
    RefOf,          \* the logical reference of a revision
    Contract,       \* its input and output schemas
    Pins,           \* the revisions a revision depends on, all pinned
    Templates,
    Follows,        \* the logical reference of a template
    Wants,          \* the contract its call sites expect
    PinnedTo,       \* the revision a Pinned reference names, or None
    PlanOf,         \* PlanOf[t][r]: the Plan of template t linked against r
    Patches,        \* Plans only a reviewed patch can introduce
    Surface,        \* what is reachable in a Plan, contracts included
    Effects,        \* Effects[p]: the Effects of Plan p, with their sites and profiles
    Requires,       \* Requires[p][c]: what p requires of each component c it can reach
    Names,          \* decision identities that clients choose
    PublishModes,   \* the rollout modes a publication may ask for
    Modes,          \* the modes a client may set
    Gates,          \* the gates a client may apply
    Occurrences, Selections,
    EvidenceIds, Subjects,
    Runs, Migrations,
    First,          \* First[q]: the Plan Run q is started with
    Driven,         \* bound: templates whose rollout clients drive; the others follow
    MaxDecisions,   \* bound: decisions recorded for one template
    MaxEpoch        \* bound: epochs of a Run

Refs      == {RefOf[r] : r \in Revisions}
Contracts == {Contract[r] : r \in Revisions}
Links     == UNION {{PlanOf[t][r] : r \in Revisions} : t \in Templates}
Plans     == Links \cup Patches

None == [kind |-> "None"]   \* no revision, no record

ASSUME ConstantsAssumption ==
    /\ RefOf \in [Revisions -> Refs] /\ Contract \in [Revisions -> Contracts]
    /\ Pins \in [Revisions -> SUBSET Revisions]
    /\ Follows \in [Templates -> Refs] /\ Wants \in [Templates -> Contracts]
    /\ PinnedTo \in [Templates -> Revisions \cup {None}] /\ First \in [Runs -> Plans]
    /\ IsFiniteSet(Revisions) /\ IsFiniteSet(EvidenceIds)
    /\ None \notin Revisions /\ Driven \subseteq Templates
    /\ MaxDecisions \in Nat \ {0} /\ MaxEpoch \in Nat

VARIABLES
    sequence,       \* [Revisions -> Nat]: publication order, 0 if never published
    head,           \* [Refs -> revision]: the latest publication
    compatible,     \* [Refs -> [Contracts -> revision]]: the latest of a contract
    dependents,     \* [Refs -> SUBSET Templates]: who is relinked by a publication
    linked,         \* [Templates -> revision]: the current link, None before registration
    plans,          \* [Templates -> SUBSET Plans]: the retained Plans
    edges,          \* [Templates -> SUBSET (Plans \X Plans)]
    decisions,      \* [Templates -> [identity -> decision]]: every decision ever made
    current,        \* [Templates -> identity]: the decision selections follow
    evidence,       \* [Templates -> [identity -> counts]]: the accumulators
    transition,     \* [Templates -> [identity -> identity and evaluation]]
    pin,            \* [Templates -> [Occurrences -> pin]]
    run,            \* [Runs -> Plan and epoch]: the Runs of the Machine
    record,         \* [Templates -> [EvidenceIds -> observation or shadow comparison]]
    migration       \* [Templates -> [Migrations -> receipt]]

registry == <<sequence, head, compatible, dependents>>
rollout  == <<decisions, current, evidence, transition>>
vars == <<registry, linked, plans, edges, rollout, pin, run, record, migration>>

--------------------------------------------------------------------------
(* Shapes. *)

NoEvidence == [observations |-> 0, failures |-> 0, equivalent |-> 0, inequivalent |-> 0]

\* The decision a template starts with, and the identity of a generated one.
InitialId(plan)                       == <<plan>>
UpdateId(source, fallback, target, m) == <<source, fallback, target, m>>

Put(f, k, v) == [x \in DOMAIN f \cup {k} |-> IF x = k THEN v ELSE f[x]]

\* The Plan that is served where the rollout is undecided.
AuthoritativeFallback(d) == IF d.mode = "Active" THEN d.target ELSE d.fallback

\* The Plans a selection may get: a canary samples a digest of its identity.
SelectedPlans(d) ==
    CASE d.mode = "Active" -> {d.target}
      [] d.mode = "Canary" -> {d.fallback, d.target}
      [] OTHER             -> {d.fallback}

\* Plan q may replace p as the default of future work.
Compatible(p, q) == p = q \/ Surface[q] \subseteq Surface[p]

\* Every component of q has the requirements it had in p, or none if it is
\* new. Steps add up to more than this allows at once: a component may come
\* without requirements and then get some, or leave and return without.
ComponentsKept(p, q) ==
    \A c \in DOMAIN Requires[q] :
        IF c \in DOMAIN Requires[p] THEN Requires[p][c] \subseteq Requires[q][c]
        ELSE Requires[q][c] = {}

\* A migration from p to q adds no Effect, loosens none, and keeps what is
\* required of components.
NoWidening(p, q) == Effects[q] \subseteq Effects[p] /\ ComponentsKept(p, q)

\* What an observation of the target, or a comparison with it, adds.
Observed(ev, failed) ==
    [ev EXCEPT !.observations = @ + 1, !.failures = IF failed THEN @ + 1 ELSE @]

Compared(ev, equivalent) ==
    IF equivalent THEN [ev EXCEPT !.equivalent = @ + 1] ELSE [ev EXCEPT !.inequivalent = @ + 1]

Init ==
    /\ sequence   = [r \in Revisions |-> 0]
    /\ head       = [l \in Refs |-> None]
    /\ compatible = [l \in Refs |-> [c \in Contracts |-> None]]
    /\ dependents = [l \in Refs |-> {}]
    /\ linked     = [t \in Templates |-> None]
    /\ plans      = [t \in Templates |-> {}]
    /\ edges      = [t \in Templates |-> {}]
    /\ decisions  = [t \in Templates |-> <<>>]
    /\ current    = [t \in Templates |-> None]
    /\ evidence   = [t \in Templates |-> <<>>]
    /\ transition = [t \in Templates |-> <<>>]
    /\ pin        = [t \in Templates |-> [o \in Occurrences |-> None]]
    /\ run        = [q \in Runs |-> [plan |-> First[q], epoch |-> 1]]
    /\ record     = [t \in Templates |-> [e \in EvidenceIds |-> None]]
    /\ migration  = [t \in Templates |-> [m \in Migrations |-> None]]

--------------------------------------------------------------------------
(* Definitions and links. *)

MaxSequence(l) == Cardinality({r \in Revisions : RefOf[r] = l /\ sequence[r] > 0})

FaultyMoveHeads(r) ==   \* historical content leaves its compatibility head
    LET l == RefOf[r] IN
    /\ \A q \in Pins[r] : sequence[q] > 0
    /\ head' = [head EXCEPT ![l] = r]
    /\ compatible' = IF sequence[r] > 0 THEN compatible
                     ELSE [compatible EXCEPT ![l][Contract[r]] = r]
    /\ sequence' = [sequence EXCEPT ![r] = IF @ = 0 THEN MaxSequence(l) + 1 ELSE @]

\* New content gets the next sequence of its reference; historical content
\* keeps its own and only moves the heads.
MoveHeads(r) ==
    LET l == RefOf[r] IN
    /\ \A q \in Pins[r] : sequence[q] > 0
    /\ head' = [head EXCEPT ![l] = r]
    /\ compatible' = [compatible EXCEPT ![l][Contract[r]] = r]
    /\ sequence' = [sequence EXCEPT ![r] = IF @ = 0 THEN MaxSequence(l) + 1 ELSE @]

PublishDefinition(r) ==
    /\ dependents[RefOf[r]] = {}
    /\ MoveHeads(r)
    /\ UNCHANGED <<dependents, linked, plans, edges, rollout, pin, run, record, migration>>

\* The revision a template's reference resolves to.
Resolve(t) ==
    IF PinnedTo[t] # None
    THEN IF sequence[PinnedTo[t]] > 0 /\ Contract[PinnedTo[t]] = Wants[t] THEN PinnedTo[t] ELSE None
    ELSE compatible[Follows[t]][Wants[t]]

\* A reference that is not pinned makes the template a dependent.
WithDependent(t) ==
    IF PinnedTo[t] # None THEN dependents
    ELSE [dependents EXCEPT ![Follows[t]] = @ \cup {t}]

RegisterTemplate(t) ==
    LET r  == Resolve(t)
        p  == PlanOf[t][r]
        id == InitialId(p)
    IN  /\ linked[t] = None /\ r # None
        /\ linked' = [linked EXCEPT ![t] = r]
        /\ plans'  = [plans EXCEPT ![t] = {p}]
        /\ decisions' = [decisions EXCEPT ![t] =
               Put(@, id, [fallback |-> p, target |-> p, mode |-> "Active"])]
        /\ evidence' = [evidence EXCEPT ![t] = Put(@, id, NoEvidence)]
        /\ current'  = [current EXCEPT ![t] = id]
        /\ dependents' = WithDependent(t)
        /\ UNCHANGED <<sequence, head, compatible, edges, transition, pin, run, record, migration>>

\* A dependent takes the publication when it expects its contract and the
\* Plan it makes widens nothing; otherwise it keeps its link.
Admitted(r, t) ==
    /\ t \in dependents[RefOf[r]] /\ Contract[r] = Wants[t]
    /\ Compatible(PlanOf[t][linked[t]], PlanOf[t][r])

Advanced(r, t) == Admitted(r, t) /\ PlanOf[t][r] # PlanOf[t][linked[t]]

\* The decision a relink generates for an advanced template.
Relinked(r, t, m) ==
    [fallback |-> AuthoritativeFallback(decisions[t][current[t]]),
     target |-> PlanOf[t][r], mode |-> m]

RelinkedId(r, t, m) ==
    UpdateId(current[t], Relinked(r, t, m).fallback, PlanOf[t][r], m)

FaultyRelinkEdge(r, t) == <<PlanOf[t][r], PlanOf[t][linked[t]]>>   \* the wrong way

\* The edge it retains, if it is new.
RelinkEdge(r, t) == <<PlanOf[t][linked[t]], PlanOf[t][r]>>

\* Publication and the relink of every dependent, all or nothing.
PublishAndRelink(r, m) ==
    /\ \A t \in Templates : Advanced(r, t) =>
           /\ RelinkedId(r, t, m) \notin DOMAIN decisions[t]
           /\ Cardinality(DOMAIN decisions[t]) < MaxDecisions
    /\ MoveHeads(r)
    /\ linked' = [t \in Templates |-> IF Admitted(r, t) THEN r ELSE linked[t]]
    /\ plans' = [t \in Templates |->
           IF Advanced(r, t) THEN plans[t] \cup {PlanOf[t][r]} ELSE plans[t]]
    /\ edges' = [t \in Templates |->
           IF Advanced(r, t) THEN edges[t] \cup {RelinkEdge(r, t)} ELSE edges[t]]
    /\ decisions' = [t \in Templates |->
           IF Advanced(r, t) THEN Put(decisions[t], RelinkedId(r, t, m), Relinked(r, t, m))
           ELSE decisions[t]]
    /\ evidence' = [t \in Templates |->
           IF Advanced(r, t) THEN Put(evidence[t], RelinkedId(r, t, m), NoEvidence)
           ELSE evidence[t]]
    /\ current' = [t \in Templates |->
           IF Advanced(r, t) THEN RelinkedId(r, t, m) ELSE current[t]]
    /\ UNCHANGED <<dependents, transition, pin, run, record, migration>>

\* A reviewed patch introduces a new Plan and the edge to it.
ApplyPatch(t, from, to) ==
    /\ linked[t] # None /\ from \in plans[t] /\ to \notin plans[t]
    /\ plans' = [plans EXCEPT ![t] = @ \cup {to}]
    /\ edges' = [edges EXCEPT ![t] = @ \cup {<<from, to>>}]
    /\ UNCHANGED <<registry, linked, rollout, pin, run, record, migration>>

--------------------------------------------------------------------------
(* Rollout. *)

\* A decision is about retained Plans.
ValidDecision(t, d) == {d.fallback, d.target} \subseteq plans[t]

FaultySetRollout(t, id, d) ==   \* an ended decision may be set again
    /\ linked[t] # None
    /\ ValidDecision(t, d)
    /\ IF id \in DOMAIN decisions[t]
       THEN d = decisions[t][id] /\ UNCHANGED <<decisions, evidence>>
       ELSE /\ Cardinality(DOMAIN decisions[t]) < MaxDecisions
            /\ decisions' = [decisions EXCEPT ![t] = Put(@, id, d)]
            /\ evidence'  = [evidence EXCEPT ![t] = Put(@, id, NoEvidence)]
    /\ current' = [current EXCEPT ![t] = id]
    /\ UNCHANGED <<registry, linked, plans, edges, transition, pin, run, record, migration>>

\* A client makes a decision of its own, or one that is retained, current.
SetRollout(t, id, d) ==
    /\ linked[t] # None
    /\ ValidDecision(t, d)
    /\ id \notin DOMAIN transition[t]
    /\ IF id \in DOMAIN decisions[t]
       THEN d = decisions[t][id] /\ UNCHANGED <<decisions, evidence>>
       ELSE /\ Cardinality(DOMAIN decisions[t]) < MaxDecisions
            /\ decisions' = [decisions EXCEPT ![t] = Put(@, id, d)]
            /\ evidence'  = [evidence EXCEPT ![t] = Put(@, id, NoEvidence)]
    /\ current' = [current EXCEPT ![t] = id]
    /\ UNCHANGED <<registry, linked, plans, edges, transition, pin, run, record, migration>>

\* An occurrence is pinned once, and a selection pins one occurrence.
Unselected(t, o, s) ==
    /\ pin[t][o] = None
    /\ \A q \in Occurrences : pin[t][q] # None => pin[t][q].selection # s

\* It gets a Plan of the decision that is current then.
SelectOccurrence(t, o, s) ==
    /\ linked[t] # None /\ Unselected(t, o, s)
    /\ \E p \in SelectedPlans(decisions[t][current[t]]) \cap plans[t] :
           pin' = [pin EXCEPT ![t][o] = [decision |-> current[t], plan |-> p, selection |-> s]]
    /\ UNCHANGED <<registry, linked, plans, edges, rollout, run, record, migration>>

FaultyMigratable(t, from, to) ==   \* what the target may do is not compared
    {from, to} \subseteq plans[t] /\ <<from, to>> \in edges[t]

\* Along a retained edge that widens nothing.
Migratable(t, from, to) ==
    {from, to} \subseteq plans[t] /\ <<from, to>> \in edges[t] /\ NoWidening(from, to)

\* A quiescent Run moves to another Plan, by whichever template retains an
\* edge from its Plan; receipt, Machine command and Continuation are one
\* commit.
Migrate(t, m, q, to) ==
    /\ migration[t][m] = None
    /\ Migratable(t, run[q].plan, to)
    /\ run[q].epoch < MaxEpoch
    /\ run' = [run EXCEPT ![q].plan = to, ![q].epoch = @ + 1]
    /\ migration' = [migration EXCEPT ![t][m] =
           [run |-> q, from |-> run[q].plan, to |-> to]]
    /\ UNCHANGED <<registry, linked, plans, edges, rollout, pin, record>>

\* A comparison counts for the decision it names, current or not.
Shadow(t, e, id, subject, equivalent) ==
    /\ id \in DOMAIN decisions[t] /\ record[t][e] = None
    /\ \A q \in EvidenceIds : record[t][q] # None =>
           ~(record[t][q].kind = "Shadow" /\ record[t][q].decision = id
             /\ record[t][q].subject = subject)
    /\ record' = [record EXCEPT ![t][e] = [kind |-> "Shadow", decision |-> id,
                     subject |-> subject, equivalent |-> equivalent]]
    /\ evidence' = [evidence EXCEPT ![t][id] = Compared(@, equivalent)]
    /\ UNCHANGED <<registry, linked, plans, edges, decisions, current, transition, pin, run,
                   migration>>

FaultyObserve(t, e, o, failed) ==   \* counts for the current decision
    /\ record[t][e] = None /\ pin[t][o] # None
    /\ \A q \in EvidenceIds : record[t][q] # None =>
           ~(record[t][q].kind = "Observation" /\ record[t][q].occurrence = o)
    /\ LET id == current[t] IN
       /\ record' = [record EXCEPT ![t][e] = [kind |-> "Observation",
                        decision |-> pin[t][o].decision, occurrence |-> o,
                        plan |-> pin[t][o].plan, failed |-> failed]]
       /\ evidence' = IF pin[t][o].plan # decisions[t][id].target THEN evidence
                      ELSE [evidence EXCEPT ![t][id] = Observed(@, failed)]
    /\ UNCHANGED <<registry, linked, plans, edges, decisions, current, transition, pin, run,
                   migration>>

\* An occurrence is observed once and counts, when it ran the target, for
\* the decision that pinned it.
Observe(t, e, o, failed) ==
    /\ record[t][e] = None /\ pin[t][o] # None
    /\ \A q \in EvidenceIds : record[t][q] # None =>
           ~(record[t][q].kind = "Observation" /\ record[t][q].occurrence = o)
    /\ LET id == pin[t][o].decision IN
       /\ record' = [record EXCEPT ![t][e] = [kind |-> "Observation", decision |-> id,
                        occurrence |-> o, plan |-> pin[t][o].plan, failed |-> failed]]
       /\ evidence' = IF pin[t][o].plan # decisions[t][id].target THEN evidence
                      ELSE [evidence EXCEPT ![t][id] = Observed(@, failed)]
    /\ UNCHANGED <<registry, linked, plans, edges, decisions, current, transition, pin, run,
                   migration>>

\* What a gate makes of the evidence.
Outcome(g, ev) ==
    IF ev.failures > g.maxFailures \/ ev.inequivalent > g.maxInequivalent THEN "RolledBack"
    ELSE IF ev.observations >= g.minObservations /\ ev.equivalent >= g.minEquivalent THEN "Active"
    ELSE "Pending"

\* A gate ends the current decision and puts its successor in its place.
ApplyGate(t, g, next) ==
    LET id == current[t]
        d  == decisions[t][id]
        outcome == Outcome(g, evidence[t][id])
    IN  /\ linked[t] # None
        /\ id \notin DOMAIN transition[t]
        /\ outcome # "Pending"
        /\ next \notin DOMAIN decisions[t]
        /\ Cardinality(DOMAIN decisions[t]) < MaxDecisions
        /\ transition' = [transition EXCEPT ![t] =
               Put(@, id, [to |-> next, gate |-> g, seen |-> evidence[t][id]])]
        /\ decisions' = [decisions EXCEPT ![t] = Put(@, next, [d EXCEPT !.mode = outcome])]
        /\ evidence'  = [evidence EXCEPT ![t] = Put(@, next, NoEvidence)]
        /\ current'   = [current EXCEPT ![t] = next]
        /\ UNCHANGED <<registry, linked, plans, edges, pin, run, record, migration>>

ClientRollout(t) ==
    \/ \E id \in DOMAIN decisions[t] : SetRollout(t, id, decisions[t][id])
    \/ \E id \in Names \ DOMAIN decisions[t], p, q \in plans[t], m \in Modes :
           SetRollout(t, id, [fallback |-> p, target |-> q, mode |-> m])

ClientStep(t) ==
    \/ \E p \in plans[t], q \in Patches : ApplyPatch(t, p, q)
    \/ ClientRollout(t)
    \/ \E o \in Occurrences, s \in Selections : SelectOccurrence(t, o, s)
    \/ \E m \in Migrations, q \in Runs, p \in plans[t] : Migrate(t, m, q, p)
    \/ \E e \in EvidenceIds, id \in DOMAIN decisions[t], s \in Subjects, b \in BOOLEAN :
           Shadow(t, e, id, s, b)
    \/ \E e \in EvidenceIds, o \in Occurrences, b \in BOOLEAN : Observe(t, e, o, b)
    \/ \E g \in Gates, n \in Names : ApplyGate(t, g, n)

Next ==
    \/ \E r \in Revisions : PublishDefinition(r)
    \/ \E r \in Revisions, m \in PublishModes : PublishAndRelink(r, m)
    \/ \E t \in Templates : RegisterTemplate(t)
    \/ \E t \in Driven : ClientStep(t)

Spec == Init /\ [][Next]_vars

--------------------------------------------------------------------------
(* Properties. *)

Registered == {t \in Templates : linked[t] # None}

TypeOK ==
    /\ sequence \in [Revisions -> Nat]
    /\ head \in [Refs -> Revisions \cup {None}]
    /\ compatible \in [Refs -> [Contracts -> Revisions \cup {None}]]
    /\ dependents \in [Refs -> SUBSET Templates]
    /\ linked \in [Templates -> Revisions \cup {None}]
    /\ \A t \in Templates :
           /\ plans[t] \subseteq Plans /\ edges[t] \subseteq plans[t] \X plans[t]
           /\ t \in Registered <=> current[t] \in DOMAIN decisions[t]
           /\ DOMAIN evidence[t] = DOMAIN decisions[t]
           /\ DOMAIN transition[t] \subseteq DOMAIN decisions[t]
           /\ Cardinality(DOMAIN decisions[t]) <= MaxDecisions

\* From the records alone: what the accumulator of a decision must hold.
Retained(t, id, kind) ==
    {e \in EvidenceIds : /\ record[t][e] # None /\ record[t][e].decision = id
                         /\ record[t][e].kind = kind}

TargetRuns(t, id) ==
    {e \in Retained(t, id, "Observation") : record[t][e].plan = decisions[t][id].target}

Recount(t, id) ==
    [observations |-> Cardinality(TargetRuns(t, id)),
     failures     |-> Cardinality({e \in TargetRuns(t, id) : record[t][e].failed}),
     equivalent   |-> Cardinality({e \in Retained(t, id, "Shadow") : record[t][e].equivalent}),
     inequivalent |-> Cardinality({e \in Retained(t, id, "Shadow") : ~record[t][e].equivalent})]

\* The counts a gate decides by are those of the retained records, for every
\* decision: evidence that arrives after its decision was superseded, set
\* aside and made current again, or ended, counts for that decision and for
\* no other (advance_observation_rollout, advance_shadow_rollout).
EvidenceExact ==
    \A t \in Templates : \A id \in DOMAIN decisions[t] : evidence[t][id] = Recount(t, id)

\* Heads, reverse dependencies and links agree however publications, of new
\* and of historical content, and registrations are ordered: the latest
\* publication is the compatible head of its contract, exactly the
\* templates that follow a reference are relinked by it, and a link that is
\* not the compatible head is one the head would widen.
LinksFollowHeads ==
    /\ \A l \in Refs : head[l] # None => compatible[l][Contract[head[l]]] = head[l]
    /\ \A l \in Refs, c \in Contracts : compatible[l][c] # None =>
           /\ RefOf[compatible[l][c]] = l /\ Contract[compatible[l][c]] = c
           /\ sequence[compatible[l][c]] > 0
    /\ \A l \in Refs :
           dependents[l] = {t \in Registered : Follows[t] = l /\ PinnedTo[t] = None}
    /\ \A t \in Registered :
           IF PinnedTo[t] # None THEN linked[t] = PinnedTo[t]
           ELSE LET r == compatible[Follows[t]][Wants[t]] IN
                linked[t] = r \/ ~Compatible(PlanOf[t][linked[t]], PlanOf[t][r])

\* Plan q is joined to p by a path of retained edges: it is in every set of
\* Plans that has p and that no edge leaves.
Reaches(t, p, q) ==
    \A S \in SUBSET plans[t] :
        p \in S /\ (\A e \in edges[t] : e[1] \in S => e[2] \in S) => q \in S

\* Rollout state is closed and explains itself: the current decision is
\* retained and not ended, decisions name retained Plans, every Plan can be
\* reached from the first one by migrations, every pin has a Plan its
\* decision selects, and an ended decision was ended by a gate that its
\* evidence satisfied and that evidence has only grown.
RolloutLegal ==
    /\ TypeOK
    /\ \A t \in Registered :
           /\ current[t] \in DOMAIN decisions[t] \ DOMAIN transition[t]
           /\ PlanOf[t][linked[t]] \in plans[t]
           /\ \A id \in DOMAIN decisions[t] :
                  {decisions[t][id].fallback, decisions[t][id].target} \subseteq plans[t]
           /\ \E p \in plans[t] : /\ InitialId(p) \in DOMAIN decisions[t]
                                  /\ \A q \in plans[t] : Reaches(t, p, q)
           /\ \A id \in DOMAIN transition[t] :
                  LET x == transition[t][id] IN
                  /\ decisions[t][x.to] =
                         [decisions[t][id] EXCEPT !.mode = Outcome(x.gate, x.seen)]
                  /\ \A f \in DOMAIN x.seen : x.seen[f] <= evidence[t][id][f]
           /\ \A o \in Occurrences : pin[t][o] # None =>
                  pin[t][o].plan \in SelectedPlans(decisions[t][pin[t][o].decision])

\* Plan q is joined to p by a path of the edges of any templates.
Joined(p, q) ==
    \A S \in SUBSET Plans :
        p \in S /\ (\A t \in Templates : \A e \in edges[t] : e[1] \in S => e[2] \in S) => q \in S

\* However many migrations a Run has been through, and by whichever
\* templates, it has come along reviewed edges and has no Effect that the
\* Plan it was started with does not allow; and each single migration on
\* record also kept what its source required of components
\* (validate_migration_no_widening). Of chains nothing is said about
\* components: the check of the code does not add up there.
MigrationsNarrow ==
    /\ \A q \in Runs : /\ Joined(First[q], run[q].plan)
                       /\ Effects[run[q].plan] \subseteq Effects[First[q]]
    /\ \A t \in Templates, m \in Migrations : migration[t][m] # None =>
           /\ <<migration[t][m].from, migration[t][m].to>> \in edges[t]
           /\ NoWidening(migration[t][m].from, migration[t][m].to)

Kept(f, g) == \A x \in DOMAIN f : x \in DOMAIN g /\ (f[x] # None => g[x] = f[x])

\* What is retained stays as it was: no publication, rollback or migration
\* rewrites a decision, a transition, a pin, a piece of evidence or a
\* sequence, or drops a Plan or an edge, and a decision that a gate has
\* ended is never current again.
RetainedFinal ==
    [][ /\ \A r \in Revisions : sequence[r] > 0 => sequence'[r] = sequence[r]
        /\ \A t \in Templates :
               /\ plans[t] \subseteq plans'[t] /\ edges[t] \subseteq edges'[t]
               /\ Kept(decisions[t], decisions'[t]) /\ Kept(transition[t], transition'[t])
               /\ Kept(pin[t], pin'[t]) /\ Kept(record[t], record'[t])
               /\ Kept(migration[t], migration'[t])
               /\ current'[t] \notin DOMAIN transition'[t] ]_vars

==========================================================================
