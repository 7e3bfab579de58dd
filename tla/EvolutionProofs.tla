------------------------- MODULE EvolutionProofs -------------------------
(***************************************************************************)
(* What the registry and the rollout of templates guarantee, for every set *)
(* of revisions, templates, Plans and evidence.                            *)
(*                                                                         *)
(* All but the registry is kept per template, and so is the invariant: a   *)
(* command of a client touches one template, a publication every template  *)
(* it advances, each in the same way.                                      *)
(***************************************************************************)
EXTENDS Evolution, FiniteSetTheorems, TLAPS

\* The maps are over their index sets.
Framed ==
    /\ DOMAIN plans = Templates /\ DOMAIN edges = Templates /\ DOMAIN decisions = Templates
    /\ DOMAIN current = Templates /\ DOMAIN evidence = Templates /\ DOMAIN transition = Templates
    /\ DOMAIN pin = Templates /\ DOMAIN record = Templates
    /\ DOMAIN migration = Templates

Registry ==
    /\ sequence \in [Revisions -> Nat]
    /\ head \in [Refs -> Revisions \cup {None}]
    /\ compatible \in [Refs -> [Contracts -> Revisions \cup {None}]]
    /\ dependents \in [Refs -> SUBSET Templates]
    /\ linked \in [Templates -> Revisions \cup {None}]

\* What is kept of a template that is not registered is empty.
Shaped(t) ==
    /\ plans[t] \subseteq Plans /\ edges[t] \subseteq plans[t] \X plans[t]
    /\ DOMAIN evidence[t] = DOMAIN decisions[t] /\ DOMAIN transition[t] \subseteq DOMAIN decisions[t]
    /\ IsFiniteSet(DOMAIN decisions[t]) /\ Cardinality(DOMAIN decisions[t]) <= MaxDecisions
    /\ linked[t] = None => DOMAIN decisions[t] = {} /\ plans[t] = {}
    /\ DOMAIN pin[t] = Occurrences
    /\ DOMAIN record[t] = EvidenceIds /\ DOMAIN migration[t] = Migrations

\* The current decision is open, and decisions are about Plans that are
\* retained and can be reached from the first one.
Decided(t) ==
    /\ linked[t] # None => /\ current[t] \in DOMAIN decisions[t] \ DOMAIN transition[t]
                           /\ PlanOf[t][linked[t]] \in plans[t]
                           /\ \E p \in plans[t] : /\ InitialId(p) \in DOMAIN decisions[t]
                                                  /\ \A q \in plans[t] : Reaches(t, p, q)
    /\ \A id \in DOMAIN decisions[t] :
           /\ decisions[t][id].fallback \in plans[t] /\ decisions[t][id].target \in plans[t]
           /\ DOMAIN decisions[t][id] = {"fallback", "target", "mode"}

Evidence == [observations: Nat, failures: Nat, equivalent: Nat, inequivalent: Nat]

\* The successor of an ended decision is retained, and its evidence has only grown.
Ended(t) ==
    \A id \in DOMAIN transition[t] :
        /\ transition[t][id].to \in DOMAIN decisions[t]
        /\ decisions[t][transition[t][id].to] =
               [decisions[t][id] EXCEPT !.mode = Outcome(transition[t][id].gate, transition[t][id].seen)]
        /\ transition[t][id].seen \in Evidence
        /\ \A f \in {"observations", "failures", "equivalent", "inequivalent"} :
               transition[t][id].seen[f] <= evidence[t][id][f]

\* A pin has a Plan of its decision.
Pinned(t) ==
    \A o \in Occurrences : pin[t][o] # None =>
        /\ pin[t][o].decision \in DOMAIN decisions[t] /\ pin[t][o].plan \in plans[t]
        /\ pin[t][o].plan \in SelectedPlans(decisions[t][pin[t][o].decision])

Failures(t, id)      == {e \in TargetRuns(t, id) : record[t][e].failed}
Equivalent(t, id)    == {e \in Retained(t, id, "Shadow") : record[t][e].equivalent}
Inequivalent(t, id)  == {e \in Retained(t, id, "Shadow") : ~record[t][e].equivalent}

\* Evidence is about a retained decision, and is counted there.
Counted(t) ==
    /\ \A e \in EvidenceIds : record[t][e] # None => record[t][e].decision \in DOMAIN decisions[t]
    /\ \A id \in DOMAIN decisions[t] :
           /\ evidence[t][id] \in Evidence
           /\ evidence[t][id].observations = Cardinality(TargetRuns(t, id))
           /\ evidence[t][id].failures = Cardinality(Failures(t, id))
           /\ evidence[t][id].equivalent = Cardinality(Equivalent(t, id))
           /\ evidence[t][id].inequivalent = Cardinality(Inequivalent(t, id))

TInv(t) == Shaped(t) /\ Decided(t) /\ Ended(t) /\ Pinned(t) /\ Counted(t)

Inv == Framed /\ Registry /\ LinksFollowHeads /\ \A t \in Templates : TInv(t)

\* A step leaves all that is kept of a template alone.
Fixed(t) ==
    /\ linked'[t] = linked[t] /\ plans'[t] = plans[t] /\ edges'[t] = edges[t]
    /\ decisions'[t] = decisions[t] /\ current'[t] = current[t] /\ evidence'[t] = evidence[t]
    /\ transition'[t] = transition[t] /\ pin'[t] = pin[t]
    /\ record'[t] = record[t] /\ migration'[t] = migration[t]

\* It adds Plans, edges and decisions and changes none.
Grows(t) ==
    /\ plans[t] \subseteq plans'[t] /\ edges[t] \subseteq edges'[t]
    /\ \A id \in DOMAIN decisions[t] :
           id \in DOMAIN decisions'[t] /\ decisions'[t][id] = decisions[t][id]

\* What RetainedFinal says of one template.
Keeps(t) ==
    /\ plans[t] \subseteq plans'[t] /\ edges[t] \subseteq edges'[t]
    /\ Kept(decisions[t], decisions'[t]) /\ Kept(transition[t], transition'[t])
    /\ Kept(pin[t], pin'[t]) /\ Kept(record[t], record'[t])
    /\ Kept(migration[t], migration'[t])
    /\ current'[t] \notin DOMAIN transition'[t]

SequencesKept == \A r \in Revisions : sequence[r] > 0 => sequence'[r] = sequence[r]

-----------------------------------------------------------------------------
(* Operators. *)

LEMMA ReachesSelf == ASSUME NEW t, NEW p PROVE Reaches(t, p, p)
BY DEF Reaches

LEMMA ReachesEdge ==
    ASSUME NEW t, NEW p, NEW q, NEW r, Reaches(t, p, q), <<q, r>> \in edges[t]
    PROVE  Reaches(t, p, r)
<1>1. SUFFICES ASSUME NEW S \in SUBSET plans[t], p \in S,
                      \A e \in edges[t] : e[1] \in S => e[2] \in S
               PROVE  r \in S
    BY DEF Reaches
<1>2. q \in S
    BY <1>1 DEF Reaches
<1>3. <<q, r>>[2] \in S
    BY <1>1, <1>2
<1>4. QED
    BY <1>3

LEMMA ReachesGrows ==
    ASSUME NEW t, NEW p \in plans[t], NEW q, Reaches(t, p, q), Grows(t),
           edges[t] \subseteq plans[t] \X plans[t]
    PROVE  Reaches(t, p, q)'
<1>1. SUFFICES ASSUME NEW S \in SUBSET plans'[t], p \in S,
                      \A e \in edges'[t] : e[1] \in S => e[2] \in S
               PROVE  q \in S
    BY DEF Reaches
<1>2. \A e \in edges[t] : e[1] \in S \cap plans[t] => e[2] \in S \cap plans[t]
    BY <1>1 DEF Grows
<1>3. S \cap plans[t] \in SUBSET plans[t] /\ p \in S \cap plans[t]
    BY <1>1
<1>4. q \in S \cap plans[t]
    <2>1. PICK T : T = S \cap plans[t]
        OBVIOUS
    <2>2. q \in T
        BY <1>2, <1>3, <2>1 DEF Reaches
    <2>3. QED
        BY <2>1, <2>2
<1>5. QED
    BY <1>4

LEMMA NotNone ==
    /\ \A a, b, c : [decision |-> a, plan |-> b, selection |-> c] # None
    /\ \A a, b, c : [kind |-> "Shadow", decision |-> a, subject |-> b, equivalent |-> c] # None
    /\ \A a, b, c, d : [kind |-> "Observation", decision |-> a, occurrence |-> b, plan |-> c,
                        failed |-> d] # None
BY DEF None

\* Two accumulators with the same counts are the same.
LEMMA SameEvidence ==
    ASSUME NEW a \in Evidence, NEW b \in Evidence, a.observations = b.observations,
           a.failures = b.failures, a.equivalent = b.equivalent, a.inequivalent = b.inequivalent
    PROVE  a = b
BY DEF Evidence

LEMMA NoEvidenceFacts ==
    /\ NoEvidence \in Evidence /\ NoEvidence.observations = 0 /\ NoEvidence.failures = 0
    /\ NoEvidence.equivalent = 0 /\ NoEvidence.inequivalent = 0
BY DEF NoEvidence, Evidence

\* One more piece of evidence is one more in the count.
LEMMA OneMore ==
    ASSUME NEW S \in SUBSET EvidenceIds, NEW e \in EvidenceIds, e \notin S
    PROVE  Cardinality(S \cup {e}) = Cardinality(S) + 1 /\ Cardinality(S) \in Nat
<1>1. IsFiniteSet(S)
    BY ConstantsAssumption, FS_Subset
<1>2. QED
    BY <1>1, FS_AddElement, FS_CardinalityType

LEMMA ObservedFacts ==
    ASSUME NEW ev \in Evidence, NEW failed \in BOOLEAN
    PROVE  /\ Observed(ev, failed) \in Evidence
           /\ Observed(ev, failed).observations = ev.observations + 1
           /\ Observed(ev, failed).failures = IF failed THEN ev.failures + 1 ELSE ev.failures
           /\ Observed(ev, failed).equivalent = ev.equivalent
           /\ Observed(ev, failed).inequivalent = ev.inequivalent
<1>1. ev.observations + 1 \in Nat /\ ev.failures + 1 \in Nat /\ ev.failures \in Nat
    BY DEF Evidence
<1>2. PICK n \in Nat : n = IF failed THEN ev.failures + 1 ELSE ev.failures
    BY <1>1
<1>3. PICK m \in Nat : m = ev.observations + 1
    BY <1>1
<1>4. Observed(ev, failed) = [ev EXCEPT !.observations = m, !.failures = n]
    BY <1>2, <1>3 DEF Observed
<1>5. [ev EXCEPT !.observations = m, !.failures = n] \in Evidence
    BY DEF Evidence
<1>6. QED
    BY <1>2, <1>3, <1>4, <1>5 DEF Evidence

LEMMA ComparedFacts ==
    ASSUME NEW ev \in Evidence, NEW equivalent \in BOOLEAN
    PROVE  /\ Compared(ev, equivalent) \in Evidence
           /\ Compared(ev, equivalent).observations = ev.observations
           /\ Compared(ev, equivalent).failures = ev.failures
           /\ Compared(ev, equivalent).equivalent =
                  IF equivalent THEN ev.equivalent + 1 ELSE ev.equivalent
           /\ Compared(ev, equivalent).inequivalent =
                  IF equivalent THEN ev.inequivalent ELSE ev.inequivalent + 1
BY DEF Compared, Evidence

LEMMA PlanInPlans == ASSUME NEW t \in Templates, NEW r \in Revisions PROVE PlanOf[t][r] \in Plans
<1>1. PICK S : S = {PlanOf[t][q] : q \in Revisions}
    OBVIOUS
<1>2. PlanOf[t][r] \in S /\ S \in {{PlanOf[u][q] : q \in Revisions} : u \in Templates}
    BY <1>1
<1>3. QED
    BY <1>2 DEF Plans, Links

LEMMA PatchInPlans == ASSUME NEW p \in Patches PROVE p \in Plans
BY DEF Plans

-----------------------------------------------------------------------------
(* One template. *)

LEMMA KeepsFacts ==
    ASSUME NEW t, TInv(t)', Grows(t), Kept(transition[t], transition'[t]), Kept(pin[t], pin'[t]),
           Kept(record[t], record'[t]), Kept(migration[t], migration'[t])
    PROVE  Keeps(t)
<1>1. current'[t] \notin DOMAIN transition'[t]
    BY DEF TInv, Shaped, Decided
<1>2. Kept(decisions[t], decisions'[t])
    BY DEF Grows, Kept
<1>3. QED
    BY <1>1, <1>2 DEF Grows, Keeps

LEMMA KeptSame == ASSUME NEW f PROVE Kept(f, f)
BY DEF Kept

LEMMA FixedReaches ==
    ASSUME NEW t, NEW p, NEW q, plans'[t] = plans[t], edges'[t] = edges[t]
    PROVE  Reaches(t, p, q)' <=> Reaches(t, p, q)
BY DEF Reaches

LEMMA SameCounted ==
    ASSUME NEW t, Counted(t), record'[t] = record[t], decisions'[t] = decisions[t],
           evidence'[t] = evidence[t]
    PROVE  Counted(t)'
<1>1. \A id, k : Retained(t, id, k)' = Retained(t, id, k)
    BY DEF Retained
<1>2. \A id : TargetRuns(t, id)' = TargetRuns(t, id)
    BY <1>1 DEF TargetRuns
<1>3. \A id : /\ Failures(t, id)' = Failures(t, id) /\ Equivalent(t, id)' = Equivalent(t, id)
              /\ Inequivalent(t, id)' = Inequivalent(t, id)
    BY <1>1, <1>2 DEF Failures, Equivalent, Inequivalent
<1>4. QED
    BY <1>2, <1>3 DEF Counted

LEMMA FixedStep == ASSUME NEW t, TInv(t), Fixed(t) PROVE TInv(t)' /\ Keeps(t)
<1>1. Shaped(t)' /\ Ended(t)'
    BY ZenonT(60) DEF TInv, Fixed, Shaped, Ended
<1>2. Decided(t)'
    <2>1. \A p, q : Reaches(t, p, q)' <=> Reaches(t, p, q)
        BY FixedReaches DEF Fixed
    <2>2. QED
        BY <2>1 DEF TInv, Fixed, Decided
<1>3. Pinned(t)'
    BY DEF TInv, Fixed, Pinned
<1>4. Counted(t)'
    BY SameCounted DEF TInv, Fixed
<1>5. TInv(t)'
    BY <1>1, <1>2, <1>3, <1>4 DEF TInv
<1>6. QED
    BY <1>5, KeptSame, KeepsFacts DEF Fixed, Grows

LEMMA GrowingPins ==
    ASSUME NEW t, Pinned(t), Grows(t), pin'[t] = pin[t]
    PROVE  Pinned(t)'
BY DEF Pinned, Grows

Fields == {"observations", "failures", "equivalent", "inequivalent"}

LEMMA FieldsAreNat == ASSUME NEW ev \in Evidence, NEW f \in Fields PROVE ev[f] \in Nat
BY DEF Evidence, Fields

LEMMA StillEnded ==
    ASSUME NEW t, Shaped(t), Ended(t), Counted(t), Counted(t)', Grows(t),
           \A id \in DOMAIN transition[t] : \A f \in Fields : evidence[t][id][f] <= evidence'[t][id][f]
    PROVE  \A id \in DOMAIN transition[t] :
               /\ transition[t][id].to \in DOMAIN decisions'[t]
               /\ decisions'[t][transition[t][id].to] = [decisions'[t][id] EXCEPT !.mode =
                      Outcome(transition[t][id].gate, transition[t][id].seen)]
               /\ transition[t][id].seen \in Evidence
               /\ \A f \in Fields : transition[t][id].seen[f] <= evidence'[t][id][f]
<1>1. ASSUME NEW id \in DOMAIN transition[t]
      PROVE  /\ transition[t][id].to \in DOMAIN decisions'[t]
             /\ decisions'[t][transition[t][id].to] = [decisions'[t][id] EXCEPT !.mode =
                    Outcome(transition[t][id].gate, transition[t][id].seen)]
             /\ transition[t][id].seen \in Evidence
    <2>1. id \in DOMAIN decisions[t] /\ transition[t][id].to \in DOMAIN decisions[t]
        BY DEF Shaped, Ended
    <2>2. /\ decisions'[t][id] = decisions[t][id]
          /\ decisions'[t][transition[t][id].to] = decisions[t][transition[t][id].to]
          /\ transition[t][id].to \in DOMAIN decisions'[t]
        BY <2>1 DEF Grows
    <2>3. QED
        BY <2>2 DEF Ended
<1>2. ASSUME NEW id \in DOMAIN transition[t], NEW f \in Fields
      PROVE  transition[t][id].seen[f] <= evidence'[t][id][f]
    <2>1. id \in DOMAIN decisions[t] /\ id \in DOMAIN decisions'[t]
        BY DEF Shaped, Grows
    <2>2. /\ transition[t][id].seen \in Evidence /\ evidence[t][id] \in Evidence
          /\ evidence'[t][id] \in Evidence
        BY <2>1 DEF Ended, Counted
    <2>3. PICK a, b, c : a = transition[t][id].seen /\ b = evidence[t][id] /\ c = evidence'[t][id]
        OBVIOUS
    <2>4. a[f] \in Nat /\ b[f] \in Nat /\ c[f] \in Nat
        BY <2>2, <2>3, FieldsAreNat
    <2>5. a[f] <= b[f] /\ b[f] <= c[f]
        BY <2>3 DEF Ended, Fields
    <2>6. QED
        BY <2>3, <2>4, <2>5
<1>3. QED
    BY <1>1, <1>2

LEMMA GrowingEnded ==
    ASSUME NEW t, Shaped(t), Ended(t), Counted(t), Counted(t)', Grows(t),
           transition'[t] = transition[t],
           \A id \in DOMAIN transition[t] : \A f \in Fields : evidence[t][id][f] <= evidence'[t][id][f]
    PROVE  Ended(t)'
<1>1. \A id \in DOMAIN transition[t] :
          /\ transition[t][id].to \in DOMAIN decisions'[t]
          /\ decisions'[t][transition[t][id].to] = [decisions'[t][id] EXCEPT !.mode =
                 Outcome(transition[t][id].gate, transition[t][id].seen)]
          /\ transition[t][id].seen \in Evidence
          /\ \A f \in Fields : transition[t][id].seen[f] <= evidence'[t][id][f]
    BY StillEnded
<1>2. QED
    BY <1>1 DEF Ended, Fields

\* No evidence names a decision that is being made, and its count is zero.
LEMMA DecisionCounted ==
    ASSUME NEW t, NEW id, NEW d, Counted(t), DOMAIN evidence[t] = DOMAIN decisions[t],
           id \notin DOMAIN decisions[t], record'[t] = record[t],
           decisions'[t] = Put(decisions[t], id, d),
           evidence'[t] = Put(evidence[t], id, NoEvidence)
    PROVE  Counted(t)'
<1>1. /\ DOMAIN decisions'[t] = DOMAIN decisions[t] \cup {id}
      /\ evidence'[t][id] = NoEvidence
      /\ \A x \in DOMAIN decisions[t] : /\ decisions'[t][x] = decisions[t][x]
                                        /\ evidence'[t][x] = evidence[t][x]
    <2>1. PICK D, E : D = decisions[t] /\ E = evidence[t]
        OBVIOUS
    <2>2. decisions'[t] = Put(D, id, d) /\ evidence'[t] = Put(E, id, NoEvidence)
        BY <2>1
    <2>3. /\ DOMAIN Put(D, id, d) = DOMAIN D \cup {id}
          /\ \A x \in DOMAIN D : x # id => Put(D, id, d)[x] = D[x]
        BY DEF Put
    <2>4. /\ Put(E, id, NoEvidence)[id] = NoEvidence
          /\ \A x \in DOMAIN E : x # id => Put(E, id, NoEvidence)[x] = E[x]
        BY DEF Put
    <2>5. QED
        BY <2>1, <2>2, <2>3, <2>4
<1>2. \A x, k : Retained(t, x, k)' = Retained(t, x, k)
    BY DEF Retained
<1>3. \A k : Retained(t, id, k) = {}
    BY DEF Retained, Counted
<1>4. /\ TargetRuns(t, id)' = {} /\ Failures(t, id)' = {} /\ Equivalent(t, id)' = {}
      /\ Inequivalent(t, id)' = {}
    <2>1. \A k : Retained(t, id, k)' = {}
        BY <1>2, <1>3
    <2>2. TargetRuns(t, id)' = {} /\ Equivalent(t, id)' = {} /\ Inequivalent(t, id)' = {}
        BY <2>1 DEF TargetRuns, Equivalent, Inequivalent
    <2>3. QED
        BY <2>2 DEF Failures
<1>5. \A x \in DOMAIN decisions[t] :
          /\ TargetRuns(t, x)' = TargetRuns(t, x) /\ Failures(t, x)' = Failures(t, x)
          /\ Equivalent(t, x)' = Equivalent(t, x) /\ Inequivalent(t, x)' = Inequivalent(t, x)
    <2>1. \A x \in DOMAIN decisions[t] : TargetRuns(t, x)' = TargetRuns(t, x)
        BY <1>1, <1>2 DEF TargetRuns
    <2>2. QED
        BY <1>2, <2>1 DEF Failures, Equivalent, Inequivalent
<1>6. Cardinality({}) = 0
    BY FS_EmptySet
<1>7. ASSUME NEW x \in DOMAIN decisions'[t]
      PROVE  /\ evidence'[t][x] \in Evidence
             /\ evidence'[t][x].observations = Cardinality(TargetRuns(t, x)')
             /\ evidence'[t][x].failures = Cardinality(Failures(t, x)')
             /\ evidence'[t][x].equivalent = Cardinality(Equivalent(t, x)')
             /\ evidence'[t][x].inequivalent = Cardinality(Inequivalent(t, x)')
    <2>1. CASE x = id
        BY <1>1, <1>4, <1>6, <2>1, NoEvidenceFacts
    <2>2. CASE x \in DOMAIN decisions[t]
        BY <1>1, <1>5, <2>2 DEF Counted
    <2>3. QED
        BY <1>1, <2>1, <2>2
<1>8. \A e \in EvidenceIds : record'[t][e] # None => record'[t][e].decision \in DOMAIN decisions'[t]
    BY <1>1 DEF Counted
<1>9. QED
    BY <1>7, <1>8 DEF Counted

\* A new decision beside the retained ones.
LEMMA DecisionMade ==
    ASSUME NEW t, NEW id, NEW d, Shaped(t), Counted(t), id \notin DOMAIN decisions[t],
           Cardinality(DOMAIN decisions[t]) < MaxDecisions, record'[t] = record[t],
           decisions'[t] = Put(decisions[t], id, d),
           evidence'[t] = Put(evidence[t], id, NoEvidence)
    PROVE  /\ Counted(t)'
           /\ DOMAIN decisions'[t] = DOMAIN decisions[t] \cup {id}
           /\ DOMAIN evidence'[t] = DOMAIN decisions'[t] /\ decisions'[t][id] = d
           /\ \A x \in DOMAIN decisions[t] :
                  decisions'[t][x] = decisions[t][x] /\ evidence'[t][x] = evidence[t][x]
           /\ \A x \in DOMAIN decisions[t] : \A f \in Fields : evidence[t][x][f] <= evidence'[t][x][f]
           /\ IsFiniteSet(DOMAIN decisions'[t]) /\ Cardinality(DOMAIN decisions'[t]) <= MaxDecisions
<1>1. Counted(t)'
    BY DecisionCounted DEF Shaped
<1>2. PICK D, E : D = decisions[t] /\ E = evidence[t]
    OBVIOUS
<1>3. /\ DOMAIN Put(D, id, d) = DOMAIN D \cup {id} /\ Put(D, id, d)[id] = d
      /\ \A x \in DOMAIN D : x # id => Put(D, id, d)[x] = D[x]
    BY DEF Put
<1>4. /\ DOMAIN Put(E, id, NoEvidence) = DOMAIN E \cup {id}
      /\ \A x \in DOMAIN E : x # id => Put(E, id, NoEvidence)[x] = E[x]
    BY DEF Put
<1>5. decisions'[t] = Put(D, id, d) /\ evidence'[t] = Put(E, id, NoEvidence) /\ DOMAIN D = DOMAIN E
    BY <1>2 DEF Shaped
<1>6. \A x \in DOMAIN decisions[t] : decisions'[t][x] = decisions[t][x] /\ evidence'[t][x] = evidence[t][x]
    BY <1>2, <1>3, <1>4, <1>5
<1>7. ASSUME NEW x \in DOMAIN decisions[t], NEW f \in Fields
      PROVE  evidence[t][x][f] <= evidence'[t][x][f]
    <2>1. PICK ev \in Evidence : ev = evidence[t][x]
        BY DEF Counted
    <2>2. ev[f] \in Nat
        BY FieldsAreNat
    <2>3. QED
        BY <1>6, <2>1, <2>2
<1>8. /\ IsFiniteSet(DOMAIN D \cup {id})
      /\ Cardinality(DOMAIN D \cup {id}) <= MaxDecisions
    <2>1. PICK S : S = DOMAIN D
        OBVIOUS
    <2>2. IsFiniteSet(S) /\ id \notin S /\ Cardinality(S) < MaxDecisions
        BY <1>2, <2>1 DEF Shaped
    <2>3. /\ IsFiniteSet(S \cup {id}) /\ Cardinality(S \cup {id}) = Cardinality(S) + 1
          /\ Cardinality(S) \in Nat
        BY <2>2, FS_AddElement, FS_CardinalityType
    <2>4. QED
        BY <2>1, <2>2, <2>3, ConstantsAssumption
<1>9. QED
    BY <1>1, <1>2, <1>3, <1>4, <1>5, <1>6, <1>7, <1>8

\* A Plan that an edge joins to a retained one can be reached.
LEMMA PlanReached ==
    ASSUME NEW t, NEW p0 \in plans[t], NEW from \in plans[t], NEW to, Grows(t),
           edges[t] \subseteq plans[t] \X plans[t], \A q \in plans[t] : Reaches(t, p0, q),
           plans'[t] = plans[t] \cup {to}, <<from, to>> \in edges'[t]
    PROVE  \A q \in plans'[t] : Reaches(t, p0, q)'
<1>1. \A q \in plans[t] : Reaches(t, p0, q)'
    BY ReachesGrows
<1>2. Reaches(t, p0, to)'
    <2>1. Reaches(t, p0, from)'
        BY <1>1
    <2>2. ASSUME NEW S \in SUBSET plans'[t], p0 \in S,
                 \A e \in edges'[t] : e[1] \in S => e[2] \in S
          PROVE  to \in S
        <3>1. from \in S
            BY <2>1, <2>2 DEF Reaches
        <3>2. <<from, to>>[2] \in S
            BY <2>2, <3>1
        <3>3. QED
            BY <3>2
    <2>3. QED
        BY <2>2 DEF Reaches
<1>3. QED
    BY <1>1, <1>2

-----------------------------------------------------------------------------
(* Commands of a client. Each touches one template and leaves the registry *)
(* and the links alone.                                                    *)

LEMMA SameLinks ==
    ASSUME Registry, LinksFollowHeads, UNCHANGED registry, UNCHANGED linked
    PROVE  Registry' /\ LinksFollowHeads' /\ SequencesKept
<1>1. UNCHANGED <<sequence, head, compatible, dependents, linked>>
    BY DEF registry
<1>2. Registered' = Registered
    BY <1>1 DEF Registered
<1>3. QED
    BY <1>1, <1>2 DEF Registry, LinksFollowHeads, SequencesKept

\* From one template to all.
LEMMA OneTemplate ==
    ASSUME Inv, Framed', Registry', LinksFollowHeads', NEW t \in Templates, TInv(t)' /\ Keeps(t),
           \A u \in Templates \ {t} : Fixed(u)
    PROVE  Inv' /\ \A u \in Templates : Keeps(u)
<1>1. ASSUME NEW u \in Templates PROVE TInv(u)' /\ Keeps(u)
    BY FixedStep DEF Inv
<1>2. QED
    BY <1>1 DEF Inv

LEMMA ApplyPatchStep ==
    ASSUME Inv, NEW t \in Templates, NEW from \in plans[t], NEW to \in Patches,
           ApplyPatch(t, from, to)
    PROVE  Inv' /\ SequencesKept /\ \A u \in Templates : Keeps(u)
<1>1. Framed' /\ Registry' /\ LinksFollowHeads' /\ SequencesKept
    <2>1. Framed'
        BY DEF Inv, Framed, ApplyPatch, rollout
    <2>2. QED
        BY <2>1, SameLinks DEF Inv, ApplyPatch
<1>2. /\ linked[t] # None /\ plans'[t] = plans[t] \cup {to}
      /\ edges'[t] = edges[t] \cup {<<from, to>>}
      /\ \A u \in Templates \ {t} : plans'[u] = plans[u] /\ edges'[u] = edges[u]
      /\ UNCHANGED <<linked, decisions, current, evidence, transition, pin, run, record, migration>>
    BY DEF Inv, Framed, ApplyPatch, rollout
<1>3. \A u \in Templates \ {t} : Fixed(u)
    BY <1>2 DEF Fixed
<1>4. TInv(t) /\ Grows(t)
    BY <1>2 DEF Inv, Grows
<1>5. Shaped(t)'
    <2>1. to \in Plans
        BY PatchInPlans
    <2>2. plans'[t] \subseteq Plans /\ edges'[t] \subseteq plans'[t] \X plans'[t]
        BY <1>2, <1>4, <2>1 DEF TInv, Shaped
    <2>3. QED
        BY <1>2, <1>4, <2>2 DEF TInv, Shaped
<1>6. Decided(t)'
    <2>1. PICK p \in plans[t] : /\ InitialId(p) \in DOMAIN decisions[t]
                                /\ \A q \in plans[t] : Reaches(t, p, q)
        BY <1>2, <1>4 DEF TInv, Decided
    <2>2. \A q \in plans'[t] : Reaches(t, p, q)'
        BY <1>2, <1>4, <2>1, PlanReached DEF TInv, Shaped
    <2>3. QED
        BY <1>2, <1>4, <2>1, <2>2 DEF TInv, Decided
<1>7. Ended(t)'
    BY <1>2, <1>4 DEF TInv, Ended
<1>8. Pinned(t)'
    BY <1>2, <1>4, GrowingPins DEF TInv
<1>9. Counted(t)'
    BY <1>2, <1>4, SameCounted DEF TInv
<1>10. TInv(t)' /\ Keeps(t)
    <2>1. TInv(t)'
        BY <1>5, <1>6, <1>7, <1>8, <1>9 DEF TInv
    <2>2. QED
        BY <1>2, <1>4, <2>1, KeepsFacts, KeptSame
<1>11. QED
    BY <1>1, <1>3, <1>10, OneTemplate

LEMMA SelectOccurrenceStep ==
    ASSUME Inv, NEW t \in Templates, NEW o \in Occurrences, NEW s \in Selections,
           SelectOccurrence(t, o, s)
    PROVE  Inv' /\ SequencesKept /\ \A u \in Templates : Keeps(u)
<1>1. Framed' /\ Registry' /\ LinksFollowHeads' /\ SequencesKept
    <2>1. Framed'
        BY DEF Inv, Framed, SelectOccurrence, rollout
    <2>2. QED
        BY <2>1, SameLinks DEF Inv, SelectOccurrence
<1>2. PICK p \in SelectedPlans(decisions[t][current[t]]) \cap plans[t] :
          pin' = [pin EXCEPT ![t][o] = [decision |-> current[t], plan |-> p, selection |-> s]]
    BY DEF SelectOccurrence
<1>3. /\ linked[t] # None /\ pin[t][o] = None
      /\ UNCHANGED <<linked, plans, edges, decisions, current, evidence, transition, run, record,
                     migration>>
    BY DEF SelectOccurrence, Unselected, rollout
<1>4. TInv(t) /\ Grows(t)
    BY <1>3 DEF Inv, Grows
<1>5. /\ DOMAIN pin'[t] = Occurrences
      /\ pin'[t][o] = [decision |-> current[t], plan |-> p, selection |-> s]
      /\ \A q \in Occurrences \ {o} : pin'[t][q] = pin[t][q]
      /\ \A u \in Templates \ {t} : pin'[u] = pin[u]
    BY <1>2, <1>4 DEF Inv, Framed, TInv, Shaped
<1>6. \A u \in Templates \ {t} : Fixed(u)
    BY <1>3, <1>5 DEF Fixed
<1>7. Shaped(t)' /\ Ended(t)'
    BY <1>3, <1>4, <1>5 DEF TInv, Shaped, Ended
<1>8. \A a, b : Reaches(t, a, b)' <=> Reaches(t, a, b)
    BY <1>3, FixedReaches
<1>9. Decided(t)'
    BY <1>3, <1>4, <1>8 DEF TInv, Decided
<1>10. Pinned(t)'
    <2>1. /\ pin'[t][o].decision \in DOMAIN decisions'[t] /\ pin'[t][o].plan \in plans'[t]
          /\ pin'[t][o].plan \in SelectedPlans(decisions'[t][pin'[t][o].decision])
        BY <1>2, <1>3, <1>4, <1>5 DEF TInv, Decided
    <2>2. ASSUME NEW q \in Occurrences \ {o}, pin'[t][q] # None
          PROVE  /\ pin'[t][q].decision \in DOMAIN decisions'[t] /\ pin'[t][q].plan \in plans'[t]
                 /\ pin'[t][q].plan \in SelectedPlans(decisions'[t][pin'[t][q].decision])
        BY <1>3, <1>4, <1>5, <2>2 DEF TInv, Pinned
    <2>3. QED
        BY <2>1, <2>2 DEF Pinned
<1>11. Counted(t)'
    BY <1>3, <1>4, SameCounted DEF TInv
<1>12. TInv(t)' /\ Keeps(t)
    <2>1. TInv(t)'
        BY <1>7, <1>9, <1>10, <1>11 DEF TInv
    <2>2. Kept(pin[t], pin'[t])
        BY <1>3, <1>4, <1>5 DEF Kept, TInv, Shaped
    <2>3. QED
        BY <1>3, <1>4, <2>1, <2>2, KeepsFacts, KeptSame
<1>13. QED
    BY <1>1, <1>6, <1>12, OneTemplate

LEMMA MigrateStep ==
    ASSUME Inv, NEW t \in Templates, NEW m \in Migrations, NEW q \in Runs,
           NEW to \in plans[t], Migrate(t, m, q, to)
    PROVE  Inv' /\ SequencesKept /\ \A u \in Templates : Keeps(u)
<1>1. Framed' /\ Registry' /\ LinksFollowHeads' /\ SequencesKept
    <2>1. Framed'
        BY DEF Inv, Framed, Migrate, rollout
    <2>2. QED
        BY <2>1, SameLinks DEF Inv, Migrate
<1>2. /\ migration[t][m] = None
      /\ UNCHANGED <<linked, plans, edges, decisions, current, evidence, transition, pin, record>>
    BY DEF Migrate, rollout
<1>3. TInv(t) /\ Grows(t)
    BY <1>2 DEF Inv, Grows
<1>4. /\ \A u \in Templates \ {t} : migration'[u] = migration[u]
      /\ DOMAIN migration'[t] = Migrations
      /\ \A n \in Migrations \ {m} : migration'[t][n] = migration[t][n]
    BY <1>3 DEF Inv, Framed, TInv, Shaped, Migrate
<1>5. \A u \in Templates \ {t} : Fixed(u)
    BY <1>2, <1>4 DEF Fixed
<1>6. Shaped(t)' /\ Ended(t)'
    BY <1>2, <1>3, <1>4 DEF TInv, Shaped, Ended
<1>7. \A a, b : Reaches(t, a, b)' <=> Reaches(t, a, b)
    BY <1>2, FixedReaches
<1>8. Decided(t)'
    BY <1>2, <1>3, <1>7 DEF TInv, Decided
<1>9. Pinned(t)'
    BY <1>2, <1>3, GrowingPins DEF TInv
<1>10. Counted(t)'
    BY <1>2, <1>3, SameCounted DEF TInv
<1>11. TInv(t)' /\ Keeps(t)
    <2>1. TInv(t)'
        BY <1>6, <1>8, <1>9, <1>10 DEF TInv
    <2>2. Kept(migration[t], migration'[t])
        BY <1>2, <1>3, <1>4 DEF Kept, TInv, Shaped
    <2>3. QED
        BY <1>2, <1>3, <2>1, <2>2, KeepsFacts, KeptSame
<1>12. QED
    BY <1>1, <1>5, <1>11, OneTemplate

\* What a new piece of evidence does to the retained ones.
LEMMA RecordAdded ==
    ASSUME NEW t, NEW e \in EvidenceIds, NEW R, R # None, record[t][e] = None,
           record'[t][e] = R, \A q \in EvidenceIds \ {e} : record'[t][q] = record[t][q]
    PROVE  /\ \A x, k : e \notin Retained(t, x, k) /\ Retained(t, x, k) \subseteq EvidenceIds
           /\ Retained(t, R.decision, R.kind)' = Retained(t, R.decision, R.kind) \cup {e}
           /\ \A x, k : (x # R.decision \/ k # R.kind) => Retained(t, x, k)' = Retained(t, x, k)
           /\ \A x, k : \A q \in Retained(t, x, k) : record'[t][q] = record[t][q]
<1>1. \A x, k : e \notin Retained(t, x, k) /\ Retained(t, x, k) \subseteq EvidenceIds
    BY DEF Retained
<1>2. Retained(t, R.decision, R.kind)' = Retained(t, R.decision, R.kind) \cup {e}
    <2>1. ASSUME NEW q PROVE q \in Retained(t, R.decision, R.kind)' <=>
                             q \in Retained(t, R.decision, R.kind) \cup {e}
        BY DEF Retained
    <2>2. QED
        BY <2>1
<1>3. ASSUME NEW x, NEW k, x # R.decision \/ k # R.kind
      PROVE  Retained(t, x, k)' = Retained(t, x, k)
    <2>1. ASSUME NEW q PROVE q \in Retained(t, x, k)' <=> q \in Retained(t, x, k)
        BY <1>3 DEF Retained
    <2>2. QED
        BY <2>1
<1>4. \A x, k : \A q \in Retained(t, x, k) : record'[t][q] = record[t][q]
    BY DEF Retained
<1>5. QED
    BY <1>1, <1>2, <1>3, <1>4

\* A decision whose retained evidence is as it was has the counts it had.
LEMMA SameCounts ==
    ASSUME NEW t, NEW x, decisions'[t] = decisions[t],
           \A k : Retained(t, x, k)' = Retained(t, x, k),
           \A k : \A q \in Retained(t, x, k) : record'[t][q] = record[t][q]
    PROVE  /\ TargetRuns(t, x)' = TargetRuns(t, x) /\ Failures(t, x)' = Failures(t, x)
           /\ Equivalent(t, x)' = Equivalent(t, x) /\ Inequivalent(t, x)' = Inequivalent(t, x)
<1>1. TargetRuns(t, x)' = TargetRuns(t, x)
    BY DEF TargetRuns
<1>2. \A q \in TargetRuns(t, x) : record'[t][q] = record[t][q]
    BY DEF TargetRuns
<1>3. Failures(t, x)' = Failures(t, x)
    BY <1>1, <1>2 DEF Failures
<1>4. QED
    BY <1>1, <1>3 DEF Equivalent, Inequivalent

LEMMA ShadowStep ==
    ASSUME Inv, NEW t \in Templates, NEW e \in EvidenceIds, NEW id \in DOMAIN decisions[t],
           NEW subject \in Subjects, NEW equivalent \in BOOLEAN,
           Shadow(t, e, id, subject, equivalent)
    PROVE  Inv' /\ SequencesKept /\ \A u \in Templates : Keeps(u)
<1> DEFINE R == [kind |-> "Shadow", decision |-> id, subject |-> subject, equivalent |-> equivalent]
<1>1. Framed' /\ Registry' /\ LinksFollowHeads' /\ SequencesKept
    <2>1. Framed'
        BY DEF Inv, Framed, Shadow
    <2>2. QED
        BY <2>1, SameLinks DEF Inv, Shadow
<1>2. /\ record[t][e] = None
      /\ UNCHANGED <<linked, plans, edges, decisions, current, transition, pin, run, migration>>
    BY DEF Shadow
<1>3. TInv(t) /\ Grows(t)
    BY <1>2 DEF Inv, Grows
<1>4. /\ DOMAIN record'[t] = EvidenceIds /\ record'[t][e] = R
      /\ \A q \in EvidenceIds \ {e} : record'[t][q] = record[t][q]
      /\ \A u \in Templates \ {t} : record'[u] = record[u] /\ evidence'[u] = evidence[u]
      /\ DOMAIN evidence'[t] = DOMAIN decisions[t]
      /\ evidence'[t][id] = Compared(evidence[t][id], equivalent)
      /\ \A x \in DOMAIN decisions[t] \ {id} : evidence'[t][x] = evidence[t][x]
    BY <1>3 DEF Inv, Framed, TInv, Shaped, Shadow
<1>5. R # None /\ R.decision = id /\ R.kind = "Shadow" /\ R.equivalent = equivalent
    BY NotNone
<1> HIDE DEF R
<1>6. \A u \in Templates \ {t} : Fixed(u)
    BY <1>2, <1>4 DEF Fixed
<1>7. Shaped(t)'
    BY <1>2, <1>3, <1>4 DEF TInv, Shaped
<1>8. Decided(t)'
    <2>1. \A a, b : Reaches(t, a, b)' <=> Reaches(t, a, b)
        BY <1>2, FixedReaches
    <2>2. QED
        BY <1>2, <1>3, <2>1 DEF TInv, Decided
<1>9. Pinned(t)'
    BY <1>2, <1>3, GrowingPins DEF TInv
<1>10. /\ \A x, k : e \notin Retained(t, x, k) /\ Retained(t, x, k) \subseteq EvidenceIds
       /\ Retained(t, id, "Shadow")' = Retained(t, id, "Shadow") \cup {e}
       /\ \A x, k : (x # id \/ k # "Shadow") => Retained(t, x, k)' = Retained(t, x, k)
       /\ \A x, k : \A q \in Retained(t, x, k) : record'[t][q] = record[t][q]
    BY <1>2, <1>4, <1>5, RecordAdded
<1>11. evidence[t][id] \in Evidence /\ evidence'[t][id] \in Evidence
    BY <1>3, <1>4, ComparedFacts DEF TInv, Counted
<1>12. Counted(t)'
    <2>1. TargetRuns(t, id)' = TargetRuns(t, id) /\ Failures(t, id)' = Failures(t, id)
        <3>1. TargetRuns(t, id)' = TargetRuns(t, id)
            BY <1>2, <1>10 DEF TargetRuns
        <3>2. \A q \in TargetRuns(t, id) : record'[t][q] = record[t][q]
            BY <1>10 DEF TargetRuns
        <3>3. QED
            BY <3>1, <3>2 DEF Failures
    <2>2. /\ Equivalent(t, id)' = IF equivalent THEN Equivalent(t, id) \cup {e} ELSE Equivalent(t, id)
          /\ Inequivalent(t, id)' =
                 IF equivalent THEN Inequivalent(t, id) ELSE Inequivalent(t, id) \cup {e}
        <3>1. CASE equivalent
            <4>1. record'[t][e].equivalent
                BY <1>4, <1>5, <3>1, Zenon
            <4>2. Equivalent(t, id)' = Equivalent(t, id) \cup {e}
                BY <1>10, <4>1 DEF Equivalent
            <4>3. Inequivalent(t, id)' = Inequivalent(t, id)
                BY <1>10, <4>1 DEF Inequivalent
            <4>4. QED
                BY <3>1, <4>2, <4>3
        <3>2. CASE ~equivalent
            BY <1>4, <1>5, <1>10, <3>2 DEF Equivalent, Inequivalent
        <3>3. QED
            BY <3>1, <3>2
    <2>3. /\ Cardinality(Equivalent(t, id) \cup {e}) = Cardinality(Equivalent(t, id)) + 1
          /\ Cardinality(Inequivalent(t, id) \cup {e}) = Cardinality(Inequivalent(t, id)) + 1
        <3>1. PICK A, B : A = Equivalent(t, id) /\ B = Inequivalent(t, id)
            OBVIOUS
        <3>2. A \in SUBSET EvidenceIds /\ B \in SUBSET EvidenceIds /\ e \notin A /\ e \notin B
            BY <1>10, <3>1 DEF Equivalent, Inequivalent
        <3>3. QED
            BY <3>1, <3>2, OneMore
    <2>4. /\ evidence'[t][id].observations = Cardinality(TargetRuns(t, id)')
          /\ evidence'[t][id].failures = Cardinality(Failures(t, id)')
          /\ evidence'[t][id].equivalent = Cardinality(Equivalent(t, id)')
          /\ evidence'[t][id].inequivalent = Cardinality(Inequivalent(t, id)')
        <3>1. /\ evidence[t][id].observations = Cardinality(TargetRuns(t, id))
              /\ evidence[t][id].failures = Cardinality(Failures(t, id))
              /\ evidence[t][id].equivalent = Cardinality(Equivalent(t, id))
              /\ evidence[t][id].inequivalent = Cardinality(Inequivalent(t, id))
            BY <1>3 DEF TInv, Counted
        <3>2. PICK ev \in Evidence : ev = evidence[t][id]
            BY <1>11
        <3>3. CASE equivalent
            <4>1. /\ Compared(ev, equivalent).observations = ev.observations
                  /\ Compared(ev, equivalent).failures = ev.failures
                  /\ Compared(ev, equivalent).equivalent = ev.equivalent + 1
                  /\ Compared(ev, equivalent).inequivalent = ev.inequivalent
                BY <3>3, ComparedFacts
            <4>2. Equivalent(t, id)' = Equivalent(t, id) \cup {e} /\ Inequivalent(t, id)' = Inequivalent(t, id)
                BY <2>2, <3>3
            <4>3. QED
                BY <1>4, <2>1, <2>3, <3>1, <3>2, <4>1, <4>2
        <3>4. CASE ~equivalent
            BY <1>4, <2>1, <2>2, <2>3, <3>1, <3>2, <3>4, ComparedFacts
        <3>5. QED
            BY <3>3, <3>4
    <2>5. ASSUME NEW x \in DOMAIN decisions[t], x # id
          PROVE  /\ TargetRuns(t, x)' = TargetRuns(t, x) /\ Failures(t, x)' = Failures(t, x)
                 /\ Equivalent(t, x)' = Equivalent(t, x) /\ Inequivalent(t, x)' = Inequivalent(t, x)
        BY <1>2, <1>10, <2>5, SameCounts
    <2>6. \A q \in EvidenceIds : record'[t][q] # None => record'[t][q].decision \in DOMAIN decisions'[t]
        BY <1>2, <1>3, <1>4, <1>5 DEF TInv, Counted
    <2>7. ASSUME NEW x \in DOMAIN decisions'[t]
          PROVE  /\ evidence'[t][x] \in Evidence
                 /\ evidence'[t][x].observations = Cardinality(TargetRuns(t, x)')
                 /\ evidence'[t][x].failures = Cardinality(Failures(t, x)')
                 /\ evidence'[t][x].equivalent = Cardinality(Equivalent(t, x)')
                 /\ evidence'[t][x].inequivalent = Cardinality(Inequivalent(t, x)')
        <3>1. CASE x = id
            BY <1>11, <2>4, <3>1
        <3>2. CASE x # id
            BY <1>2, <1>3, <1>4, <2>5, <3>2 DEF TInv, Counted
        <3>3. QED
            BY <3>1, <3>2
    <2>8. QED
        BY <2>6, <2>7 DEF Counted
<1>13. Ended(t)'
    <2>1. ASSUME NEW x \in DOMAIN transition[t], NEW f \in Fields
          PROVE  evidence[t][x][f] <= evidence'[t][x][f]
        <3>1. x \in DOMAIN decisions[t]
            BY <1>3 DEF TInv, Shaped
        <3>2. PICK ev \in Evidence : ev = evidence[t][x]
            BY <1>3, <3>1 DEF TInv, Counted
        <3>3. CASE x = id
            BY <1>4, <3>2, <3>3 DEF Compared, Evidence, Fields
        <3>4. CASE x # id
            BY <1>4, <3>1, <3>2, <3>4, FieldsAreNat
        <3>5. QED
            BY <3>3, <3>4
    <2>2. QED
        BY <1>2, <1>3, <1>12, <2>1, GrowingEnded DEF TInv
<1>14. TInv(t)' /\ Keeps(t)
    <2>1. TInv(t)'
        BY <1>7, <1>8, <1>9, <1>12, <1>13 DEF TInv
    <2>2. Kept(record[t], record'[t])
        BY <1>2, <1>3, <1>4 DEF Kept, TInv, Shaped
    <2>3. QED
        BY <1>2, <1>3, <2>1, <2>2, KeepsFacts, KeptSame
<1>15. QED
    BY <1>1, <1>6, <1>14, OneTemplate

LEMMA ObserveStep ==
    ASSUME Inv, NEW t \in Templates, NEW e \in EvidenceIds, NEW o \in Occurrences,
           NEW failed \in BOOLEAN, Observe(t, e, o, failed)
    PROVE  Inv' /\ SequencesKept /\ \A u \in Templates : Keeps(u)
<1>1. Framed' /\ Registry' /\ LinksFollowHeads' /\ SequencesKept
    <2>1. Framed'
        BY DEF Inv, Framed, Observe
    <2>2. QED
        BY <2>1, SameLinks DEF Inv, Observe
<1>2. /\ record[t][e] = None /\ pin[t][o] # None
      /\ UNCHANGED <<linked, plans, edges, decisions, current, transition, pin, run, migration>>
    BY DEF Observe
<1>3. TInv(t) /\ Grows(t)
    BY <1>2 DEF Inv, Grows
<1>4. PICK id, plan : id = pin[t][o].decision /\ plan = pin[t][o].plan
    OBVIOUS
<1>5. id \in DOMAIN decisions[t]
    BY <1>2, <1>3, <1>4 DEF TInv, Pinned
<1> DEFINE R == [kind |-> "Observation", decision |-> id, occurrence |-> o, plan |-> plan,
                 failed |-> failed]
<1>6. /\ DOMAIN record'[t] = EvidenceIds /\ record'[t][e] = R
      /\ \A q \in EvidenceIds \ {e} : record'[t][q] = record[t][q]
      /\ \A u \in Templates \ {t} : record'[u] = record[u]
    BY <1>3, <1>4 DEF Inv, Framed, TInv, Shaped, Observe
<1>7. /\ \A u \in Templates \ {t} : evidence'[u] = evidence[u]
      /\ DOMAIN evidence'[t] = DOMAIN decisions[t]
      /\ \A x \in DOMAIN decisions[t] \ {id} : evidence'[t][x] = evidence[t][x]
      /\ plan # decisions[t][id].target => evidence'[t][id] = evidence[t][id]
      /\ plan = decisions[t][id].target => evidence'[t][id] = Observed(evidence[t][id], failed)
    <2>1. CASE plan # decisions[t][id].target
        <3>1. evidence' = evidence
            BY <1>4, <2>1 DEF Observe
        <3>2. QED
            BY <1>3, <2>1, <3>1 DEF TInv, Shaped
    <2>2. CASE plan = decisions[t][id].target
        <3>1. evidence' = [evidence EXCEPT ![t][id] = Observed(@, failed)]
            BY <1>4, <2>2 DEF Observe
        <3>2. QED
            BY <1>3, <1>5, <2>2, <3>1 DEF Inv, Framed, TInv, Shaped
    <2>3. QED
        BY <2>1, <2>2
<1>8. R # None /\ R.decision = id /\ R.kind = "Observation" /\ R.plan = plan /\ R.failed = failed
    BY NotNone
<1> HIDE DEF R
<1>9. \A u \in Templates \ {t} : Fixed(u)
    BY <1>2, <1>6, <1>7 DEF Fixed
<1>10. Shaped(t)'
    BY <1>2, <1>3, <1>6, <1>7 DEF TInv, Shaped
<1>11. Decided(t)'
    <2>1. \A a, b : Reaches(t, a, b)' <=> Reaches(t, a, b)
        BY <1>2, FixedReaches
    <2>2. QED
        BY <1>2, <1>3, <2>1 DEF TInv, Decided
<1>12. Pinned(t)'
    BY <1>2, <1>3, GrowingPins DEF TInv
<1>13. /\ \A x, k : e \notin Retained(t, x, k) /\ Retained(t, x, k) \subseteq EvidenceIds
       /\ Retained(t, id, "Observation")' = Retained(t, id, "Observation") \cup {e}
       /\ \A x, k : (x # id \/ k # "Observation") => Retained(t, x, k)' = Retained(t, x, k)
       /\ \A x, k : \A q \in Retained(t, x, k) : record'[t][q] = record[t][q]
    BY <1>2, <1>6, <1>8, RecordAdded, SMTT(60)
<1>14. evidence[t][id] \in Evidence /\ evidence'[t][id] \in Evidence
    BY <1>3, <1>5, <1>7, ObservedFacts DEF TInv, Counted
<1>15. Counted(t)'
    <2>1. Equivalent(t, id)' = Equivalent(t, id) /\ Inequivalent(t, id)' = Inequivalent(t, id)
        BY <1>13 DEF Equivalent, Inequivalent
    <2>2. \A q \in TargetRuns(t, id) : q # e /\ record'[t][q] = record[t][q]
        BY <1>13 DEF TargetRuns
    <2>3. /\ evidence[t][id].observations = Cardinality(TargetRuns(t, id))
          /\ evidence[t][id].failures = Cardinality(Failures(t, id))
          /\ evidence[t][id].equivalent = Cardinality(Equivalent(t, id))
          /\ evidence[t][id].inequivalent = Cardinality(Inequivalent(t, id))
        BY <1>3, <1>5 DEF TInv, Counted
    <2>4. /\ evidence'[t][id].observations = Cardinality(TargetRuns(t, id)')
          /\ evidence'[t][id].failures = Cardinality(Failures(t, id)')
          /\ evidence'[t][id].equivalent = Cardinality(Equivalent(t, id)')
          /\ evidence'[t][id].inequivalent = Cardinality(Inequivalent(t, id)')
        <3>1. CASE plan # decisions[t][id].target
            <4>1. TargetRuns(t, id)' = TargetRuns(t, id)
                BY <1>2, <1>6, <1>8, <1>13, <3>1 DEF TargetRuns
            <4>2. Failures(t, id)' = Failures(t, id)
                BY <2>2, <4>1 DEF Failures
            <4>3. QED
                BY <1>7, <2>1, <2>3, <3>1, <4>1, <4>2
        <3>2. CASE plan = decisions[t][id].target
            <4>1. TargetRuns(t, id)' = TargetRuns(t, id) \cup {e}
                BY <1>2, <1>6, <1>8, <1>13, <3>2 DEF TargetRuns
            <4>2. Cardinality(TargetRuns(t, id) \cup {e}) = Cardinality(TargetRuns(t, id)) + 1
                <5>1. PICK A : A = TargetRuns(t, id)
                    OBVIOUS
                <5>2. A \in SUBSET EvidenceIds /\ e \notin A
                    BY <1>13, <5>1 DEF TargetRuns
                <5>3. QED
                    BY <5>1, <5>2, OneMore
            <4>3. Cardinality(Failures(t, id) \cup {e}) = Cardinality(Failures(t, id)) + 1
                <5>1. PICK A : A = Failures(t, id)
                    OBVIOUS
                <5>2. A \in SUBSET EvidenceIds /\ e \notin A
                    BY <1>13, <5>1 DEF Failures, TargetRuns
                <5>3. QED
                    BY <5>1, <5>2, OneMore
            <4>4. PICK ev \in Evidence : ev = evidence[t][id]
                BY <1>14
            <4>5. CASE failed
                <5>1. record'[t][e].failed
                    BY <1>6, <1>8, <4>5, Zenon
                <5>2. Failures(t, id)' = Failures(t, id) \cup {e}
                    BY <2>2, <4>1, <5>1 DEF Failures
                <5>3. /\ Observed(ev, failed).observations = ev.observations + 1
                      /\ Observed(ev, failed).failures = ev.failures + 1
                      /\ Observed(ev, failed).equivalent = ev.equivalent
                      /\ Observed(ev, failed).inequivalent = ev.inequivalent
                    BY <4>5, ObservedFacts
                <5>4. QED
                    BY <1>7, <2>1, <2>3, <3>2, <4>1, <4>2, <4>3, <4>4, <5>2, <5>3
            <4>6. CASE ~failed
                <5>1. ~record'[t][e].failed
                    BY <1>6, <1>8, <4>6
                <5>2. Failures(t, id)' = Failures(t, id)
                    BY <2>2, <4>1, <5>1 DEF Failures
                <5>3. /\ Observed(ev, failed).observations = ev.observations + 1
                      /\ Observed(ev, failed).failures = ev.failures
                      /\ Observed(ev, failed).equivalent = ev.equivalent
                      /\ Observed(ev, failed).inequivalent = ev.inequivalent
                    BY <4>6, ObservedFacts
                <5>4. QED
                    BY <1>7, <2>1, <2>3, <3>2, <4>1, <4>2, <4>4, <5>2, <5>3
            <4>7. QED
                BY <4>5, <4>6
        <3>3. QED
            BY <3>1, <3>2
    <2>5. ASSUME NEW x \in DOMAIN decisions[t], x # id
          PROVE  /\ TargetRuns(t, x)' = TargetRuns(t, x) /\ Failures(t, x)' = Failures(t, x)
                 /\ Equivalent(t, x)' = Equivalent(t, x) /\ Inequivalent(t, x)' = Inequivalent(t, x)
        BY <1>2, <1>13, <2>5, SameCounts
    <2>6. \A q \in EvidenceIds : record'[t][q] # None => record'[t][q].decision \in DOMAIN decisions'[t]
        BY <1>2, <1>3, <1>5, <1>6, <1>8 DEF TInv, Counted
    <2>7. ASSUME NEW x \in DOMAIN decisions'[t]
          PROVE  /\ evidence'[t][x] \in Evidence
                 /\ evidence'[t][x].observations = Cardinality(TargetRuns(t, x)')
                 /\ evidence'[t][x].failures = Cardinality(Failures(t, x)')
                 /\ evidence'[t][x].equivalent = Cardinality(Equivalent(t, x)')
                 /\ evidence'[t][x].inequivalent = Cardinality(Inequivalent(t, x)')
        <3>1. CASE x = id
            BY <1>14, <2>4, <3>1
        <3>2. CASE x # id
            BY <1>2, <1>3, <1>7, <2>5, <3>2 DEF TInv, Counted
        <3>3. QED
            BY <3>1, <3>2
    <2>8. QED
        BY <2>6, <2>7 DEF Counted
<1>16. Ended(t)'
    <2>1. ASSUME NEW x \in DOMAIN transition[t], NEW f \in Fields
          PROVE  evidence[t][x][f] <= evidence'[t][x][f]
        <3>1. x \in DOMAIN decisions[t]
            BY <1>3 DEF TInv, Shaped
        <3>2. PICK ev \in Evidence : ev = evidence[t][x]
            BY <1>3, <3>1 DEF TInv, Counted
        <3>3. CASE evidence'[t][x] = ev
            BY <3>2, <3>3, FieldsAreNat
        <3>4. CASE evidence'[t][x] = Observed(ev, failed)
            <4>1. PICK od : od = Observed(ev, failed)
                OBVIOUS
            <4>2. /\ od.observations = ev.observations + 1 /\ od.equivalent = ev.equivalent
                  /\ od.failures = IF failed THEN ev.failures + 1 ELSE ev.failures
                  /\ od.inequivalent = ev.inequivalent
                BY <4>1, ObservedFacts
            <4>3. /\ ev.observations \in Nat /\ ev.failures \in Nat /\ ev.equivalent \in Nat
                  /\ ev.inequivalent \in Nat
                BY DEF Evidence
            <4>4. ev[f] <= od[f]
                BY <4>2, <4>3 DEF Fields
            <4>5. QED
                BY <3>2, <3>4, <4>1, <4>4
        <3>5. QED
            BY <1>7, <3>1, <3>2, <3>3, <3>4
    <2>2. QED
        BY <1>2, <1>3, <1>15, <2>1, GrowingEnded DEF TInv
<1>17. TInv(t)' /\ Keeps(t)
    <2>1. TInv(t)'
        BY <1>10, <1>11, <1>12, <1>15, <1>16 DEF TInv
    <2>2. Kept(record[t], record'[t])
        BY <1>2, <1>3, <1>6 DEF Kept, TInv, Shaped
    <2>3. QED
        BY <1>2, <1>3, <2>1, <2>2, KeepsFacts, KeptSame
<1>18. QED
    BY <1>1, <1>9, <1>17, OneTemplate

LEMMA SetRolloutStep ==
    ASSUME Inv, NEW t \in Templates, NEW id, NEW d, DOMAIN d = {"fallback", "target", "mode"},
           SetRollout(t, id, d)
    PROVE  Inv' /\ SequencesKept /\ \A u \in Templates : Keeps(u)
<1>1. Framed' /\ Registry' /\ LinksFollowHeads' /\ SequencesKept
    <2>1. Framed'
        BY DEF Inv, Framed, SetRollout
    <2>2. QED
        BY <2>1, SameLinks DEF Inv, SetRollout
<1>2. /\ linked[t] # None /\ id \notin DOMAIN transition[t]
      /\ d.fallback \in plans[t] /\ d.target \in plans[t]
      /\ current'[t] = id /\ \A u \in Templates \ {t} : current'[u] = current[u]
      /\ UNCHANGED <<linked, plans, edges, transition, pin, run, record, migration>>
    BY DEF Inv, Framed, SetRollout, ValidDecision
<1>3. TInv(t)
    BY DEF Inv
<1>4. \A a, b : Reaches(t, a, b)' <=> Reaches(t, a, b)
    BY <1>2, FixedReaches
<1>5. CASE id \in DOMAIN decisions[t]
    <2>1. UNCHANGED <<decisions, evidence>>
        BY <1>5 DEF SetRollout
    <2>2. Grows(t) /\ \A u \in Templates \ {t} : Fixed(u)
        BY <1>2, <2>1 DEF Grows, Fixed
    <2>3. Shaped(t)' /\ Ended(t)'
        BY <1>2, <1>3, <2>1 DEF TInv, Shaped, Ended
    <2>4. Decided(t)'
        BY <1>2, <1>3, <1>4, <1>5, <2>1 DEF TInv, Decided
    <2>5. Pinned(t)' /\ Counted(t)'
        BY <1>2, <1>3, <2>1, <2>2, GrowingPins, SameCounted DEF TInv
    <2>6. TInv(t)'
        BY <2>3, <2>4, <2>5 DEF TInv
    <2>7. Keeps(t)
        BY <1>2, <2>2, <2>6, KeepsFacts, KeptSame
    <2>8. QED
        BY <1>1, <2>2, <2>6, <2>7, OneTemplate
<1>6. CASE id \notin DOMAIN decisions[t]
    <2>1. /\ Cardinality(DOMAIN decisions[t]) < MaxDecisions
          /\ decisions'[t] = Put(decisions[t], id, d)
          /\ evidence'[t] = Put(evidence[t], id, NoEvidence)
          /\ \A u \in Templates \ {t} : decisions'[u] = decisions[u] /\ evidence'[u] = evidence[u]
        BY <1>6 DEF Inv, Framed, SetRollout
    <2>2. \A u \in Templates \ {t} : Fixed(u)
        BY <1>2, <2>1 DEF Fixed
    <2>3. /\ Counted(t)'
          /\ DOMAIN decisions'[t] = DOMAIN decisions[t] \cup {id}
          /\ DOMAIN evidence'[t] = DOMAIN decisions'[t] /\ decisions'[t][id] = d
          /\ \A x \in DOMAIN decisions[t] :
                 decisions'[t][x] = decisions[t][x] /\ evidence'[t][x] = evidence[t][x]
          /\ \A x \in DOMAIN decisions[t] : \A f \in Fields : evidence[t][x][f] <= evidence'[t][x][f]
          /\ IsFiniteSet(DOMAIN decisions'[t]) /\ Cardinality(DOMAIN decisions'[t]) <= MaxDecisions
        <3>1. Shaped(t) /\ Counted(t) /\ record'[t] = record[t]
            BY <1>2, <1>3 DEF TInv
        <3>2. QED
            BY <1>6, <2>1, <3>1, DecisionMade, Zenon
    <2>4. Grows(t)
        BY <1>2, <2>3 DEF Grows
    <2>5. Shaped(t)'
        BY <1>2, <1>3, <2>3 DEF TInv, Shaped
    <2>6. Decided(t)'
        <3>1. PICK p \in plans[t] : /\ InitialId(p) \in DOMAIN decisions[t]
                                    /\ \A q \in plans[t] : Reaches(t, p, q)
            BY <1>2, <1>3 DEF TInv, Decided
        <3>2. \A x \in DOMAIN decisions'[t] :
                  /\ decisions'[t][x].fallback \in plans'[t] /\ decisions'[t][x].target \in plans'[t]
                  /\ DOMAIN decisions'[t][x] = {"fallback", "target", "mode"}
            BY <1>2, <1>3, <2>3 DEF TInv, Decided
        <3>3. QED
            BY <1>2, <1>3, <1>4, <2>3, <3>1, <3>2 DEF TInv, Decided
    <2>7. Ended(t)'
        BY <1>2, <1>3, <2>3, <2>4, GrowingEnded DEF TInv, Shaped
    <2>8. Pinned(t)'
        BY <1>2, <1>3, <2>4, GrowingPins DEF TInv
    <2>9. TInv(t)'
        BY <2>3, <2>5, <2>6, <2>7, <2>8 DEF TInv
    <2>10. Keeps(t)
        BY <1>2, <2>4, <2>9, KeepsFacts, KeptSame
    <2>11. QED
        BY <1>1, <2>2, <2>9, <2>10, OneTemplate
<1>7. QED
    BY <1>5, <1>6

LEMMA ApplyGateStep ==
    ASSUME Inv, NEW t \in Templates, NEW g \in Gates, NEW next \in Names, ApplyGate(t, g, next)
    PROVE  Inv' /\ SequencesKept /\ \A u \in Templates : Keeps(u)
<1>1. Framed' /\ Registry' /\ LinksFollowHeads' /\ SequencesKept
    <2>1. Framed'
        BY DEF Inv, Framed, ApplyGate
    <2>2. QED
        BY <2>1, SameLinks DEF Inv, ApplyGate
<1>2. PICK id, seen, outcome, d : /\ id = current[t] /\ seen = evidence[t][id]
                                  /\ outcome = Outcome(g, seen)
                                  /\ d = [decisions[t][id] EXCEPT !.mode = outcome]
    OBVIOUS
<1> DEFINE x0 == [to |-> next, gate |-> g, seen |-> seen]
<1>3. /\ linked[t] # None /\ id \notin DOMAIN transition[t] /\ next \notin DOMAIN decisions[t]
      /\ Cardinality(DOMAIN decisions[t]) < MaxDecisions
      /\ transition'[t] = Put(transition[t], id, x0)
      /\ decisions'[t] = Put(decisions[t], next, d)
      /\ evidence'[t] = Put(evidence[t], next, NoEvidence)
      /\ current'[t] = next
    BY <1>2 DEF Inv, Framed, ApplyGate
<1>4. /\ \A u \in Templates \ {t} : /\ transition'[u] = transition[u] /\ decisions'[u] = decisions[u]
                                    /\ evidence'[u] = evidence[u] /\ current'[u] = current[u]
      /\ UNCHANGED <<linked, plans, edges, pin, run, record, migration>>
    BY DEF Inv, Framed, ApplyGate
<1>5. \A u \in Templates \ {t} : Fixed(u)
    BY <1>4 DEF Fixed
<1>6. TInv(t) /\ id \in DOMAIN decisions[t]
    BY <1>2, <1>3 DEF Inv, TInv, Decided
<1>7. /\ Counted(t)'
      /\ DOMAIN decisions'[t] = DOMAIN decisions[t] \cup {next}
      /\ DOMAIN evidence'[t] = DOMAIN decisions'[t] /\ decisions'[t][next] = d
      /\ \A x \in DOMAIN decisions[t] :
             decisions'[t][x] = decisions[t][x] /\ evidence'[t][x] = evidence[t][x]
      /\ \A x \in DOMAIN decisions[t] : \A f \in Fields : evidence[t][x][f] <= evidence'[t][x][f]
      /\ IsFiniteSet(DOMAIN decisions'[t]) /\ Cardinality(DOMAIN decisions'[t]) <= MaxDecisions
    <2>1. Shaped(t) /\ Counted(t) /\ record'[t] = record[t]
        BY <1>4, <1>6 DEF TInv
    <2>2. /\ next \notin DOMAIN decisions[t] /\ Cardinality(DOMAIN decisions[t]) < MaxDecisions
          /\ decisions'[t] = Put(decisions[t], next, d)
          /\ evidence'[t] = Put(evidence[t], next, NoEvidence)
        BY <1>3
    <2>3. QED
        BY <2>1, <2>2, DecisionMade, Zenon
<1>8. x0.to = next /\ x0.gate = g /\ x0.seen = seen
    OBVIOUS
<1> HIDE DEF x0
<1>9. /\ DOMAIN transition'[t] = DOMAIN transition[t] \cup {id} /\ transition'[t][id] = x0
      /\ \A x \in DOMAIN transition[t] : transition'[t][x] = transition[t][x]
    BY <1>3 DEF Put
<1>10. Grows(t)
    BY <1>4, <1>7 DEF Grows
<1>11. Shaped(t)'
    BY <1>3, <1>4, <1>6, <1>7, <1>9 DEF TInv, Shaped
<1>12. Decided(t)'
    <2>1. PICK p \in plans[t] : /\ InitialId(p) \in DOMAIN decisions[t]
                                /\ \A q \in plans[t] : Reaches(t, p, q)
        BY <1>3, <1>6 DEF TInv, Decided
    <2>2. d.fallback \in plans[t] /\ d.target \in plans[t] /\ DOMAIN d = {"fallback", "target", "mode"}
        BY <1>2, <1>6 DEF TInv, Decided
    <2>3. \A x \in DOMAIN decisions'[t] :
              /\ decisions'[t][x].fallback \in plans'[t] /\ decisions'[t][x].target \in plans'[t]
              /\ DOMAIN decisions'[t][x] = {"fallback", "target", "mode"}
        BY <1>4, <1>6, <1>7, <2>2 DEF TInv, Decided
    <2>4. \A a, b : Reaches(t, a, b)' <=> Reaches(t, a, b)
        BY <1>4, FixedReaches
    <2>5. current'[t] \in DOMAIN decisions'[t] \ DOMAIN transition'[t]
        BY <1>3, <1>6, <1>7, <1>9 DEF TInv, Shaped
    <2>6. QED
        BY <1>4, <1>6, <1>7, <2>1, <2>3, <2>4, <2>5 DEF TInv, Decided
<1>13. Ended(t)'
    <2>1. \A x \in DOMAIN transition[t] :
              /\ transition[t][x].to \in DOMAIN decisions'[t]
              /\ decisions'[t][transition[t][x].to] = [decisions'[t][x] EXCEPT !.mode =
                     Outcome(transition[t][x].gate, transition[t][x].seen)]
              /\ transition[t][x].seen \in Evidence
              /\ \A f \in Fields : transition[t][x].seen[f] <= evidence'[t][x][f]
        BY <1>6, <1>7, <1>10, StillEnded DEF TInv, Shaped
    <2>2. /\ transition'[t][id].to \in DOMAIN decisions'[t]
          /\ decisions'[t][transition'[t][id].to] = [decisions'[t][id] EXCEPT !.mode =
                 Outcome(transition'[t][id].gate, transition'[t][id].seen)]
        BY <1>2, <1>6, <1>7, <1>8, <1>9
    <2>3. transition'[t][id].seen \in Evidence
        BY <1>2, <1>6, <1>8, <1>9 DEF TInv, Counted
    <2>4. \A f \in Fields : transition'[t][id].seen[f] <= evidence'[t][id][f]
        BY <1>2, <1>6, <1>7, <1>8, <1>9
    <2>5. QED
        BY <1>9, <2>1, <2>2, <2>3, <2>4 DEF Ended, Fields
<1>14. Pinned(t)'
    BY <1>4, <1>6, <1>10, GrowingPins DEF TInv
<1>15. TInv(t)'
    BY <1>7, <1>11, <1>12, <1>13, <1>14 DEF TInv
<1>16. Kept(transition[t], transition'[t])
    BY <1>9 DEF Kept
<1>17. Keeps(t)
    BY <1>4, <1>10, <1>15, <1>16, KeepsFacts, KeptSame
<1>18. QED
    BY <1>1, <1>5, <1>15, <1>17, OneTemplate

-----------------------------------------------------------------------------
(* Publication and registration. *)

LEMMA HeadsMoved ==
    ASSUME Registry, NEW r \in Revisions, MoveHeads(r)
    PROVE  /\ sequence' \in [Revisions -> Nat] /\ SequencesKept
           /\ sequence'[r] > 0 /\ \A q \in Revisions : sequence[q] > 0 => sequence'[q] > 0
           /\ head' \in [Refs -> Revisions \cup {None}]
           /\ compatible' \in [Refs -> [Contracts -> Revisions \cup {None}]]
           /\ RefOf[r] \in Refs /\ Contract[r] \in Contracts
           /\ head'[RefOf[r]] = r /\ compatible'[RefOf[r]][Contract[r]] = r
           /\ \A l \in Refs \ {RefOf[r]} : head'[l] = head[l] /\ compatible'[l] = compatible[l]
           /\ \A c \in Contracts \ {Contract[r]} :
                  compatible'[RefOf[r]][c] = compatible[RefOf[r]][c]
<1>1. RefOf[r] \in Refs /\ Contract[r] \in Contracts
    BY DEF Refs, Contracts
<1>2. /\ head' = [head EXCEPT ![RefOf[r]] = r]
      /\ compatible' = [compatible EXCEPT ![RefOf[r]][Contract[r]] = r]
      /\ sequence' = [sequence EXCEPT ![r] = IF @ = 0 THEN MaxSequence(RefOf[r]) + 1 ELSE @]
    BY DEF MoveHeads
<1>3. MaxSequence(RefOf[r]) \in Nat
    <2>1. PICK S : S = {q \in Revisions : RefOf[q] = RefOf[r] /\ sequence[q] > 0}
        OBVIOUS
    <2>2. S \subseteq Revisions
        BY <2>1
    <2>3. Cardinality(S) \in Nat
        BY <2>2, ConstantsAssumption, FS_Subset, FS_CardinalityType
    <2>4. QED
        BY <2>1, <2>3 DEF MaxSequence
<1>4. /\ sequence' \in [Revisions -> Nat] /\ sequence'[r] > 0
      /\ \A q \in Revisions : sequence[q] > 0 => sequence'[q] = sequence[q]
    BY <1>2, <1>3 DEF Registry
<1>5. SequencesKept /\ \A q \in Revisions : sequence[q] > 0 => sequence'[q] > 0
    BY <1>4 DEF SequencesKept
<1>6. /\ head' \in [Refs -> Revisions \cup {None}] /\ head'[RefOf[r]] = r
      /\ \A l \in Refs \ {RefOf[r]} : head'[l] = head[l]
    BY <1>1, <1>2 DEF Registry
<1>7. /\ compatible' \in [Refs -> [Contracts -> Revisions \cup {None}]]
      /\ compatible'[RefOf[r]][Contract[r]] = r
      /\ \A l \in Refs \ {RefOf[r]} : compatible'[l] = compatible[l]
      /\ \A c \in Contracts \ {Contract[r]} : compatible'[RefOf[r]][c] = compatible[RefOf[r]][c]
    BY <1>1, <1>2 DEF Registry
<1>8. QED
    BY <1>1, <1>4, <1>5, <1>6, <1>7

\* The conjuncts of LinksFollowHeads.
HeadsCompatible ==
    \A l \in Refs : head[l] # None => compatible[l][Contract[head[l]]] = head[l]

CompatiblePublished ==
    \A l \in Refs, c \in Contracts : compatible[l][c] # None =>
        /\ RefOf[compatible[l][c]] = l /\ Contract[compatible[l][c]] = c
        /\ sequence[compatible[l][c]] > 0

DependentsExact ==
    \A l \in Refs : dependents[l] = {t \in Registered : Follows[t] = l /\ PinnedTo[t] = None}

LinkOf(t) ==
    IF PinnedTo[t] # None THEN linked[t] = PinnedTo[t]
    ELSE \/ linked[t] = compatible[Follows[t]][Wants[t]]
         \/ ~Compatible(PlanOf[t][linked[t]], PlanOf[t][compatible[Follows[t]][Wants[t]]])

LEMMA LinksParts ==
    LinksFollowHeads <=> /\ HeadsCompatible /\ CompatiblePublished /\ DependentsExact
                         /\ \A t \in Registered : LinkOf(t)
BY DEF LinksFollowHeads, HeadsCompatible, CompatiblePublished, DependentsExact, LinkOf

LEMMA LinksPartsNext ==
    ASSUME HeadsCompatible', CompatiblePublished', DependentsExact', \A t \in Registered' : LinkOf(t)'
    PROVE  LinksFollowHeads'
BY DEF LinksFollowHeads, HeadsCompatible, CompatiblePublished, DependentsExact, LinkOf

LEMMA HeadsMovedLinks ==
    ASSUME Registry, LinksFollowHeads, NEW r \in Revisions, MoveHeads(r)
    PROVE  HeadsCompatible' /\ CompatiblePublished'
<1>1. HeadsCompatible /\ CompatiblePublished
    BY LinksParts
<1>2. HeadsCompatible'
    <2>1. ASSUME NEW l \in Refs, head'[l] # None
          PROVE  compatible'[l][Contract[head'[l]]] = head'[l]
        BY <1>1, <2>1, HeadsMoved DEF HeadsCompatible
    <2>2. QED
        BY <2>1 DEF HeadsCompatible
<1>3. CompatiblePublished'
    <2>1. ASSUME NEW l \in Refs, NEW c \in Contracts, compatible'[l][c] # None
          PROVE  /\ RefOf[compatible'[l][c]] = l /\ Contract[compatible'[l][c]] = c
                 /\ sequence'[compatible'[l][c]] > 0
        <3>1. CASE l = RefOf[r] /\ c = Contract[r]
            BY <3>1, HeadsMoved
        <3>2. CASE l # RefOf[r] \/ c # Contract[r]
            <4>1. compatible'[l][c] = compatible[l][c] /\ compatible[l][c] \in Revisions
                BY <2>1, <3>2, HeadsMoved DEF Registry
            <4>2. QED
                BY <1>1, <2>1, <4>1, HeadsMoved DEF CompatiblePublished
        <3>3. QED
            BY <3>1, <3>2
    <2>2. QED
        BY <2>1 DEF CompatiblePublished
<1>4. QED
    BY <1>2, <1>3

LEMMA PublishDefinitionStep ==
    ASSUME Inv, NEW r \in Revisions, PublishDefinition(r)
    PROVE  Inv' /\ SequencesKept /\ \A u \in Templates : Keeps(u)
<1>1. /\ dependents[RefOf[r]] = {} /\ MoveHeads(r)
      /\ UNCHANGED <<dependents, linked, plans, edges, decisions, current, evidence, transition, pin,
                     run, record, migration>>
    BY DEF PublishDefinition, rollout
<1>2. Framed' /\ Registry' /\ SequencesKept
    BY <1>1, HeadsMoved DEF Inv, Framed, Registry
<1>3. \A u \in Templates : TInv(u)' /\ Keeps(u)
    BY <1>1, FixedStep DEF Inv, Fixed
<1>4. Registered' = Registered
    BY <1>1 DEF Registered
<1>5. LinksFollowHeads'
    <2>1. /\ DependentsExact /\ \A t \in Registered : LinkOf(t)
          /\ Follows \in [Templates -> Refs] /\ Wants \in [Templates -> Contracts]
        BY LinksParts, ConstantsAssumption DEF Inv
    <2>2. DependentsExact'
        BY <1>1, <1>4, <2>1 DEF DependentsExact
    <2>3. ASSUME NEW t \in Registered PROVE LinkOf(t)'
        <3>1. CASE PinnedTo[t] # None
            BY <1>1, <2>1, <3>1 DEF LinkOf
        <3>2. CASE PinnedTo[t] = None
            <4>1. t \in Templates /\ t \in dependents[Follows[t]]
                BY <2>1, <3>2 DEF DependentsExact, Registered
            <4>2. Follows[t] \in Refs /\ Follows[t] # RefOf[r]
                BY <1>1, <2>1, <4>1
            <4>3. compatible'[Follows[t]] = compatible[Follows[t]]
                BY <1>1, <4>2, HeadsMoved DEF Inv
            <4>4. QED
                BY <1>1, <2>1, <3>2, <4>3 DEF LinkOf
        <3>3. QED
            BY <3>1, <3>2
    <2>4. QED
        BY <1>1, <1>4, <2>2, <2>3, HeadsMovedLinks, LinksPartsNext DEF Inv
<1>6. QED
    BY <1>2, <1>3, <1>5 DEF Inv

LEMMA RegisterTemplateStep ==
    ASSUME Inv, NEW t \in Templates, RegisterTemplate(t)
    PROVE  Inv' /\ SequencesKept /\ \A u \in Templates : Keeps(u)
<1>1. PICK r, p, id, d : /\ r = Resolve(t) /\ p = PlanOf[t][r] /\ id = InitialId(p)
                         /\ d = [fallback |-> p, target |-> p, mode |-> "Active"]
    OBVIOUS
<1>2. /\ linked[t] = None /\ r # None /\ linked' = [linked EXCEPT ![t] = r]
      /\ plans' = [plans EXCEPT ![t] = {p}]
      /\ decisions' = [decisions EXCEPT ![t] = Put(@, id, d)]
      /\ evidence' = [evidence EXCEPT ![t] = Put(@, id, NoEvidence)]
      /\ current' = [current EXCEPT ![t] = id] /\ dependents' = WithDependent(t)
      /\ UNCHANGED <<sequence, head, compatible, edges, transition, pin, run, record, migration>>
    BY <1>1 DEF RegisterTemplate
<1>3. r \in Revisions /\ (PinnedTo[t] # None => r = PinnedTo[t])
      /\ (PinnedTo[t] = None => r = compatible[Follows[t]][Wants[t]])
    <2>1. /\ PinnedTo[t] \in Revisions \cup {None}
          /\ Follows[t] \in Refs /\ Wants[t] \in Contracts
        BY ConstantsAssumption
    <2>2. CASE PinnedTo[t] # None
        BY <1>1, <1>2, <2>1, <2>2, SMTT(60) DEF Resolve
    <2>3. CASE PinnedTo[t] = None
        BY <1>1, <1>2, <2>1, <2>3 DEF Inv, Registry, Resolve
    <2>4. QED
        BY <2>2, <2>3
<1>4. /\ linked'[t] = r /\ plans'[t] = {p} /\ decisions'[t] = Put(decisions[t], id, d)
      /\ evidence'[t] = Put(evidence[t], id, NoEvidence) /\ current'[t] = id
      /\ record'[t] = record[t] /\ edges'[t] = edges[t] /\ transition'[t] = transition[t]
      /\ pin'[t] = pin[t] /\ migration'[t] = migration[t]
    BY <1>2 DEF Inv, Framed, Registry
<1>5. \A u \in Templates \ {t} : Fixed(u)
    BY <1>2 DEF Inv, Framed, Registry, Fixed
<1>6. Framed' /\ Registry' /\ SequencesKept
    <2>1. Framed'
        BY <1>2 DEF Inv, Framed
    <2>2. Follows[t] \in Refs
        BY ConstantsAssumption
    <2>3. dependents' \in [Refs -> SUBSET Templates]
        BY <1>2, <2>2 DEF Inv, Registry, WithDependent
    <2>4. QED
        BY <1>2, <1>3, <2>1, <2>3 DEF Inv, Registry, SequencesKept
<1>7. /\ TInv(t) /\ DOMAIN decisions[t] = {} /\ plans[t] = {} /\ edges[t] = {}
      /\ DOMAIN transition[t] = {}
    BY <1>2 DEF Inv, TInv, Shaped
<1>8. TInv(t)' /\ Keeps(t)
    <2>1. /\ id \notin DOMAIN decisions[t] /\ Cardinality(DOMAIN decisions[t]) < MaxDecisions
          /\ Shaped(t) /\ Counted(t)
        <3>1. Cardinality({}) = 0
            BY FS_EmptySet
        <3>2. QED
            BY <1>7, <3>1, ConstantsAssumption DEF TInv
    <2>2. /\ Counted(t)'
          /\ DOMAIN decisions'[t] = DOMAIN decisions[t] \cup {id}
          /\ DOMAIN evidence'[t] = DOMAIN decisions'[t] /\ decisions'[t][id] = d
          /\ \A x \in DOMAIN decisions[t] :
                 decisions'[t][x] = decisions[t][x] /\ evidence'[t][x] = evidence[t][x]
          /\ \A x \in DOMAIN decisions[t] : \A f \in Fields : evidence[t][x][f] <= evidence'[t][x][f]
          /\ IsFiniteSet(DOMAIN decisions'[t]) /\ Cardinality(DOMAIN decisions'[t]) <= MaxDecisions
        <3>1. /\ decisions'[t] = Put(decisions[t], id, d) /\ record'[t] = record[t]
              /\ evidence'[t] = Put(evidence[t], id, NoEvidence)
            BY <1>4
        <3>2. QED
            BY <2>1, <3>1, DecisionMade, Zenon
    <2>3. Grows(t)
        BY <1>4, <1>7 DEF Grows
    <2>4. Shaped(t)'
        <3>1. p \in Plans
            BY <1>1, <1>3, PlanInPlans
        <3>2. linked'[t] # None
            BY <1>2, <1>4
        <3>3. QED
            BY <1>4, <1>7, <2>2, <3>1, <3>2 DEF TInv, Shaped
    <2>5. Decided(t)'
        <3>1. PlanOf[t][linked'[t]] = p
            BY <1>1, <1>4
        <3>2. InitialId(p) \in DOMAIN decisions'[t]
            BY <1>1, <2>2
        <3>3. Reaches(t, p, p)'
            BY DEF Reaches
        <3>4. \A x \in DOMAIN decisions'[t] :
                  /\ decisions'[t][x].fallback \in plans'[t] /\ decisions'[t][x].target \in plans'[t]
                  /\ DOMAIN decisions'[t][x] = {"fallback", "target", "mode"}
            BY <1>1, <1>4, <1>7, <2>2
        <3>5. current'[t] \in DOMAIN decisions'[t] \ DOMAIN transition'[t]
            BY <1>4, <1>7, <2>2
        <3>6. p \in plans'[t] /\ \A q \in plans'[t] : Reaches(t, p, q)'
            BY <1>4, <3>3
        <3>7. QED
            BY <3>1, <3>2, <3>4, <3>5, <3>6 DEF Decided
    <2>6. Ended(t)'
        BY <1>4, <1>7 DEF Ended
    <2>7. Pinned(t)'
        BY <1>4, <1>7, <2>3, GrowingPins DEF TInv
    <2>8. TInv(t)'
        BY <2>2, <2>4, <2>5, <2>6, <2>7 DEF TInv
    <2>9. QED
        BY <1>4, <2>3, <2>8, KeepsFacts, KeptSame
<1>9. LinksFollowHeads'
    <2>1. /\ HeadsCompatible /\ CompatiblePublished /\ DependentsExact
          /\ \A u \in Registered : LinkOf(u)
        BY LinksParts DEF Inv
    <2>2. Registered' = Registered \cup {t} /\ t \notin Registered
        BY <1>2 DEF Inv, Registry, Registered
    <2>3. HeadsCompatible' /\ CompatiblePublished'
        BY <1>2, <2>1 DEF HeadsCompatible, CompatiblePublished
    <2>4. DependentsExact'
        <3>1. ASSUME NEW l \in Refs
              PROVE  dependents'[l] = {u \in Registered' : Follows[u] = l /\ PinnedTo[u] = None}
            <4>1. dependents[l] = {u \in Registered : Follows[u] = l /\ PinnedTo[u] = None}
                BY <2>1 DEF DependentsExact
            <4>2. CASE PinnedTo[t] # None \/ Follows[t] # l
                <5>1. dependents'[l] = dependents[l]
                    BY <1>2, <4>2 DEF WithDependent, Inv, Registry
                <5>2. QED
                    BY <2>2, <4>1, <4>2, <5>1
            <4>3. CASE PinnedTo[t] = None /\ Follows[t] = l
                <5>1. dependents'[l] = dependents[l] \cup {t}
                    BY <1>2, <4>3 DEF WithDependent, Inv, Registry
                <5>2. QED
                    BY <2>2, <4>1, <4>3, <5>1
            <4>4. QED
                BY <4>2, <4>3
        <3>2. QED
            BY <3>1 DEF DependentsExact
    <2>5. ASSUME NEW u \in Registered' PROVE LinkOf(u)'
        <3>1. CASE u = t
            BY <1>2, <1>3, <1>4, <3>1 DEF LinkOf
        <3>2. CASE u # t
            <4>1. u \in Registered /\ u \in Templates
                BY <2>2, <3>2 DEF Registered
            <4>2. linked'[u] = linked[u]
                BY <1>5, <3>2, <4>1 DEF Fixed
            <4>3. QED
                BY <1>2, <2>1, <4>1, <4>2 DEF LinkOf
        <3>3. QED
            BY <3>1, <3>2
    <2>6. QED
        BY <2>3, <2>4, <2>5, LinksPartsNext
<1>10. QED
    BY <1>5, <1>6, <1>8, <1>9, OneTemplate

\* A link to other content that makes the same Plan.
LEMMA LinkMoved ==
    ASSUME NEW t, TInv(t), linked[t] # None, linked'[t] # None,
           PlanOf[t][linked'[t]] = PlanOf[t][linked[t]],
           plans'[t] = plans[t], edges'[t] = edges[t], decisions'[t] = decisions[t],
           current'[t] = current[t], evidence'[t] = evidence[t], transition'[t] = transition[t],
           pin'[t] = pin[t], record'[t] = record[t], migration'[t] = migration[t]
    PROVE  TInv(t)' /\ Keeps(t)
<1>1. Grows(t)
    BY DEF Grows
<1>2. Shaped(t)' /\ Ended(t)'
    BY ZenonT(60) DEF TInv, Shaped, Ended
<1>3. Decided(t)'
    <2>1. \A p, q : Reaches(t, p, q)' <=> Reaches(t, p, q)
        BY FixedReaches
    <2>2. QED
        BY <2>1 DEF TInv, Decided
<1>4. Pinned(t)' /\ Counted(t)'
    BY <1>1, GrowingPins, SameCounted DEF TInv
<1>5. TInv(t)'
    BY <1>2, <1>3, <1>4 DEF TInv
<1>6. QED
    BY <1>1, <1>5, KeepsFacts, KeptSame

\* What a publication does to a template that it advances.
LEMMA AdvancedStep ==
    ASSUME Inv, NEW r \in Revisions, NEW m \in PublishModes, PublishAndRelink(r, m),
           NEW t \in Templates, Advanced(r, t), linked[t] # None
    PROVE  TInv(t)' /\ Keeps(t)
<1>1. PICK id, d, from, to : /\ id = RelinkedId(r, t, m) /\ d = Relinked(r, t, m)
                             /\ from = PlanOf[t][linked[t]] /\ to = PlanOf[t][r]
    OBVIOUS
<1>2. /\ id \notin DOMAIN decisions[t] /\ Cardinality(DOMAIN decisions[t]) < MaxDecisions
      /\ decisions'[t] = Put(decisions[t], id, d)
      /\ evidence'[t] = Put(evidence[t], id, NoEvidence)
    BY <1>1 DEF PublishAndRelink
<1>3. /\ linked'[t] = r /\ plans'[t] = plans[t] \cup {to}
      /\ edges'[t] = edges[t] \cup {<<from, to>>} /\ current'[t] = id
    BY <1>1 DEF PublishAndRelink, Advanced, RelinkEdge
<1>4. /\ transition'[t] = transition[t] /\ pin'[t] = pin[t]
      /\ record'[t] = record[t] /\ migration'[t] = migration[t]
    BY DEF PublishAndRelink
<1>5. TInv(t) /\ from \in plans[t]
    BY <1>1 DEF Inv, TInv, Decided
<1>6. /\ Counted(t)'
      /\ DOMAIN decisions'[t] = DOMAIN decisions[t] \cup {id}
      /\ DOMAIN evidence'[t] = DOMAIN decisions'[t] /\ decisions'[t][id] = d
      /\ \A x \in DOMAIN decisions[t] :
             decisions'[t][x] = decisions[t][x] /\ evidence'[t][x] = evidence[t][x]
      /\ \A x \in DOMAIN decisions[t] : \A f \in Fields : evidence[t][x][f] <= evidence'[t][x][f]
      /\ IsFiniteSet(DOMAIN decisions'[t]) /\ Cardinality(DOMAIN decisions'[t]) <= MaxDecisions
    <2>1. Shaped(t) /\ Counted(t)
        BY <1>5 DEF TInv
    <2>2. QED
        BY <1>2, <1>4, <2>1, DecisionMade, Zenon
<1>7. Grows(t)
    BY <1>3, <1>6 DEF Grows
<1>8. Shaped(t)'
    <2>1. to \in Plans /\ r # None
        BY <1>1, PlanInPlans, ConstantsAssumption
    <2>2. plans'[t] \subseteq Plans /\ edges'[t] \subseteq plans'[t] \X plans'[t]
        BY <1>3, <1>5, <2>1 DEF TInv, Shaped
    <2>3. QED
        BY <1>3, <1>4, <1>5, <1>6, <2>1, <2>2 DEF TInv, Shaped
<1>9. Decided(t)'
    <2>1. PICK p \in plans[t] : /\ InitialId(p) \in DOMAIN decisions[t]
                                /\ \A q \in plans[t] : Reaches(t, p, q)
        BY <1>5 DEF TInv, Decided
    <2>2. \A q \in plans'[t] : Reaches(t, p, q)'
        BY <1>3, <1>5, <1>7, <2>1, PlanReached DEF TInv, Shaped
    <2>3. d.fallback \in plans[t] /\ d.target = to /\ DOMAIN d = {"fallback", "target", "mode"}
        <3>1. current[t] \in DOMAIN decisions[t]
            BY <1>5 DEF TInv, Decided
        <3>2. AuthoritativeFallback(decisions[t][current[t]]) \in plans[t]
            BY <1>5, <3>1 DEF TInv, Decided, AuthoritativeFallback
        <3>3. QED
            BY <1>1, <3>2 DEF Relinked
    <2>4. \A x \in DOMAIN decisions'[t] :
              /\ decisions'[t][x].fallback \in plans'[t] /\ decisions'[t][x].target \in plans'[t]
              /\ DOMAIN decisions'[t][x] = {"fallback", "target", "mode"}
        BY <1>3, <1>5, <1>6, <2>3 DEF TInv, Decided
    <2>5. current'[t] \in DOMAIN decisions'[t] \ DOMAIN transition'[t]
        BY <1>2, <1>3, <1>4, <1>5, <1>6 DEF TInv, Shaped
    <2>6. PlanOf[t][linked'[t]] \in plans'[t]
        BY <1>1, <1>3
    <2>7. p \in plans'[t] /\ InitialId(p) \in DOMAIN decisions'[t]
        BY <1>3, <1>6, <2>1
    <2>8. QED
        BY <2>2, <2>4, <2>5, <2>6, <2>7 DEF Decided
<1>10. Ended(t)'
    BY <1>4, <1>5, <1>6, <1>7, GrowingEnded DEF TInv, Shaped
<1>11. Pinned(t)'
    BY <1>4, <1>5, <1>7, GrowingPins DEF TInv
<1>12. TInv(t)'
    BY <1>6, <1>8, <1>9, <1>10, <1>11 DEF TInv
<1>13. QED
    BY <1>4, <1>7, <1>12, KeepsFacts, KeptSame

LEMMA PublishAndRelinkStep ==
    ASSUME Inv, NEW r \in Revisions, NEW m \in PublishModes, PublishAndRelink(r, m)
    PROVE  Inv' /\ SequencesKept /\ \A u \in Templates : Keeps(u)
<1>1. MoveHeads(r) /\ linked' = [t \in Templates |-> IF Admitted(r, t) THEN r ELSE linked[t]]
    BY DEF PublishAndRelink
<1>2. UNCHANGED <<dependents, transition, pin, run, record, migration>>
    BY DEF PublishAndRelink
<1>3. r # None
    BY ConstantsAssumption
<1>4. /\ HeadsCompatible /\ CompatiblePublished /\ DependentsExact
      /\ \A u \in Registered : LinkOf(u)
    BY LinksParts DEF Inv
<1>5. Framed' /\ Registry' /\ SequencesKept
    <2>1. Framed'
        BY DEF Inv, Framed, PublishAndRelink
    <2>2. linked' \in [Templates -> Revisions \cup {None}]
        BY <1>1 DEF Inv, Registry
    <2>3. QED
        BY <1>1, <1>2, <2>1, <2>2, HeadsMoved DEF Inv, Registry
<1>6. \A t \in Templates : Admitted(r, t) => t \in Registered /\ PinnedTo[t] = None /\ Follows[t] = RefOf[r]
    <2>1. RefOf[r] \in Refs
        BY DEF Refs
    <2>2. QED
        BY <1>4, <2>1 DEF Admitted, DependentsExact
<1>7. Registered' = Registered
    BY <1>1, <1>3, <1>6 DEF Registered
<1>8. ASSUME NEW t \in Templates PROVE TInv(t)' /\ Keeps(t)
    <2>1. CASE Advanced(r, t)
        <3>1. linked[t] # None
            BY <1>6, <2>1 DEF Advanced, Registered
        <3>2. QED
            BY <2>1, <3>1, AdvancedStep
    <2>2. CASE ~Advanced(r, t)
        <3>1. /\ plans'[t] = plans[t] /\ edges'[t] = edges[t] /\ decisions'[t] = decisions[t]
              /\ current'[t] = current[t] /\ evidence'[t] = evidence[t]
              /\ transition'[t] = transition[t] /\ pin'[t] = pin[t]
              /\ record'[t] = record[t] /\ migration'[t] = migration[t] /\ TInv(t)
            BY <1>2, <2>2 DEF PublishAndRelink, Inv
        <3>2. CASE Admitted(r, t)
            <4>1. /\ linked[t] # None /\ linked'[t] # None
                  /\ PlanOf[t][linked'[t]] = PlanOf[t][linked[t]]
                BY <1>1, <1>3, <1>6, <2>2, <3>2 DEF Advanced, Registered
            <4>2. QED
                BY <3>1, <4>1, LinkMoved
        <3>3. CASE ~Admitted(r, t)
            BY <1>1, <3>1, <3>3, FixedStep DEF Fixed
        <3>4. QED
            BY <3>2, <3>3
    <2>3. QED
        BY <2>1, <2>2
<1>9. LinksFollowHeads'
    <2>1. HeadsCompatible' /\ CompatiblePublished'
        BY <1>1, HeadsMovedLinks DEF Inv
    <2>2. DependentsExact'
        BY <1>2, <1>4, <1>7 DEF DependentsExact
    <2>3. ASSUME NEW t \in Registered PROVE LinkOf(t)'
        <3>1. t \in Templates /\ Follows[t] \in Refs /\ Wants[t] \in Contracts
            BY ConstantsAssumption DEF Registered
        <3>2. CASE Admitted(r, t)
            <4>1. PinnedTo[t] = None /\ Follows[t] = RefOf[r] /\ Wants[t] = Contract[r]
                BY <1>6, <3>1, <3>2 DEF Admitted
            <4>2. linked'[t] = r
                BY <1>1, <3>1, <3>2
            <4>3. compatible'[Follows[t]][Wants[t]] = r
                BY <1>1, <4>1, HeadsMoved DEF Inv
            <4>4. QED
                BY <4>1, <4>2, <4>3 DEF LinkOf
        <3>3. CASE ~Admitted(r, t)
            <4>1. linked'[t] = linked[t] /\ LinkOf(t)
                BY <1>1, <1>4, <3>1, <3>3
            <4>2. CASE PinnedTo[t] # None
                BY <4>1, <4>2 DEF LinkOf
            <4>3. CASE PinnedTo[t] = None /\ Follows[t] = RefOf[r] /\ Wants[t] = Contract[r]
                <5>1. t \in dependents[RefOf[r]]
                    BY <1>4, <3>1, <4>3 DEF DependentsExact
                <5>2. ~Compatible(PlanOf[t][linked[t]], PlanOf[t][r])
                    BY <3>3, <4>3, <5>1 DEF Admitted
                <5>3. compatible'[Follows[t]][Wants[t]] = r
                    BY <1>1, <4>3, HeadsMoved DEF Inv
                <5>4. QED
                    BY <4>1, <4>3, <5>2, <5>3 DEF LinkOf
            <4>4. CASE PinnedTo[t] = None /\ (Follows[t] # RefOf[r] \/ Wants[t] # Contract[r])
                <5>1. compatible'[Follows[t]][Wants[t]] = compatible[Follows[t]][Wants[t]]
                    BY <1>1, <3>1, <4>4, HeadsMoved DEF Inv
                <5>2. QED
                    BY <4>1, <4>4, <5>1 DEF LinkOf
            <4>5. QED
                BY <4>2, <4>3, <4>4
        <3>4. QED
            BY <3>2, <3>3
    <2>4. QED
        BY <1>7, <2>1, <2>2, <2>3, LinksPartsNext
<1>10. QED
    BY <1>5, <1>8, <1>9 DEF Inv

-----------------------------------------------------------------------------
(* The invariant. *)

LEMMA InitInv == ASSUME Init PROVE Inv
<1>1. Framed
    BY DEF Init, Framed
<1>2. Registry
    BY DEF Init, Registry
<1>3. LinksFollowHeads
    <2>1. Registered = {}
        BY DEF Init, Registered
    <2>2. \A l \in Refs, c \in Contracts : head[l] = None /\ compatible[l][c] = None /\ dependents[l] = {}
        BY DEF Init
    <2>3. \A l \in Refs : head[l] = None /\ dependents[l] = {}
        BY DEF Init
    <2>4. QED
        BY <2>1, <2>2, <2>3 DEF LinksFollowHeads
<1>4. ASSUME NEW t \in Templates PROVE TInv(t)
    <2>1. /\ linked[t] = None /\ plans[t] = {} /\ edges[t] = {} /\ decisions[t] = <<>>
          /\ evidence[t] = <<>> /\ transition[t] = <<>>
          /\ pin[t] = [o \in Occurrences |-> None]
          /\ record[t] = [e \in EvidenceIds |-> None] /\ migration[t] = [m \in Migrations |-> None]
        BY DEF Init
    <2>2. DOMAIN decisions[t] = {} /\ DOMAIN evidence[t] = {} /\ DOMAIN transition[t] = {}
        BY <2>1
    <2>3. IsFiniteSet({}) /\ Cardinality({}) = 0
        BY FS_EmptySet
    <2>4. Shaped(t)
        BY <2>1, <2>2, <2>3, ConstantsAssumption DEF Shaped
    <2>5. Decided(t) /\ Ended(t)
        BY <2>1, <2>2 DEF Decided, Ended
    <2>6. Pinned(t)
        BY <2>1 DEF Pinned
    <2>7. Counted(t)
        BY <2>1, <2>2 DEF Counted
    <2>8. QED
        BY <2>4, <2>5, <2>6, <2>7 DEF TInv
<1>5. QED
    BY <1>1, <1>2, <1>3, <1>4 DEF Inv

LEMMA ClientStepInv ==
    ASSUME Inv, NEW t \in Templates, ClientStep(t)
    PROVE  Inv' /\ SequencesKept /\ \A u \in Templates : Keeps(u)
<1>1. ASSUME NEW p \in plans[t], NEW q \in Patches, ApplyPatch(t, p, q)
      PROVE  Inv' /\ SequencesKept /\ \A u \in Templates : Keeps(u)
    BY <1>1, ApplyPatchStep
<1>2. ASSUME NEW id \in DOMAIN decisions[t], SetRollout(t, id, decisions[t][id])
      PROVE  Inv' /\ SequencesKept /\ \A u \in Templates : Keeps(u)
    <2>1. PICK d : d = decisions[t][id]
        OBVIOUS
    <2>2. SetRollout(t, id, d) /\ DOMAIN d = {"fallback", "target", "mode"}
        BY <1>2, <2>1 DEF Inv, TInv, Decided
    <2>3. QED
        BY <2>2, SetRolloutStep
<1>3. ASSUME NEW id \in Names, NEW p \in plans[t], NEW q \in plans[t], NEW m \in Modes,
             SetRollout(t, id, [fallback |-> p, target |-> q, mode |-> m])
      PROVE  Inv' /\ SequencesKept /\ \A u \in Templates : Keeps(u)
    <2>1. DOMAIN [fallback |-> p, target |-> q, mode |-> m] = {"fallback", "target", "mode"}
        OBVIOUS
    <2>2. PICK d : d = [fallback |-> p, target |-> q, mode |-> m]
        OBVIOUS
    <2>3. SetRollout(t, id, d) /\ DOMAIN d = {"fallback", "target", "mode"}
        BY <1>3, <2>1, <2>2
    <2>4. QED
        BY <2>3, SetRolloutStep
<1>4. ASSUME NEW o \in Occurrences, NEW s \in Selections, SelectOccurrence(t, o, s)
      PROVE  Inv' /\ SequencesKept /\ \A u \in Templates : Keeps(u)
    BY <1>4, SelectOccurrenceStep
<1>5. ASSUME NEW m \in Migrations, NEW q \in Runs, NEW p \in plans[t], Migrate(t, m, q, p)
      PROVE  Inv' /\ SequencesKept /\ \A u \in Templates : Keeps(u)
    BY <1>5, MigrateStep
<1>6. ASSUME NEW e \in EvidenceIds, NEW id \in DOMAIN decisions[t], NEW s \in Subjects,
             NEW b \in BOOLEAN, Shadow(t, e, id, s, b)
      PROVE  Inv' /\ SequencesKept /\ \A u \in Templates : Keeps(u)
    BY <1>6, ShadowStep
<1>7. ASSUME NEW e \in EvidenceIds, NEW o \in Occurrences, NEW b \in BOOLEAN, Observe(t, e, o, b)
      PROVE  Inv' /\ SequencesKept /\ \A u \in Templates : Keeps(u)
    BY <1>7, ObserveStep
<1>8. ASSUME NEW g \in Gates, NEW n \in Names, ApplyGate(t, g, n)
      PROVE  Inv' /\ SequencesKept /\ \A u \in Templates : Keeps(u)
    BY <1>8, ApplyGateStep
<1>9. CASE ClientRollout(t)
    BY <1>2, <1>3, <1>9 DEF ClientRollout
<1>10. QED
    BY <1>1, <1>4, <1>5, <1>6, <1>7, <1>8, <1>9 DEF ClientStep

LEMMA NextInv ==
    ASSUME Inv, [Next]_vars
    PROVE  Inv' /\ SequencesKept /\ \A u \in Templates : Keeps(u)
<1>1. ASSUME NEW r \in Revisions, PublishDefinition(r)
      PROVE  Inv' /\ SequencesKept /\ \A u \in Templates : Keeps(u)
    BY <1>1, PublishDefinitionStep
<1>2. ASSUME NEW r \in Revisions, NEW m \in PublishModes, PublishAndRelink(r, m)
      PROVE  Inv' /\ SequencesKept /\ \A u \in Templates : Keeps(u)
    BY <1>2, PublishAndRelinkStep
<1>3. ASSUME NEW t \in Templates, RegisterTemplate(t)
      PROVE  Inv' /\ SequencesKept /\ \A u \in Templates : Keeps(u)
    BY <1>3, RegisterTemplateStep
<1>4. ASSUME NEW t \in Driven, ClientStep(t)
      PROVE  Inv' /\ SequencesKept /\ \A u \in Templates : Keeps(u)
    <2>1. t \in Templates
        BY ConstantsAssumption
    <2>2. QED
        BY <1>4, <2>1, ClientStepInv
<1>5. CASE UNCHANGED vars
    <2>1. UNCHANGED <<registry, linked, plans, edges, decisions, current, evidence, transition, pin,
                      run, record, migration>>
        BY <1>5 DEF vars, rollout
    <2>2. Framed' /\ Registry' /\ LinksFollowHeads' /\ SequencesKept
        BY <2>1, SameLinks DEF Inv, Framed
    <2>3. \A u \in Templates : TInv(u)' /\ Keeps(u)
        BY <2>1, FixedStep DEF Inv, Fixed
    <2>4. QED
        BY <2>2, <2>3 DEF Inv
<1>6. QED
    BY <1>1, <1>2, <1>3, <1>4, <1>5 DEF Next

-----------------------------------------------------------------------------
(* The Runs that migrate. *)

\* A Run has come along edges and has lost Effects on its way, never gained
\* one; a receipt is of an edge that widens nothing.
Travelled ==
    /\ \A q \in Runs : /\ run[q].plan \in Plans /\ Joined(First[q], run[q].plan)
                       /\ Effects[run[q].plan] \subseteq Effects[First[q]]
    /\ DOMAIN run = Runs
    /\ \A t \in Templates, m \in Migrations : migration[t][m] # None =>
           /\ <<migration[t][m].from, migration[t][m].to>> \in edges[t]
           /\ NoWidening(migration[t][m].from, migration[t][m].to)

LEMMA JoinedEdge ==
    ASSUME NEW p, NEW q, NEW r, NEW t \in Templates, Joined(p, q), <<q, r>> \in edges[t]
    PROVE  Joined(p, r)
<1>1. SUFFICES ASSUME NEW S \in SUBSET Plans, p \in S,
                      \A u \in Templates : \A e \in edges[u] : e[1] \in S => e[2] \in S
               PROVE  r \in S
    BY DEF Joined
<1>2. q \in S
    BY <1>1 DEF Joined
<1>3. <<q, r>>[2] \in S
    BY <1>1, <1>2
<1>4. QED
    BY <1>3

LEMMA JoinedGrows ==
    ASSUME NEW p, NEW q, Joined(p, q), \A t \in Templates : edges[t] \subseteq edges'[t]
    PROVE  Joined(p, q)'
<1>1. SUFFICES ASSUME NEW S \in SUBSET Plans, p \in S,
                      \A t \in Templates : \A e \in edges'[t] : e[1] \in S => e[2] \in S
               PROVE  q \in S
    BY DEF Joined
<1>2. \A t \in Templates : \A e \in edges[t] : e[1] \in S => e[2] \in S
    BY <1>1
<1>3. QED
    BY <1>1, <1>2 DEF Joined

LEMMA InitTravelled == ASSUME Init PROVE Travelled
<1>1. run = [q \in Runs |-> [plan |-> First[q], epoch |-> 1]]
    BY DEF Init
<1>2. \A q \in Runs : run[q].plan \in Plans /\ run[q].plan = First[q]
    BY <1>1, ConstantsAssumption
<1>3. \A p : Joined(p, p)
    BY DEF Joined
<1>4. \A t \in Templates, m \in Migrations : migration[t][m] = None
    BY DEF Init
<1>5. QED
    BY <1>1, <1>2, <1>3, <1>4 DEF Travelled

\* Every command but a migration only adds edges.
LEMMA TravelledStays ==
    ASSUME Travelled, UNCHANGED <<run, migration>>, \A u \in Templates : Keeps(u)
    PROVE  Travelled'
<1>1. \A t \in Templates : edges[t] \subseteq edges'[t]
    BY DEF Keeps
<1>2. ASSUME NEW q \in Runs PROVE Joined(First[q], run[q].plan)'
    <2>1. PICK a, b : a = First[q] /\ b = run[q].plan
        OBVIOUS
    <2>2. Joined(a, b)
        BY <2>1 DEF Travelled
    <2>3. Joined(a, b)'
        BY <1>1, <2>2, JoinedGrows
    <2>4. a = First[q] /\ b = run'[q].plan
        BY <2>1
    <2>5. QED
        BY <2>3, <2>4
<1>3. QED
    BY <1>1, <1>2 DEF Travelled

\* A migration is along an edge that takes Effects away at most.
LEMMA MigrateTravels ==
    ASSUME Inv, Travelled, NEW t \in Templates, NEW m \in Migrations, NEW q \in Runs,
           NEW to \in plans[t], Migrate(t, m, q, to)
    PROVE  Travelled'
<1>1. PICK a, b : a = First[q] /\ b = run[q].plan
    OBVIOUS
<1>2. /\ <<b, to>> \in edges[t] /\ NoWidening(b, to) /\ edges' = edges
    BY <1>1 DEF Migrate, Migratable
<1>3. /\ Joined(a, b) /\ Effects[b] \subseteq Effects[a] /\ DOMAIN run = Runs
    BY <1>1 DEF Travelled
<1>4. to \in Plans
    BY DEF Inv, TInv, Shaped
<1>5. /\ DOMAIN run' = Runs /\ run'[q].plan = to
      /\ \A g \in Runs \ {q} : run'[g] = run[g]
    <2>1. PICK x : x = [run EXCEPT ![q].plan = to]
        OBVIOUS
    <2>2. DOMAIN x = Runs /\ x[q] = [run[q] EXCEPT !.plan = to] /\ \A g \in Runs \ {q} : x[g] = run[g]
        BY <1>3, <2>1
    <2>3. run' = [run EXCEPT ![q] = [[run[q] EXCEPT !.plan = to] EXCEPT !.epoch = run[q].epoch + 1]]
        BY <1>3 DEF Migrate
    <2>4. QED
        BY <1>1, <1>3, <2>3
<1>6. Joined(a, to)' /\ Effects[to] \subseteq Effects[a]
    <2>1. Joined(a, to)
        BY <1>2, <1>3, JoinedEdge
    <2>2. QED
        BY <1>2, <1>3, <2>1, JoinedGrows DEF NoWidening
<1>7. ASSUME NEW g \in Runs
      PROVE  /\ run'[g].plan \in Plans /\ Joined(First[g], run[g].plan)'
             /\ Effects[run'[g].plan] \subseteq Effects[First[g]]
    <2>1. CASE g = q
        <3>1. First[g] = a /\ run'[g].plan = to
            BY <1>1, <1>5, <2>1
        <3>2. QED
            BY <1>3, <1>4, <1>6, <3>1
    <2>2. CASE g # q
        <3>1. PICK c, d : c = First[g] /\ d = run[g].plan
            OBVIOUS
        <3>2. /\ d \in Plans /\ Joined(c, d) /\ Effects[d] \subseteq Effects[c]
            BY <3>1 DEF Travelled
        <3>3. Joined(c, d)'
            BY <1>2, <3>2, JoinedGrows
        <3>4. run'[g].plan = d
            BY <1>5, <2>2, <3>1
        <3>5. QED
            BY <3>1, <3>2, <3>3, <3>4
    <2>3. QED
        BY <2>1, <2>2
<1>8. ASSUME NEW u \in Templates, NEW n \in Migrations, migration'[u][n] # None
      PROVE  /\ <<migration'[u][n].from, migration'[u][n].to>> \in edges'[u]
             /\ NoWidening(migration'[u][n].from, migration'[u][n].to)
    <2>1. migration' = [migration EXCEPT ![t][m] = [run |-> q, from |-> b, to |-> to]]
        BY <1>1 DEF Migrate
    <2>2. DOMAIN migration = Templates /\ DOMAIN migration[u] = Migrations
        BY DEF Inv, Framed, TInv, Shaped
    <2>3. CASE u = t /\ n = m
        <3>1. migration'[u][n].from = b /\ migration'[u][n].to = to
            BY <2>1, <2>2, <2>3
        <3>2. QED
            BY <1>2, <2>3, <3>1
    <2>4. CASE u # t \/ n # m
        <3>1. migration'[u][n] = migration[u][n]
            BY <2>1, <2>2, <2>4
        <3>2. QED
            BY <1>2, <1>8, <3>1 DEF Travelled
    <2>5. QED
        BY <2>3, <2>4
<1>9. QED
    BY <1>5, <1>7, <1>8 DEF Travelled

LEMMA NextTravelled == ASSUME Inv, Travelled, [Next]_vars PROVE Travelled'
<1>1. \A u \in Templates : Keeps(u)
    BY NextInv
<1>2. ASSUME NEW t \in Driven, NEW m \in Migrations, NEW q \in Runs, NEW p \in plans[t],
             Migrate(t, m, q, p)
      PROVE  Travelled'
    BY <1>2, MigrateTravels, ConstantsAssumption
<1>3. CASE UNCHANGED <<run, migration>>
    BY <1>1, <1>3, TravelledStays
<1>4. ASSUME NEW t \in Driven, ClientStep(t)
      PROVE  \/ UNCHANGED <<run, migration>>
             \/ \E m \in Migrations, q \in Runs, p \in plans[t] : Migrate(t, m, q, p)
    BY <1>4 DEF ClientStep, ClientRollout, ApplyPatch, SetRollout, SelectOccurrence, Shadow, Observe,
       ApplyGate
<1>5. ASSUME NEW r \in Revisions, PublishDefinition(r) PROVE UNCHANGED <<run, migration>>
    BY <1>5 DEF PublishDefinition
<1>6. ASSUME NEW r \in Revisions, NEW m \in PublishModes, PublishAndRelink(r, m)
      PROVE  UNCHANGED <<run, migration>>
    BY <1>6 DEF PublishAndRelink
<1>7. ASSUME NEW t \in Templates, RegisterTemplate(t) PROVE UNCHANGED <<run, migration>>
    BY <1>7 DEF RegisterTemplate
<1>8. CASE UNCHANGED vars
    BY <1>3, <1>8 DEF vars
<1>9. QED
    BY <1>2, <1>3, <1>4, <1>5, <1>6, <1>7, <1>8 DEF Next

-----------------------------------------------------------------------------
(* The theorems. *)

\* The conjunction above is an invariant.
THEOREM InvHolds == Spec => []Inv
<1>1. Init => Inv
    BY InitInv
<1>2. Inv /\ [Next]_vars => Inv'
    BY NextInv
<1>3. QED
    BY <1>1, <1>2, PTL DEF Spec

LEMMA InvCounts == ASSUME Inv PROVE EvidenceExact
<1>1. SUFFICES ASSUME NEW t \in Templates, NEW id \in DOMAIN decisions[t]
               PROVE  evidence[t][id] = Recount(t, id)
    BY DEF EvidenceExact
<1>2. /\ evidence[t][id] \in Evidence
      /\ evidence[t][id].observations = Cardinality(TargetRuns(t, id))
      /\ evidence[t][id].failures = Cardinality(Failures(t, id))
      /\ evidence[t][id].equivalent = Cardinality(Equivalent(t, id))
      /\ evidence[t][id].inequivalent = Cardinality(Inequivalent(t, id))
    BY DEF Inv, TInv, Counted
<1>3. PICK a, b, c, d : /\ a = Cardinality(TargetRuns(t, id)) /\ b = Cardinality(Failures(t, id))
                        /\ c = Cardinality(Equivalent(t, id)) /\ d = Cardinality(Inequivalent(t, id))
    OBVIOUS
<1>4. a \in Nat /\ b \in Nat /\ c \in Nat /\ d \in Nat
    BY <1>2, <1>3 DEF Evidence
<1>5. Recount(t, id) = [observations |-> a, failures |-> b, equivalent |-> c, inequivalent |-> d]
    BY <1>3 DEF Recount, Failures, Equivalent, Inequivalent
<1>6. Recount(t, id) \in Evidence
    BY <1>4, <1>5 DEF Evidence
<1>7. /\ Recount(t, id).observations = a /\ Recount(t, id).failures = b
      /\ Recount(t, id).equivalent = c /\ Recount(t, id).inequivalent = d
    BY <1>5
<1>8. PICK x, y : x = evidence[t][id] /\ y = Recount(t, id)
    OBVIOUS
<1>9. x = y
    BY <1>2, <1>3, <1>6, <1>7, <1>8, SameEvidence
<1>10. QED
    BY <1>8, <1>9

LEMMA InvTypes == ASSUME Inv PROVE TypeOK
<1>1. ASSUME NEW t \in Templates
      PROVE  /\ plans[t] \subseteq Plans /\ edges[t] \subseteq plans[t] \X plans[t]
             /\ t \in Registered <=> current[t] \in DOMAIN decisions[t]
             /\ DOMAIN evidence[t] = DOMAIN decisions[t]
             /\ DOMAIN transition[t] \subseteq DOMAIN decisions[t]
             /\ Cardinality(DOMAIN decisions[t]) <= MaxDecisions
    <2>1. TInv(t)
        BY DEF Inv
    <2>2. t \in Registered <=> current[t] \in DOMAIN decisions[t]
        BY <2>1 DEF TInv, Shaped, Decided, Registered
    <2>3. QED
        BY <2>1, <2>2 DEF TInv, Shaped
<1>2. QED
    BY <1>1 DEF TypeOK, Inv, Registry

LEMMA InvLegal == ASSUME Inv PROVE RolloutLegal
<1>1. ASSUME NEW t \in Registered
      PROVE  /\ current[t] \in DOMAIN decisions[t] \ DOMAIN transition[t]
             /\ PlanOf[t][linked[t]] \in plans[t]
             /\ \A id \in DOMAIN decisions[t] :
                    {decisions[t][id].fallback, decisions[t][id].target} \subseteq plans[t]
             /\ \E p \in plans[t] : /\ InitialId(p) \in DOMAIN decisions[t]
                                    /\ \A q \in plans[t] : Reaches(t, p, q)
             /\ \A o \in Occurrences : pin[t][o] # None =>
                    pin[t][o].plan \in SelectedPlans(decisions[t][pin[t][o].decision])
    <2>1. TInv(t) /\ linked[t] # None
        BY DEF Inv, Registered
    <2>2. QED
        BY <2>1 DEF TInv, Decided, Pinned
<1>2. ASSUME NEW t \in Registered, NEW id \in DOMAIN transition[t]
      PROVE  /\ decisions[t][transition[t][id].to] = [decisions[t][id] EXCEPT !.mode =
                    Outcome(transition[t][id].gate, transition[t][id].seen)]
             /\ \A f \in DOMAIN transition[t][id].seen :
                    transition[t][id].seen[f] <= evidence[t][id][f]
    <2>1. TInv(t)
        BY DEF Inv, Registered
    <2>2. transition[t][id].seen \in Evidence
        BY <2>1 DEF TInv, Ended
    <2>3. DOMAIN transition[t][id].seen = {"observations", "failures", "equivalent", "inequivalent"}
        BY <2>2 DEF Evidence
    <2>4. QED
        BY <2>1, <2>3 DEF TInv, Ended
<1>3. QED
    BY <1>1, <1>2, InvTypes DEF RolloutLegal

\* The counts that a gate of the rollout decides by are those of the
\* retained observations and comparisons, for every decision, however
\* evidence, supersession and gates are ordered (advance_observation_rollout,
\* advance_shadow_rollout).
THEOREM EvidenceIsExact == Spec => []EvidenceExact
BY InvHolds, InvCounts, PTL

\* Heads, compatibility heads, reverse dependencies and links agree after
\* every sequence of publications and registrations (publish_definition,
\* publish_and_relink, register_template).
THEOREM LinksFollow == Spec => []LinksFollowHeads
<1>1. Inv => LinksFollowHeads
    BY DEF Inv
<1>2. QED
    BY <1>1, InvHolds, PTL

\* Rollout state is closed and explains itself: decisions, Plans, pins and
\* ended decisions agree after every sequence of publications, gates and
\* selections (select_occurrence, apply_gate).
THEOREM RolloutsLegal == Spec => []RolloutLegal
BY InvHolds, InvLegal, PTL

\* No chain of migrations, of whatever length and by whichever templates,
\* gives a Run an Effect that the Plan it was started with does not allow,
\* and every receipt is of a reviewed edge that widens nothing (migrate,
\* validate_migration_no_widening).
THEOREM RunsNeverWiden == Spec => []MigrationsNarrow
<1>1. Init => Travelled
    BY InitTravelled
<1>2. Inv /\ Travelled /\ [Next]_vars => Travelled'
    BY NextTravelled
<1>3. Travelled => MigrationsNarrow
    BY DEF Travelled, MigrationsNarrow
<1>4. QED
    BY <1>1, <1>2, <1>3, InvHolds, PTL DEF Spec

\* Nothing that the reducer has retained is rewritten or dropped, and an
\* ended decision is never current again.
THEOREM RetainedIsFinal == Spec => RetainedFinal
<1> DEFINE Step == SequencesKept /\ \A u \in Templates : Keeps(u)
<1>1. Inv /\ [Next]_vars => [Step]_vars
    BY NextInv
<1>2. Step <=> /\ \A r \in Revisions : sequence[r] > 0 => sequence'[r] = sequence[r]
               /\ \A t \in Templates :
                      /\ plans[t] \subseteq plans'[t] /\ edges[t] \subseteq edges'[t]
                      /\ Kept(decisions[t], decisions'[t]) /\ Kept(transition[t], transition'[t])
                      /\ Kept(pin[t], pin'[t]) /\ Kept(record[t], record'[t])
                      /\ Kept(migration[t], migration'[t])
                      /\ current'[t] \notin DOMAIN transition'[t]
    BY DEF SequencesKept, Keeps
<1> HIDE DEF Step
<1>3. QED
    BY <1>1, <1>2, InvHolds, PTL DEF Spec, RetainedFinal

=============================================================================
