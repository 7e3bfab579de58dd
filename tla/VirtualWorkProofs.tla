-------------------------- MODULE VirtualWorkProofs --------------------------
(***************************************************************************)
(* The scheduler of virtual work, for every number of works, regions, Runs *)
(* and slots and every policy: claims hold the lease of their slot, no     *)
(* work is lost, the rotation stays alive, ended occurrences never change  *)
(* and everything kept beside the leaves agrees with them.                 *)
(*                                                                         *)
(* The argument: Inv says for each work, each occurrence and each region   *)
(* where it is and which other leaves name it, without counting; the       *)
(* counts and the folds of the model follow from it by facts about finite  *)
(* sets.  A fold is a recursive function over the subsets of a finite set, *)
(* whose existence (FoldDefined) and value are shown from a least          *)
(* counterexample.                                                         *)
(***************************************************************************)
EXTENDS VirtualWork, FiniteSetTheorems, SequenceTheorems, TLAPS

RegionLeaf == [life: {"Absent", "Active", "Retired"}, rest: SUBSET Works,
               done: BOOLEAN, hotWork: Nat, hotOcc: Nat, cert: BOOLEAN]
WorkLeaf == [place: {"Absent", "Ready", "Active", "Parked", "Terminal"},
             epoch: 0..MaxEpoch, region: Regions \cup {None}]
OccLeaf == [state: {"Absent", "Running", "RetryScheduled", "Parked"} \cup Final,
            owner: Owners \cup {NoOwner}, lease: Nat, region: Regions \cup {None}]

ClaimLeaf == [owner: Owners \cup {NoOwner}, epoch: 0..MaxEpoch, slot: Slots \cup {NoOwner},
              lease: Nat, expires: 0..(MaxTime + TTL)]

(* The archive keeps occurrences as they were.                             *)
ColdTyped == cold \in [Works -> [Epochs -> OccLeaf]]

(* Regions: which are still to be read, which are closed for good.         *)
RegionsKept ==
    /\ activeRegions = {r \in Regions: region[r].life = "Active" /\ ~region[r].done}
    /\ lastRegion \in activeRegions \cup {None}
    /\ \A r \in Regions: /\ region[r].cert => cert[r] # "None"
                         /\ cert[r] # "None" => Closed(r) /\ HotWork(r) = {}

(* Work leaves: each names an open region and the place the work is in.    *)
Homed(w) == work[w].region \in Regions /\ region[work[w].region].life # "Absent" /\ index[w] = 0

LeavesKept ==
    \A w \in Works:
        /\ Hot(w) => Homed(w)
        /\ work[w].place = "Active" <=> w \in ActiveWorks
        /\ w \in ActiveWorks => LeavesAgree(w) /\ active[w].owner \in Owners /\ active[w].slot \in Slots
        /\ work[w].place \in {"Active", "Terminal"} => work[w].epoch \in Epochs
        /\ work[w].place = "Terminal" => occ[w][work[w].epoch].state \in Final
        /\ work[w].place = "Parked" <=> parked[w] # NoOwner

(* Occurrence leaves: of a hot work and its region, or as archived.        *)
OccKept ==
    \A w \in Works, e \in Epochs:
        /\ occ[w][e] # NoOcc => /\ occ[w][e].state # "Absent" /\ occ[w][e].region \in Regions
                                /\ \/ Hot(w) /\ occ[w][e].region = work[w].region
                                   \/ cold[w][e] = occ[w][e]
        /\ occ[w][e].state = "Running" => w \in ActiveWorks /\ active[w].epoch = e
        /\ cold[w][e] # NoOcc => /\ index[w] # 0 /\ cold[w][e].state \in Final
                                 /\ cold[w][e].region \in Regions /\ cert[cold[w][e].region] # "None"
                                 /\ occ[w][e] \in {NoOcc, cold[w][e]}

(* Queues: the ready work of the Run, each once.                           *)
QueuesKept ==
    /\ \A q \in Runs: /\ IsInjective(ready[q])
                      /\ \A w \in Range(ready[q]): work[w].place = "Ready" /\ RunOfWork(w) = q
    /\ \A w \in Works: work[w].place = "Ready" =>
                          w \in Range(ready[RunOfWork(w)]) /\ since[w] \in 0..sequence

(* Pages: the work parked on the reason, each in one page.                 *)
ParksKept ==
    /\ \A x \in Reasons:
          /\ Members(x) = {w \in Works: parked[w] = x}
          /\ \A i, j \in DOMAIN pages[x]: i # j => pages[x][i] \cap pages[x][j] = {}
          /\ \A i \in DOMAIN pages[x]: i < Len(pages[x]) => Cardinality(pages[x][i]) = PageItems
          /\ \A i \in DOMAIN pages[x]: Cardinality(pages[x][i]) <= PageItems
    /\ \A x \in Waits: directory[x] = Charge(x)
    /\ WakeItems(directory) <= MaxWake

Present == {r \in Regions: region[r].life # "Absent"}
Certified == {r \in Regions: cert[r] # "None"}
HotSet == {w \in Works: Hot(w)}
ParkedSet == {w \in Works: parked[w] # NoOwner}
OccSet == {we \in Works \X Epochs: occ[we[1]][we[2]] # NoOcc}

CountsKept ==
    /\ counts.regions = Cardinality(Present) /\ counts.activeRegions = Cardinality(activeRegions)
    /\ counts.certs = Cardinality(Certified) /\ counts.parked = Cardinality(ParkedSet)
    /\ counts.work = Cardinality(HotSet) /\ counts.occ = Cardinality(OccSet)
    /\ \A r \in Regions: /\ region[r].hotWork = Cardinality(HotWork(r))
                         /\ region[r].hotOcc = Cardinality(HotOcc(r))

(* The frontier: the work that is not ended.                               *)
Frontier == {w \in Works: work[w].place \in {"Ready", "Active", "Parked"}}
FrontierKept == Cardinality(Frontier) <= MaxMaterialized

(* What an active region has left is in no other and was never read.       *)
Holds(r, w) == region[r].life = "Active" /\ w \in region[r].rest

SourceKept ==
    /\ \A w \in Works, r \in Regions: Holds(r, w) =>
          /\ ~Hot(w) /\ index[w] = 0
          /\ \A q \in Regions: Holds(q, w) => q = r
    /\ \A w \in UNION Range(Source): (\E r \in Regions: Holds(r, w)) \/ Hot(w) \/ index[w] # 0

Inv == /\ TypeOK /\ ColdTyped /\ RegionsKept /\ LeavesKept /\ OccKept /\ QueuesKept /\ ParksKept
       /\ CountsKept /\ FrontierKept /\ SourceKept /\ LeaseBacksClaim
-----------------------------------------------------------------------------
(* Least and greatest members.                                             *)

LEMMA LeastExists ==
    ASSUME NEW S, S \subseteq Nat, S # {}
    PROVE  \E x \in S : \A y \in S : x <= y
<1> DEFINE R == OpToRel(<, Nat)
<1>1. IsWellFoundedOn(R, Nat)
    BY NatLessThanWellFounded
<1>2. \A x, y \in Nat : y < x => <<y, x>> \in R
    BY DEF OpToRel
<1> HIDE DEF R
<1>3. PICK x \in S : \A y \in S : ~(<<y, x>> \in R)
    BY <1>1, WFMin
<1>4. \A y \in S : x \in Nat /\ y \in Nat /\ ~(y < x)
    BY <1>2, <1>3
<1>5. \A y \in S : x <= y
    BY <1>4
<1>6. QED
    BY <1>5

LEMMA MinFacts ==
    ASSUME NEW S, S \subseteq Nat, S # {}
    PROVE  Min(S) \in S /\ \A y \in S : Min(S) <= y
BY LeastExists DEF Min

(* A finite set of numbers has a bound: the least number of elements of a  *)
(* count of the set that has none would be one more than a bounded one.    *)
LEMMA FiniteBounded ==
    ASSUME NEW S, S \subseteq Nat, IsFiniteSet(S)
    PROVE  \E m \in Nat : \A x \in S : x <= m
<1>1. PICK n \in Nat : ExistsSurjection(1..n, S)
    BY FS_NatSurjection
<1>2. PICK f \in [1..n -> S] : \A x \in S : \E j \in 1..n : f[j] = x
    BY <1>1 DEF ExistsSurjection, Surjection
<1> DEFINE Bound(k, m) == \A j \in 1..n : j <= k => f[j] <= m
           Bad == {k \in Nat : ~\E m \in Nat : Bound(k, m)}
<1>3. Bad = {}
    <2> SUFFICES ASSUME Bad # {} PROVE FALSE
        OBVIOUS
    <2>1. PICK k \in Bad : \A y \in Bad : k <= y
        BY LeastExists
    <2>2. k \in Nat /\ ~\E m \in Nat : Bound(k, m)
        OBVIOUS
    <2>3. Bound(0, 0)
        BY <1>1
    <2>4. k # 0 /\ k - 1 \in Nat
        BY <2>2, <2>3
    <2>5. k - 1 \notin Bad
        <3> HIDE DEF Bad
        <3>1. QED
            BY <2>1, <2>2, <2>4
    <2>6. PICK m \in Nat : Bound(k - 1, m)
        BY <2>4, <2>5
    <2>7. CASE k \in 1..n
        <3>1. PICK b \in Nat : b = f[k]
            BY <2>7, <1>2
        <3>2. PICK c \in Nat : m <= c /\ b <= c
            <4>1. m + b \in Nat /\ m <= m + b /\ b <= m + b
                OBVIOUS
            <4>2. QED
                BY <4>1
        <3>3. \A j \in 1..n : j <= k => f[j] <= c
            <4> SUFFICES ASSUME NEW j \in 1..n, j <= k PROVE f[j] <= c
                OBVIOUS
            <4>1. CASE j = k
                BY <4>1, <3>1, <3>2
            <4>2. CASE j # k
                <5>1. j <= k - 1
                    BY <4>2, <2>2
                <5>2. PICK a \in Nat : a = f[j]
                    BY <1>2
                <5>3. a <= m
                    BY <5>1, <5>2, <2>6
                <5>4. a <= c
                    BY <5>3, <3>2
                <5>5. QED
                    BY <5>2, <5>4
            <4>3. QED
                BY <4>1, <4>2
        <3>4. QED
            BY <3>2, <3>3, <2>2
    <2>8. CASE k \notin 1..n
        <3>1. \A j \in 1..n : j <= k => j <= k - 1
            BY <2>8, <2>2, <2>4
        <3>2. Bound(k, m)
            BY <3>1, <2>6
        <3>3. QED
            BY <3>2, <2>2, <2>6
    <2>9. QED
        BY <2>7, <2>8
<1>4. PICK m \in Nat : Bound(n, m)
    BY <1>3, <1>1
<1>5. \A j \in 1..n : f[j] <= m
    BY <1>4
<1>6. QED
    BY <1>2, <1>5

LEMMA MaxFacts ==
    ASSUME NEW S, S \subseteq Nat, S # {}, IsFiniteSet(S)
    PROVE  Max(S) \in S /\ \A y \in S : y <= Max(S)
<1> DEFINE B == {m \in Nat : \A x \in S : x <= m}
<1>1. B # {}
    BY FiniteBounded
<1>2. PICK m \in B : \A y \in B : m <= y
    BY <1>1, LeastExists
<1>3. m \in S
    <2>1. CASE m = 0
        <3>1. PICK x \in S : TRUE
            OBVIOUS
        <3>2. x \in Nat /\ x <= m
            BY <3>1, <1>2
        <3>3. QED
            BY <3>1, <3>2, <2>1
    <2>2. CASE m # 0
        <3>1. m - 1 \in Nat /\ m - 1 \notin B
            BY <2>2, <1>2
        <3>2. PICK x \in S : ~(x <= m - 1)
            BY <3>1
        <3>3. x = m
            BY <3>1, <3>2, <1>2
        <3>4. QED
            BY <3>2, <3>3
    <2>3. QED
        BY <2>1, <2>2
<1>4. \E x \in S : \A y \in S : x >= y
    BY <1>2, <1>3
<1>5. Max(S) \in S /\ \A y \in S : Max(S) >= y
    BY <1>4 DEF Max
<1>6. QED
    BY <1>5

-----------------------------------------------------------------------------
(* Folds.  A choice inside every non-empty subset and a step on values     *)
(* determine a function on the subsets of a finite set.                    *)

Chooser(C, S) == \A s \in SUBSET S : s # {} => C[s] \in s
FoldOf(it, b, G, C, D) ==
    \A s \in D : it[s] = IF s = {} THEN b ELSE G[C[s]][it[s \ {C[s]}]]
Climbs(P, C, S) ==
    {} \in P /\ \A s \in SUBSET S : s # {} /\ s \ {C[s]} \in P => s \in P

LEMMA SmallerWithout ==
    ASSUME NEW S, IsFiniteSet(S), NEW s \in SUBSET S, NEW c \in s
    PROVE  /\ IsFiniteSet(s) /\ Cardinality(s) \in Nat
           /\ s \ {c} \in SUBSET S /\ Cardinality(s \ {c}) = Cardinality(s) - 1
           /\ Cardinality(s \ {c}) \in Nat
<1>1. IsFiniteSet(s) /\ IsFiniteSet(s \ {c})
    BY FS_Subset
<1>2. QED
    BY <1>1, FS_RemoveElement, FS_CardinalityType

LEMMA FoldDefined ==
    ASSUME NEW S, IsFiniteSet(S), NEW V, NEW b \in V, NEW G \in [S -> [V -> V]],
           NEW C, Chooser(C, S)
    PROVE  \E it \in [SUBSET S -> V] : FoldOf(it, b, G, C, SUBSET S)
<1> USE DEF Chooser, FoldOf
<1> DEFINE Level(n) == {s \in SUBSET S : Cardinality(s) <= n}
           Bad == {n \in Nat : ~\E it \in [Level(n) -> V] : FoldOf(it, b, G, C, Level(n))}
<1>1. \A s \in SUBSET S : IsFiniteSet(s) /\ Cardinality(s) \in Nat
    BY FS_Subset, FS_CardinalityType
<1>2. \A s \in SUBSET S : s # {} => /\ C[s] \in s /\ C[s] \in S /\ s \ {C[s]} \in SUBSET S
                                    /\ Cardinality(s \ {C[s]}) = Cardinality(s) - 1
    BY SmallerWithout
<1>3. Bad = {}
    <2> SUFFICES ASSUME Bad # {} PROVE FALSE
        OBVIOUS
    <2>1. PICK n \in Bad : \A y \in Bad : n <= y
        BY LeastExists
    <2>2. n \in Nat /\ ~\E it \in [Level(n) -> V] : FoldOf(it, b, G, C, Level(n))
        OBVIOUS
    <2>3. CASE n = 0
        <3> DEFINE it == [s \in Level(0) |-> b]
        <3>1. \A s \in Level(0) : s = {}
            BY <1>1, FS_EmptySet
        <3>2. it \in [Level(0) -> V] /\ FoldOf(it, b, G, C, Level(0))
            BY <3>1
        <3>3. QED
            BY <3>2, <2>2, <2>3
    <2>4. CASE n # 0
        <3>1. n - 1 \in Nat /\ n - 1 \notin Bad
            <4> HIDE DEF Bad
            <4>1. QED
                BY <2>1, <2>2, <2>4
        <3>2. PICK g \in [Level(n - 1) -> V] : FoldOf(g, b, G, C, Level(n - 1))
            BY <3>1
        <3> DEFINE it == [s \in Level(n) |-> IF s = {} THEN b ELSE G[C[s]][g[s \ {C[s]}]]]
        <3>3. \A s \in Level(n) : s # {} => s \ {C[s]} \in Level(n - 1)
            <4> SUFFICES ASSUME NEW s \in Level(n), s # {} PROVE s \ {C[s]} \in Level(n - 1)
                OBVIOUS
            <4>1. Cardinality(s \ {C[s]}) = Cardinality(s) - 1 /\ Cardinality(s) \in Nat
                BY <1>1, <1>2
            <4>2. QED
                BY <4>1, <1>2, <2>2
        <3>4. it \in [Level(n) -> V]
            BY <3>2, <3>3, <1>2
        <3>5. \A s \in Level(n - 1) : s \in Level(n) /\ it[s] = g[s]
            <4> SUFFICES ASSUME NEW s \in Level(n - 1) PROVE s \in Level(n) /\ it[s] = g[s]
                BY ZenonT(60)
            <4>1. s \in Level(n)
                BY <1>1, <2>2
            <4>2. QED
                BY <4>1, <3>2
        <3>6. FoldOf(it, b, G, C, Level(n))
            <4> SUFFICES ASSUME NEW s \in Level(n)
                         PROVE  it[s] = IF s = {} THEN b ELSE G[C[s]][it[s \ {C[s]}]]
                BY Zenon
            <4>1. CASE s = {}
                BY <4>1, SMTT(60)
            <4>2. CASE s # {}
                <5>1. it[s \ {C[s]}] = g[s \ {C[s]}]
                    BY <3>3, <3>5, <4>2
                <5>2. QED
                    BY <5>1, <4>2
            <4>3. QED
                BY <4>1, <4>2, Zenon
        <3>7. QED
            BY <3>4, <3>6, <2>2, Zenon
    <2>5. QED
        BY <2>3, <2>4
<1>4. Cardinality(S) \in Nat /\ Level(Cardinality(S)) = SUBSET S
    <2>1. \A s \in SUBSET S : Cardinality(s) <= Cardinality(S)
        BY FS_Subset
    <2>2. QED
        BY <2>1, FS_CardinalityType
<1>5. \E it \in [Level(Cardinality(S)) -> V] : FoldOf(it, b, G, C, Level(Cardinality(S)))
    BY <1>3, <1>4
<1>6. QED
    BY <1>4, <1>5

(* Induction on the subsets a fold goes through, for a set P of subsets.   *)
LEMMA FoldInduction ==
    ASSUME NEW S, IsFiniteSet(S), NEW C, Chooser(C, S), NEW P, Climbs(P, C, S)
    PROVE  \A s \in SUBSET S : s \in P
<1> USE DEF Chooser, Climbs
<1> DEFINE Bad == {n \in Nat : \E s \in SUBSET S : Cardinality(s) = n /\ s \notin P}
<1>1. Bad = {}
    <2> SUFFICES ASSUME Bad # {} PROVE FALSE
        OBVIOUS
    <2>1. PICK n \in Bad : \A y \in Bad : n <= y
        BY LeastExists
    <2>2. PICK s \in SUBSET S : Cardinality(s) = n /\ s \notin P
        OBVIOUS
    <2>3. s # {} /\ C[s] \in s
        BY <2>2
    <2>4. /\ Cardinality(s) \in Nat /\ s \ {C[s]} \in SUBSET S
          /\ Cardinality(s \ {C[s]}) = Cardinality(s) - 1 /\ Cardinality(s \ {C[s]}) \in Nat
        BY <2>3, SmallerWithout, SMTT(30)
    <2>5. s \ {C[s]} \notin P
        BY <2>2, <2>3
    <2>6. Cardinality(s \ {C[s]}) \in Bad
        BY <2>4, <2>5
    <2> HIDE DEF Bad
    <2>7. QED
        BY <2>1, <2>2, <2>4, <2>6
<1>2. \A s \in SUBSET S : Cardinality(s) \in Nat
    BY FS_Subset, FS_CardinalityType
<1>3. QED
    BY <1>1, <1>2

Disjoint(F, S) == \A c, d \in S : c # d => F[c] \cap F[d] = {}
Sums(it, F, C, S) ==
    /\ it[{}] = 0
    /\ \A s \in SUBSET S : s # {} => it[s] = it[s \ {C[s]}] + Cardinality(F[C[s]])

(* A sum of the sizes of disjoint sets is the size of their union.         *)
LEMMA UnionCounted ==
    ASSUME NEW S, IsFiniteSet(S), NEW C, Chooser(C, S),
           NEW F, \A c \in S : IsFiniteSet(F[c]), Disjoint(F, S), NEW it, Sums(it, F, C, S)
    PROVE  LET U == UNION {F[c] : c \in S} IN IsFiniteSet(U) /\ it[S] = Cardinality(U)
<1> USE DEF Chooser, Disjoint, Sums
<1> DEFINE U(s) == UNION {F[c] : c \in s}
           P == {s \in SUBSET S : IsFiniteSet(U(s)) /\ it[s] = Cardinality(U(s))}
<1>1. {} \in P
    <2>1. U({}) = {}
        OBVIOUS
    <2>2. QED
        BY <2>1, FS_EmptySet
<1>2. ASSUME NEW s \in SUBSET S, s # {}, s \ {C[s]} \in P PROVE s \in P
    <2> DEFINE c == C[s]
               A == U(s \ {c})
    <2>1. c \in s /\ c \in S
        BY <1>2
    <2>2. IsFiniteSet(A) /\ it[s \ {c}] = Cardinality(A)
        BY <1>2
    <2>3. U(s) = A \cup F[c]
        BY <2>1
    <2>4. A \cap F[c] = {}
        <3> SUFFICES ASSUME NEW x \in A, x \in F[c] PROVE FALSE
            OBVIOUS
        <3>1. PICK d \in s \ {c} : x \in F[d]
            OBVIOUS
        <3>2. d \in S /\ d # c
            BY <3>1
        <3>3. QED
            BY <3>1, <3>2, <2>1
    <2>5. IsFiniteSet(F[c])
        BY <2>1
    <2> HIDE DEF A, c
    <2>6. IsFiniteSet(A \cup F[c]) /\ Cardinality(A \cup F[c]) = Cardinality(A) + Cardinality(F[c]) - Cardinality({})
        BY <2>2, <2>4, <2>5, FS_Union
    <2>7. Cardinality({}) = 0 /\ Cardinality(A) \in Nat /\ Cardinality(F[c]) \in Nat
        BY <2>2, <2>5, FS_EmptySet, FS_CardinalityType
    <2>8. it[s] = Cardinality(A) + Cardinality(F[c])
        BY <1>2, <2>2 DEF c
    <2>9. IsFiniteSet(U(s)) /\ it[s] = Cardinality(U(s))
        <3> HIDE DEF U
        <3>1. QED
            BY <2>3, <2>6, <2>7, <2>8
    <2>10. QED
        BY <2>9
<1>3. S \in P
    <2>1. Climbs(P, C, S)
        BY <1>1, <1>2 DEF Climbs
    <2> HIDE DEF P, Chooser
    <2>2. \A s \in SUBSET S : s \in P
        BY <2>1, FoldInduction
    <2>3. QED
        BY <2>2
<1>4. QED
    BY <1>3

(* The ready items of all Runs, summed up by queue.                        *)
LEMMA ReadySum ==
    ASSUME NEW queue \in [Runs -> Seq(Works)],
           \A q \in Runs : IsInjective(queue[q]),
           \A p, q \in Runs : p # q => Range(queue[p]) \cap Range(queue[q]) = {}
    PROVE  LET U == UNION {Range(queue[q]) : q \in Runs}
           IN  /\ IsFiniteSet(U)
               /\ FoldSet(LAMBDA q, n : n + Len(queue[q]), 0, Runs) = Cardinality(U)
<1> DEFINE C == [s \in SUBSET Runs |-> CHOOSE x \in s : TRUE]
           G == [q \in Runs |-> [n \in Nat |-> n + Len(queue[q])]]
           Folded(it) == it = [s \in SUBSET Runs |->
                                 IF s = {} THEN 0
                                 ELSE it[s \ {CHOOSE x \in s : TRUE}] + Len(queue[CHOOSE x \in s : TRUE])]
           iter == CHOOSE it : Folded(it)
           F == [q \in Runs |-> Range(queue[q])]
<1>1. IsFiniteSet(Runs)
    BY FiniteAssumption
<1>2. \A s \in SUBSET Runs : s # {} => C[s] \in s /\ C[s] \in Runs
    OBVIOUS
<1>0. Chooser(C, Runs)
    BY <1>2 DEF Chooser
<1>3. G \in [Runs -> [Nat -> Nat]]
    OBVIOUS
<1>4. PICK it \in [SUBSET Runs -> Nat] : FoldOf(it, 0, G, C, SUBSET Runs)
    <2> HIDE DEF C, G
    <2>1. 0 \in Nat
        OBVIOUS
    <2>2. QED
        BY <1>0, <1>1, <1>3, <2>1, FoldDefined
<1>5. Folded(it)
    <2>1. ASSUME NEW s \in SUBSET Runs, s # {} PROVE it[s] = it[s \ {C[s]}] + Len(queue[C[s]])
        <3>1. s \ {C[s]} \in SUBSET Runs
            OBVIOUS
        <3>2. it[s \ {C[s]}] \in Nat
            BY <3>1, <1>4
        <3>3. QED
            BY <3>2, <2>1, <1>2, <1>4 DEF FoldOf
    <2> DEFINE body == [s \in SUBSET Runs |->
                          IF s = {} THEN 0
                          ELSE it[s \ {CHOOSE x \in s : TRUE}] + Len(queue[CHOOSE x \in s : TRUE])]
    <2>2. it \in [SUBSET Runs -> Nat] /\ DOMAIN body = SUBSET Runs
        BY <1>4
    <2>3. \A s \in SUBSET Runs : it[s] = body[s]
        BY <2>1, <1>4, ZenonT(30) DEF FoldOf
    <2>4. it = body
        <3> HIDE DEF body
        <3>1. body = [s \in SUBSET Runs |-> body[s]]
            BY DEF body
        <3>2. QED
            BY <2>2, <2>3, <3>1
    <2>5. QED
        BY <2>4
<1>6. Folded(iter)
    BY <1>5, ZenonT(60)
<1>7. FoldSet(LAMBDA q, n : n + Len(queue[q]), 0, Runs) = iter[Runs]
    BY DEF FoldSet, MapThenFoldSet
<1>8. \A q \in Runs : IsFiniteSet(F[q]) /\ Cardinality(F[q]) = Len(queue[q])
    <2> SUFFICES ASSUME NEW q \in Runs
                 PROVE  IsFiniteSet(Range(queue[q])) /\ Cardinality(Range(queue[q])) = Len(queue[q])
        OBVIOUS
    <2>1. queue[q] \in Seq(Works) /\ Len(queue[q]) \in Nat /\ DOMAIN queue[q] = 1..Len(queue[q])
        OBVIOUS
    <2>2. queue[q] \in Bijection(1..Len(queue[q]), Range(queue[q]))
        BY <2>1 DEF Bijection, Injection, Surjection, IsInjective, Range
    <2>3. ExistsBijection(1..Len(queue[q]), Range(queue[q]))
        BY <2>2 DEF ExistsBijection
    <2>4. QED
        BY <2>1, <2>3, FS_CountingElements, FS_NatBijection
<1>9. Sums(iter, F, C, Runs)
    <2> HIDE DEF iter
    <2>1. iter[{}] = 0
        BY <1>6
    <2>2. \A s \in SUBSET Runs : s # {} => iter[s] = iter[s \ {C[s]}] + Len(queue[C[s]])
        BY <1>6
    <2> HIDE DEF C, F
    <2>3. QED
        BY <2>1, <2>2, <1>2, <1>8 DEF Sums
<1>10. Disjoint(F, Runs)
    BY DEF Disjoint
<1>11. LET U == UNION {F[q] : q \in Runs} IN IsFiniteSet(U) /\ iter[Runs] = Cardinality(U)
    <2>1. \A q \in Runs : IsFiniteSet(F[q])
        BY <1>8
    <2> HIDE DEF C, F, iter
    <2>2. QED
        BY <1>0, <1>1, <1>9, <1>10, <2>1, UnionCounted, ZenonT(30)
<1>12. UNION {F[q] : q \in Runs} = UNION {Range(queue[q]) : q \in Runs}
    OBVIOUS
<1>13. QED
    BY <1>7, <1>11, <1>12

-----------------------------------------------------------------------------
(* Sequences: insertion and removal keep an injective queue injective.     *)

LEMMA InsertFacts ==
    ASSUME NEW W, NEW s \in Seq(W), NEW w \in W, NEW i \in 1..(Len(s) + 1)
    PROVE  /\ InsertAt(s, i, w) \in Seq(W) /\ Len(InsertAt(s, i, w)) = Len(s) + 1
           /\ \A j \in 1..(Len(s) + 1) :
                 InsertAt(s, i, w)[j] = IF j < i THEN s[j] ELSE IF j = i THEN w ELSE s[j - 1]
<1> DEFINE front == SubSeq(s, 1, i - 1)
           back == SubSeq(s, i, Len(s))
           left == front \o <<w>>
<1>1. Len(s) \in Nat /\ i \in Nat /\ i >= 1 /\ i <= Len(s) + 1
    OBVIOUS
<1>2. /\ front \in Seq(W) /\ Len(front) = i - 1
      /\ \A j \in 1..(i - 1) : front[j] = s[j]
    BY <1>1, SubSeqProperties
<1>3. /\ back \in Seq(W) /\ Len(back) = Len(s) - i + 1
      /\ \A j \in 1..(Len(s) - i + 1) : back[j] = s[i + j - 1]
    BY <1>1, SubSeqProperties
<1>4. <<w>> \in Seq(W) /\ Len(<<w>>) = 1 /\ <<w>>[1] = w
    OBVIOUS
<1> HIDE DEF front, back
<1>5. /\ left \in Seq(W) /\ Len(left) = i
      /\ \A j \in 1..i : left[j] = IF j < i THEN s[j] ELSE w
    <2>1. left \in Seq(W) /\ Len(left) = i
        BY <1>1, <1>2, <1>4, ConcatProperties
    <2>2. ASSUME NEW j \in 1..i PROVE left[j] = IF j < i THEN s[j] ELSE w
        <3>1. left[j] = IF j <= Len(front) THEN front[j] ELSE <<w>>[j - Len(front)]
            BY <1>1, <1>2, <1>4, ConcatProperties
        <3>2. CASE j < i
            BY <3>1, <3>2, <1>1, <1>2
        <3>3. CASE j = i
            BY <3>1, <3>3, <1>1, <1>2, <1>4
        <3>4. j < i \/ j = i
            BY <1>1
        <3>5. QED
            BY <3>2, <3>3, <3>4
    <2>3. QED
        BY <2>1, <2>2
<1> HIDE DEF left
<1>6. InsertAt(s, i, w) = left \o back
    BY DEF InsertAt, left, front, back
<1>7. left \o back \in Seq(W) /\ Len(left \o back) = Len(s) + 1
    <2>1. left \o back \in Seq(W) /\ Len(left \o back) = Len(left) + Len(back)
        BY <1>3, <1>5, ConcatProperties
    <2>2. i + (Len(s) - i + 1) = Len(s) + 1
        BY <1>1
    <2>3. QED
        BY <2>1, <2>2, <1>3, <1>5
<1>8. ASSUME NEW j \in 1..(Len(s) + 1)
      PROVE  (left \o back)[j] = IF j < i THEN s[j] ELSE IF j = i THEN w ELSE s[j - 1]
    <2>1. (left \o back)[j] = IF j <= Len(left) THEN left[j] ELSE back[j - Len(left)]
        BY <1>1, <1>3, <1>5, ConcatProperties
    <2>2. CASE j <= i
        BY <2>1, <2>2, <1>1, <1>5
    <2>3. CASE j > i
        <3>1. j - i \in 1..(Len(s) - i + 1) /\ i + (j - i) - 1 = j - 1
            BY <2>3, <1>1
        <3>2. back[j - i] = s[j - 1]
            BY <3>1, <1>3
        <3>3. QED
            BY <2>1, <2>3, <3>2, <1>1, <1>5
    <2>4. j <= i \/ j > i
        BY <1>1
    <2>5. QED
        BY <2>2, <2>3, <2>4
<1>9. QED
    BY <1>6, <1>7, <1>8

LEMMA InsertRange ==
    ASSUME NEW W, NEW s \in Seq(W), NEW w \in W, NEW i \in 1..(Len(s) + 1)
    PROVE  /\ Range(InsertAt(s, i, w)) = Range(s) \cup {w}
           /\ IsInjective(s) /\ w \notin Range(s) => IsInjective(InsertAt(s, i, w))
<1> DEFINE t == InsertAt(s, i, w)
           n == Len(s)
<1>1. /\ t \in Seq(W) /\ Len(t) = n + 1 /\ n \in Nat /\ i \in Nat
      /\ \A j \in 1..(n + 1) : t[j] = IF j < i THEN s[j] ELSE IF j = i THEN w ELSE s[j - 1]
    BY InsertFacts
<1>2. DOMAIN t = 1..(n + 1) /\ DOMAIN s = 1..n
    BY <1>1
<1> HIDE DEF t, n
<1>3. ASSUME NEW x \in Range(t) PROVE x \in Range(s) \cup {w}
    <2>1. PICK j \in 1..(n + 1) : x = t[j]
        BY <1>2 DEF Range
    <2>2. CASE j < i
        <3>1. j \in 1..n /\ x = s[j]
            BY <2>1, <2>2, <1>1 DEF n
        <3>2. QED
            BY <3>1, <1>2 DEF Range
    <2>3. CASE j = i
        BY <2>1, <2>3, <1>1
    <2>4. CASE j > i
        <3>1. j - 1 \in 1..n /\ x = s[j - 1]
            BY <2>1, <2>4, <1>1
        <3>2. QED
            BY <3>1, <1>2 DEF Range
    <2>5. QED
        BY <2>2, <2>3, <2>4, <1>1
<1>4. ASSUME NEW x \in Range(s) \cup {w} PROVE x \in Range(t)
    <2>1. CASE x = w
        <3>1. i \in 1..(n + 1) /\ t[i] = w
            BY <1>1 DEF n
        <3>2. QED
            BY <3>1, <2>1, <1>2 DEF Range
    <2>2. CASE x # w
        <3>1. PICK j \in 1..n : x = s[j]
            BY <2>2, <1>2 DEF Range
        <3>2. CASE j < i
            <4>1. j \in 1..(n + 1) /\ t[j] = x
                BY <3>1, <3>2, <1>1
            <4>2. QED
                BY <4>1, <1>2 DEF Range
        <3>3. CASE j >= i
            <4>1. j + 1 \in 1..(n + 1) /\ ~(j + 1 < i) /\ j + 1 # i /\ (j + 1) - 1 = j
                BY <3>1, <3>3, <1>1
            <4>2. t[j + 1] = x
                BY <4>1, <3>1, <1>1
            <4>3. QED
                BY <4>1, <4>2, <1>2 DEF Range
        <3>4. QED
            BY <3>1, <3>2, <3>3, <1>1
    <2>3. QED
        BY <2>1, <2>2
<1>5. ASSUME IsInjective(s), w \notin Range(s) PROVE IsInjective(t)
    <2> DEFINE from(j) == IF j < i THEN j ELSE j - 1
    <2>1. \A j \in 1..n : s[j] # w
        BY <1>2, <1>5 DEF Range
    <2>2. \A j, k \in 1..n : s[j] = s[k] => j = k
        BY <1>2, <1>5 DEF IsInjective
    <2>3. \A j \in 1..(n + 1) : j # i => from(j) \in 1..n /\ t[j] = s[from(j)]
        BY <1>1 DEF n
    <2>4. SUFFICES ASSUME NEW j \in 1..(n + 1), NEW k \in 1..(n + 1), t[j] = t[k] PROVE j = k
        BY <1>2 DEF IsInjective
    <2>5. CASE j = i \/ k = i
        <3>1. t[i] = w
            BY <1>1, <2>5
        <3>2. QED
            BY <3>1, <2>1, <2>3, <2>4, <2>5
    <2>6. CASE j # i /\ k # i
        <3>1. from(j) = from(k)
            BY <2>2, <2>3, <2>4, <2>6
        <3>2. QED
            BY <3>1, <2>6, <1>1
    <2>7. QED
        BY <2>5, <2>6
<1>6. QED
    BY <1>3, <1>4, <1>5 DEF t

LEMMA RemoveFacts ==
    ASSUME NEW W, NEW s \in Seq(W), NEW i \in 1..Len(s)
    PROVE  /\ RemoveAt(s, i) \in Seq(W) /\ Len(RemoveAt(s, i)) = Len(s) - 1
           /\ \A j \in 1..(Len(s) - 1) : RemoveAt(s, i)[j] = IF j < i THEN s[j] ELSE s[j + 1]
<1> DEFINE front == SubSeq(s, 1, i - 1)
           back == SubSeq(s, i + 1, Len(s))
<1>1. Len(s) \in Nat /\ i \in Nat /\ i >= 1 /\ i <= Len(s)
    OBVIOUS
<1>2. /\ front \in Seq(W) /\ Len(front) = i - 1
      /\ \A j \in 1..(i - 1) : front[j] = s[j]
    BY <1>1, SubSeqProperties
<1>3. /\ back \in Seq(W) /\ Len(back) = Len(s) - i
      /\ \A j \in 1..(Len(s) - i) : back[j] = s[i + j]
    <2>1. /\ back \in Seq(W) /\ Len(back) = (IF i + 1 <= Len(s) THEN Len(s) - (i + 1) + 1 ELSE 0)
          /\ \A j \in 1..(Len(s) - (i + 1) + 1) : back[j] = s[(i + 1) + j - 1]
        BY <1>1, SubSeqProperties
    <2> HIDE DEF back
    <2>2. Len(back) = Len(s) - i
        BY <2>1, <1>1
    <2>3. ASSUME NEW j \in 1..(Len(s) - i) PROVE back[j] = s[i + j]
        <3>1. j \in 1..(Len(s) - (i + 1) + 1) /\ (i + 1) + j - 1 = i + j
            BY <1>1
        <3>2. QED
            BY <3>1, <2>1
    <2>4. QED
        BY <2>1, <2>2, <2>3
<1> HIDE DEF front, back
<1>4. RemoveAt(s, i) = front \o back
    BY DEF RemoveAt, front, back
<1>5. front \o back \in Seq(W) /\ Len(front \o back) = Len(s) - 1
    <2>1. front \o back \in Seq(W) /\ Len(front \o back) = Len(front) + Len(back)
        BY <1>2, <1>3, ConcatProperties
    <2>2. (i - 1) + (Len(s) - i) = Len(s) - 1
        BY <1>1
    <2>3. QED
        BY <2>1, <2>2, <1>2, <1>3
<1>6. ASSUME NEW j \in 1..(Len(s) - 1)
      PROVE  (front \o back)[j] = IF j < i THEN s[j] ELSE s[j + 1]
    <2>1. (front \o back)[j] = IF j <= Len(front) THEN front[j] ELSE back[j - Len(front)]
        <3>1. Len(front) + Len(back) = Len(s) - 1
            BY <1>1, <1>2, <1>3
        <3>2. QED
            BY <3>1, <1>2, <1>3, ConcatProperties, SMTT(60)
    <2>2. CASE j < i
        BY <2>1, <2>2, <1>1, <1>2
    <2>3. CASE j >= i
        <3>1. j - (i - 1) \in 1..(Len(s) - i) /\ i + (j - (i - 1)) = j + 1
            BY <2>3, <1>1
        <3>2. back[j - (i - 1)] = s[j + 1]
            BY <3>1, <1>3
        <3>3. QED
            BY <2>1, <2>3, <3>2, <1>1, <1>2
    <2>4. j < i \/ j >= i
        BY <1>1
    <2>5. QED
        BY <2>2, <2>3, <2>4
<1>7. QED
    BY <1>4, <1>5, <1>6

LEMMA RemoveRange ==
    ASSUME NEW W, NEW s \in Seq(W), IsInjective(s), NEW i \in 1..Len(s)
    PROVE  /\ Range(RemoveAt(s, i)) = Range(s) \ {s[i]}
           /\ IsInjective(RemoveAt(s, i))
<1> DEFINE t == RemoveAt(s, i)
           n == Len(s)
           from(j) == IF j < i THEN j ELSE j + 1
<1>1. /\ t \in Seq(W) /\ Len(t) = n - 1 /\ n \in Nat /\ i \in 1..n
      /\ \A j \in 1..(n - 1) : t[j] = IF j < i THEN s[j] ELSE s[j + 1]
    BY RemoveFacts
<1>2. DOMAIN t = 1..(n - 1) /\ DOMAIN s = 1..n
    BY <1>1
<1> HIDE DEF t, n
<1>3. \A j \in 1..(n - 1) : from(j) \in 1..n /\ from(j) # i /\ t[j] = s[from(j)]
    BY <1>1
<1>4. \A j, k \in 1..n : s[j] = s[k] => j = k
    BY <1>2 DEF IsInjective
<1>5. ASSUME NEW x \in Range(t) PROVE x \in Range(s) /\ x # s[i]
    <2>1. PICK j \in 1..(n - 1) : x = t[j]
        BY <1>2 DEF Range
    <2>2. from(j) \in 1..n /\ from(j) # i /\ x = s[from(j)]
        BY <2>1, <1>3
    <2> HIDE DEF from
    <2>3. x # s[i]
        BY <2>2, <1>1, <1>4
    <2>4. QED
        BY <2>2, <2>3, <1>2 DEF Range
<1>6. ASSUME NEW x \in Range(s), x # s[i] PROVE x \in Range(t)
    <2>1. PICK j \in 1..n : x = s[j]
        BY <1>2 DEF Range
    <2>2. j # i
        BY <2>1, <1>6
    <2>3. CASE j < i
        <3>1. j \in 1..(n - 1) /\ t[j] = x
            BY <2>1, <2>3, <1>1
        <3>2. QED
            BY <3>1, <1>2 DEF Range
    <2>4. CASE j > i
        <3>1. j - 1 \in 1..(n - 1) /\ ~(j - 1 < i) /\ (j - 1) + 1 = j
            BY <2>1, <2>4, <1>1
        <3>2. t[j - 1] = x
            BY <3>1, <2>1, <1>1
        <3>3. QED
            BY <3>1, <3>2, <1>2 DEF Range
    <2>5. j < i \/ j > i
        BY <2>2, <1>1
    <2>6. QED
        BY <2>3, <2>4, <2>5
<1>7. IsInjective(t)
    <2>1. SUFFICES ASSUME NEW j \in 1..(n - 1), NEW k \in 1..(n - 1), t[j] = t[k] PROVE j = k
        BY <1>2 DEF IsInjective
    <2>2. from(j) = from(k)
        BY <2>1, <1>3, <1>4
    <2>3. QED
        BY <2>2, <1>1
<1>8. Range(t) = Range(s) \ {s[i]}
    BY <1>5, <1>6
<1>9. QED
    BY <1>7, <1>8 DEF t

LEMMA EnqueueFacts ==
    ASSUME NEW queue \in Seq(Works), NEW w \in Works
    PROVE  /\ Enqueue(queue, w) \in Seq(Works)
           /\ Range(Enqueue(queue, w)) = Range(queue) \cup {w}
           /\ IsInjective(queue) /\ w \notin Range(queue) => IsInjective(Enqueue(queue, w))
<1> DEFINE lower == {i \in DOMAIN queue: Priority[queue[i]] < Priority[w]}
           at == IF lower = {} THEN Len(queue) + 1 ELSE Min(lower)
<1>1. DOMAIN queue = 1..Len(queue) /\ Len(queue) \in Nat
    OBVIOUS
<1>2. lower \subseteq 1..Len(queue) /\ lower \subseteq Nat
    BY <1>1
<1>3. lower # {} => Min(lower) \in lower
    <2> HIDE DEF lower
    <2>1. QED
        BY <1>2, MinFacts
<1> HIDE DEF lower
<1>4. at \in 1..(Len(queue) + 1)
    <2>1. CASE lower = {}
        BY <2>1, <1>1
    <2>2. CASE lower # {}
        <3>1. at \in 1..Len(queue)
            BY <2>2, <1>2, <1>3
        <3>2. QED
            BY <3>1, <1>1
    <2>3. QED
        BY <2>1, <2>2
<1>5. Enqueue(queue, w) = InsertAt(queue, at, w)
    BY DEF Enqueue, lower
<1> HIDE DEF at
<1>6. QED
    BY <1>4, <1>5, InsertFacts, InsertRange

-----------------------------------------------------------------------------
(* The ascending enumeration of a finite set of numbers, and its lowest.   *)

Ascends(f) == \A i, j \in DOMAIN f : i < j => f[i] < f[j]

LEMMA AscentExists ==
    ASSUME NEW S, S \subseteq Nat, IsFiniteSet(S)
    PROVE  \E f \in [1..Cardinality(S) -> S] : Ascends(f)
<1> DEFINE C == [s \in SUBSET S |-> Max(s)]
           P == {s \in SUBSET S : \E f \in [1..Cardinality(s) -> s] : Ascends(f)}
<1>1. ASSUME NEW s \in SUBSET S, s # {}
      PROVE  /\ Max(s) \in s /\ \A y \in s : y <= Max(s)
             /\ IsFiniteSet(s) /\ Cardinality(s) \in Nat
             /\ Cardinality(s \ {Max(s)}) = Cardinality(s) - 1 /\ Cardinality(s \ {Max(s)}) \in Nat
    <2>1. IsFiniteSet(s) /\ s \subseteq Nat
        BY FS_Subset
    <2>2. Max(s) \in s /\ \A y \in s : y <= Max(s)
        BY <1>1, <2>1, MaxFacts
    <2>3. QED
        BY <2>1, <2>2, SmallerWithout
<1>2. Chooser(C, S)
    BY <1>1 DEF Chooser
<1>3. {} \in P
    <2>1. Cardinality({}) = 0
        BY FS_EmptySet
    <2>2. <<>> \in [1..0 -> {}] /\ Ascends(<<>>)
        BY DEF Ascends
    <2>3. QED
        BY <2>1, <2>2
<1>4. ASSUME NEW s \in SUBSET S, s # {}, s \ {Max(s)} \in P PROVE s \in P
    <2> DEFINE m == Max(s)
               n == Cardinality(s)
    <2>1. /\ m \in s /\ n \in Nat /\ Cardinality(s \ {m}) = n - 1 /\ n - 1 \in Nat
          /\ \A y \in s : y <= m
        BY <1>1, <1>4
    <2>2. PICK f \in [1..Cardinality(s \ {m}) -> s \ {m}] : Ascends(f)
        BY <1>4
    <2>3. f \in [1..(n - 1) -> s \ {m}]
        BY <2>1, <2>2
    <2> HIDE DEF m, n
    <2> DEFINE g == [i \in 1..n |-> IF i = n THEN m ELSE f[i]]
    <2>4. \A i \in 1..n : i # n => i \in 1..(n - 1)
        BY <2>1
    <2>5. \A i \in 1..n : i # n => f[i] \in s /\ f[i] < m
        <3> SUFFICES ASSUME NEW i \in 1..n, i # n PROVE f[i] \in s /\ f[i] < m
            OBVIOUS
        <3>1. f[i] \in s /\ f[i] # m
            BY <2>3, <2>4
        <3>2. f[i] \in Nat /\ m \in Nat /\ f[i] <= m
            BY <3>1, <2>1
        <3>3. QED
            BY <3>1, <3>2
    <2>6. g \in [1..n -> s]
        BY <2>1, <2>5
    <2>7. Ascends(g)
        <3> SUFFICES ASSUME NEW i \in 1..n, NEW j \in 1..n, i < j PROVE g[i] < g[j]
            BY DEF Ascends
        <3>1. i # n /\ i \in 1..(n - 1)
            BY <2>1
        <3>2. CASE j = n
            BY <3>1, <3>2, <2>5
        <3>3. CASE j # n
            BY <3>1, <3>3, <2>2, <2>3, <2>4 DEF Ascends
        <3>4. QED
            BY <3>2, <3>3
    <2>8. QED
        BY <2>6, <2>7 DEF n
<1>5. Climbs(P, C, S)
    BY <1>3, <1>4 DEF Climbs
<1>6. S \in P
    <2> HIDE DEF P, C
    <2>1. \A s \in SUBSET S : s \in P
        BY <1>2, <1>5, FoldInduction
    <2>2. QED
        BY <2>1
<1>7. QED
    BY <1>6

LEMMA AscendingFacts ==
    ASSUME NEW S, S \subseteq Nat, IsFiniteSet(S)
    PROVE  /\ Cardinality(S) \in Nat /\ Ascending(S) \in [1..Cardinality(S) -> S]
           /\ Ascends(Ascending(S)) /\ IsInjective(Ascending(S)) /\ Range(Ascending(S)) = S
<1> DEFINE f == Ascending(S)
           n == Cardinality(S)
<1>1. f \in [1..n -> S] /\ Ascends(f)
    BY AscentExists DEF Ascending, Ascends
<1>2. n \in Nat /\ IsFiniteSet(1..n) /\ Cardinality(1..n) = n
    BY FS_CardinalityType, FS_Interval
<1> HIDE DEF f, n
<1>3. \A i, j \in 1..n : f[i] = f[j] => i = j
    <2> SUFFICES ASSUME NEW i \in 1..n, NEW j \in 1..n, f[i] = f[j] PROVE i = j
        OBVIOUS
    <2>1. f[i] \in Nat /\ f[j] \in Nat
        BY <1>1
    <2>2. ~(i < j) /\ ~(j < i)
        BY <2>1, <1>1 DEF Ascends
    <2>3. QED
        BY <2>2
<1>4. f \in Injection(1..n, S)
    BY <1>1, <1>3 DEF Injection, IsInjective
<1>5. f \in Surjection(1..n, S)
    BY <1>2, <1>4, FS_Injection DEF n
<1>6. IsInjective(f) /\ Range(f) = S
    <2>1. DOMAIN f = 1..n /\ \A i \in 1..n : f[i] \in S
        BY <1>1
    <2>2. \A w \in S : \E i \in 1..n : f[i] = w
        BY <1>5 DEF Surjection
    <2>3. IsInjective(f)
        BY <2>1, <1>3 DEF IsInjective
    <2>4. Range(f) = S
        BY <2>1, <2>2 DEF Range
    <2>5. QED
        BY <2>3, <2>4
<1>7. QED
    BY <1>1, <1>2, <1>6 DEF f, n

(* A page of the k lowest members has k members.                           *)
LEMMA LowestCounted ==
    ASSUME NEW S, S \subseteq Nat, IsFiniteSet(S), NEW k \in 0..Cardinality(S)
    PROVE  LET page == {w \in S : Cardinality({v \in S : v < w}) < k}
           IN  IsFiniteSet(page) /\ Cardinality(page) = k
<1> DEFINE f == Ascending(S)
           n == Cardinality(S)
           page == {w \in S : Cardinality({v \in S : v < w}) < k}
<1>1. /\ n \in Nat /\ f \in [1..n -> S] /\ Ascends(f)
      /\ \A i, j \in 1..n : f[i] = f[j] => i = j
      /\ \A w \in S : \E i \in 1..n : f[i] = w
    <2>1. n \in Nat /\ f \in [1..n -> S] /\ Ascends(f) /\ IsInjective(f) /\ Range(f) = S
        BY AscendingFacts
    <2> HIDE DEF f, n
    <2>2. DOMAIN f = 1..n
        BY <2>1
    <2>3. \A i, j \in 1..n : f[i] = f[j] => i = j
        BY <2>1, <2>2 DEF IsInjective
    <2>4. \A w \in S : \E i \in 1..n : f[i] = w
        BY <2>1, <2>2 DEF Range
    <2>5. QED
        BY <2>1, <2>3, <2>4
<1> HIDE DEF f
<1>2. ASSUME NEW i \in 1..n PROVE Cardinality({v \in S : v < f[i]}) = i - 1
    <2> DEFINE below == {v \in S : v < f[i]}
               g == [j \in 1..(i - 1) |-> f[j]]
    <2>1. i - 1 \in Nat /\ \A j \in 1..(i - 1) : j \in 1..n /\ j < i
        BY <1>1
    <2>2. \A j \in 1..(i - 1) : f[j] \in below
        BY <2>1, <1>1 DEF Ascends
    <2>3. \A v \in below : \E j \in 1..(i - 1) : g[j] = v
        <3> SUFFICES ASSUME NEW v \in below PROVE \E j \in 1..(i - 1) : g[j] = v
            OBVIOUS
        <3>1. PICK j \in 1..n : f[j] = v
            BY <1>1
        <3>2. f[i] \in Nat /\ v \in Nat /\ v < f[i]
            BY <1>1
        <3>3. j # i /\ ~(i < j)
            BY <3>1, <3>2, <1>1 DEF Ascends
        <3>4. j \in 1..(i - 1)
            BY <3>3, <1>1
        <3>5. QED
            BY <3>1, <3>4
    <2>4. g \in Bijection(1..(i - 1), below)
        BY <2>1, <2>2, <2>3, <1>1 DEF Bijection, Injection, Surjection, IsInjective
    <2>5. ExistsBijection(1..(i - 1), below)
        BY <2>4 DEF ExistsBijection
    <2>6. QED
        BY <2>1, <2>5, FS_CountingElements
<1>3. \A i \in 1..n : f[i] \in page <=> i <= k
    <2> SUFFICES ASSUME NEW i \in 1..n PROVE f[i] \in page <=> i <= k
        OBVIOUS
    <2>1. f[i] \in page <=> i - 1 < k
        BY <1>1, <1>2
    <2>2. QED
        BY <2>1, <1>1
<1> DEFINE h == [i \in 1..k |-> f[i]]
<1>4. k \in Nat /\ \A i \in 1..k : i \in 1..n /\ i <= k
    BY <1>1
<1>5. page \subseteq S
    OBVIOUS
<1> HIDE DEF page, n
<1>6. \A w \in page : \E i \in 1..k : h[i] = w
    <2> SUFFICES ASSUME NEW w \in page PROVE \E i \in 1..k : h[i] = w
        OBVIOUS
    <2>1. PICK i \in 1..n : f[i] = w
        BY <1>1, <1>5
    <2>2. i \in 1..k
        BY <2>1, <1>1, <1>3, <1>4
    <2>3. QED
        BY <2>1, <2>2
<1>7. h \in Bijection(1..k, page)
    BY <1>1, <1>3, <1>4, <1>6 DEF Bijection, Injection, Surjection, IsInjective
<1>8. ExistsBijection(1..k, page)
    BY <1>7 DEF ExistsBijection
<1>9. IsFiniteSet(page) /\ Cardinality(page) = k
    BY <1>4, <1>8, FS_CountingElements, FS_NatBijection
<1>10. QED
    BY <1>9 DEF page

-----------------------------------------------------------------------------
(* Work put into a queue one by one, in ascending order.                   *)

Queued(queue, S) == FoldLeft(Enqueue, queue, Ascending(S))

LEMMA QueuedFacts ==
    ASSUME NEW queue \in Seq(Works), NEW S \in SUBSET Works
    PROVE  /\ Queued(queue, S) \in Seq(Works)
           /\ Range(Queued(queue, S)) = Range(queue) \cup S
           /\ IsInjective(queue) /\ S \cap Range(queue) = {} => IsInjective(Queued(queue, S))
<1> DEFINE f == Ascending(S)
           D == DOMAIN f
           C == [s \in SUBSET D |-> Max(s)]
           G == [i \in D |-> [v \in Seq(Works) |-> Enqueue(v, f[i])]]
           Folded(it) == it = [s \in SUBSET D |->
                                 IF s = {} THEN queue ELSE Enqueue(it[s \ {Max(s)}], f[Max(s)])]
           iter == CHOOSE it : Folded(it)
           Put(s) == {f[i] : i \in s}
           P == {s \in SUBSET D :
                    /\ iter[s] \in Seq(Works) /\ Range(iter[s]) = Range(queue) \cup Put(s)
                    /\ IsInjective(queue) /\ S \cap Range(queue) = {} => IsInjective(iter[s])}
<1>1. IsFiniteSet(S) /\ S \subseteq Nat
    BY FS_Subset, FiniteAssumption, IdentityAssumption
<1>2. /\ Cardinality(S) \in Nat /\ f \in [1..Cardinality(S) -> S] /\ IsInjective(f) /\ Range(f) = S
    BY <1>1, AscendingFacts
<1> HIDE DEF f
<1>3. D = 1..Cardinality(S) /\ IsFiniteSet(D) /\ D \subseteq Nat /\ \A i \in D : f[i] \in S /\ f[i] \in Works
    <2>1. D = 1..Cardinality(S)
        BY <1>2
    <2>2. IsFiniteSet(1..Cardinality(S))
        BY <1>2, FS_Interval
    <2>3. QED
        BY <2>1, <2>2, <1>2
<1> HIDE DEF D
<1>4. ASSUME NEW s \in SUBSET D, s # {} PROVE Max(s) \in s /\ Max(s) \in D
    <2>1. IsFiniteSet(s) /\ s \subseteq Nat
        BY <1>3, FS_Subset
    <2>2. QED
        BY <2>1, <1>4, MaxFacts
<1>5. Chooser(C, D)
    BY <1>4 DEF Chooser
<1>6. G \in [D -> [Seq(Works) -> Seq(Works)]]
    BY <1>3, EnqueueFacts
<1>7. PICK it \in [SUBSET D -> Seq(Works)] : FoldOf(it, queue, G, C, SUBSET D)
    <2> HIDE DEF C, G
    <2>1. QED
        BY <1>3, <1>5, <1>6, FoldDefined
<1>8. Folded(it)
    <2>1. ASSUME NEW s \in SUBSET D, s # {} PROVE it[s] = Enqueue(it[s \ {Max(s)}], f[Max(s)])
        <3>1. s \ {Max(s)} \in SUBSET D /\ Max(s) \in D /\ C[s] = Max(s)
            BY <2>1, <1>4
        <3>2. it[s \ {Max(s)}] \in Seq(Works)
            BY <3>1, <1>7
        <3>3. it[s] = G[C[s]][it[s \ {C[s]}]]
            BY <2>1, <1>7 DEF FoldOf
        <3>4. QED
            BY <3>1, <3>2, <3>3
    <2> DEFINE body == [s \in SUBSET D |->
                          IF s = {} THEN queue ELSE Enqueue(it[s \ {Max(s)}], f[Max(s)])]
    <2>2. it \in [SUBSET D -> Seq(Works)] /\ DOMAIN body = SUBSET D
        BY <1>7
    <2>3. \A s \in SUBSET D : it[s] = body[s]
        <3> SUFFICES ASSUME NEW s \in SUBSET D PROVE it[s] = body[s]
            OBVIOUS
        <3>1. CASE s = {}
            BY <3>1, <1>7 DEF FoldOf
        <3>2. CASE s # {}
            BY <3>2, <2>1
        <3>3. QED
            BY <3>1, <3>2
    <2>4. it = body
        <3> HIDE DEF body
        <3>1. body = [s \in SUBSET D |-> body[s]]
            BY DEF body
        <3>2. QED
            BY <2>2, <2>3, <3>1
    <2>5. QED
        BY <2>4
<1>9. Folded(iter)
    BY <1>8
<1>10. Queued(queue, S) = iter[D]
    BY DEF Queued, FoldLeft, MapThenFoldSet, f, D
<1> HIDE DEF iter
<1>11. {} \in P
    <2>1. iter[{}] = queue /\ Put({}) = {}
        BY <1>9
    <2>2. QED
        BY <2>1
<1>12. ASSUME NEW s \in SUBSET D, s # {}, s \ {Max(s)} \in P PROVE s \in P
    <2> DEFINE m == Max(s)
               t == s \ {m}
    <2>1. m \in s /\ m \in D /\ f[m] \in S /\ f[m] \in Works /\ t \in SUBSET D
        BY <1>3, <1>4, <1>12
    <2>2. iter[s] = Enqueue(iter[t], f[m])
        BY <1>9, <1>12
    <2>3. /\ iter[t] \in Seq(Works) /\ Range(iter[t]) = Range(queue) \cup Put(t)
          /\ IsInjective(queue) /\ S \cap Range(queue) = {} => IsInjective(iter[t])
        BY <1>12
    <2>4. Put(s) = Put(t) \cup {f[m]}
        BY <2>1
    <2>5. f[m] \notin Put(t)
        BY <2>1, <1>2 DEF IsInjective, D
    <2> HIDE DEF m, t, Put
    <2>6. /\ iter[s] \in Seq(Works) /\ Range(iter[s]) = Range(iter[t]) \cup {f[m]}
          /\ IsInjective(iter[t]) /\ f[m] \notin Range(iter[t]) => IsInjective(iter[s])
        <3> DEFINE v == iter[t]
                   x == f[m]
        <3>1. v \in Seq(Works) /\ x \in Works /\ iter[s] = Enqueue(v, x)
            BY <2>1, <2>2, <2>3
        <3> HIDE DEF v, x
        <3>2. /\ Enqueue(v, x) \in Seq(Works) /\ Range(Enqueue(v, x)) = Range(v) \cup {x}
              /\ IsInjective(v) /\ x \notin Range(v) => IsInjective(Enqueue(v, x))
            BY <3>1, EnqueueFacts
        <3>3. QED
            BY <3>1, <3>2 DEF v, x
    <2>7. S \cap Range(queue) = {} => f[m] \notin Range(iter[t])
        BY <2>1, <2>3, <2>5
    <2>8. Range(iter[s]) = Range(queue) \cup Put(s)
        BY <2>3, <2>4, <2>6
    <2>9. QED
        BY <2>3, <2>6, <2>7, <2>8
<1>13. Climbs(P, C, D)
    BY <1>11, <1>12 DEF Climbs
<1>14. D \in P
    <2> HIDE DEF P, C
    <2>1. \A s \in SUBSET D : s \in P
        BY <1>3, <1>5, <1>13, FoldInduction
    <2>2. QED
        BY <2>1
<1>15. Put(D) = S
    BY <1>2 DEF Range, D
<1>16. QED
    BY <1>10, <1>14, <1>15

-----------------------------------------------------------------------------
(* Parked work: the sum over pages, and the charge of a wake.              *)

LEMMA PagesSum ==
    ASSUME NEW chain \in Seq(SUBSET Works), Disjoint(chain, DOMAIN chain)
    PROVE  FoldSeq(LAMBDA page, n : Cardinality(page) + n, 0, chain) = Cardinality(UNION Range(chain))
<1> DEFINE D == DOMAIN chain
           C == [s \in SUBSET D |-> CHOOSE x \in s : TRUE]
           G == [i \in D |-> [n \in Nat |-> Cardinality(chain[i]) + n]]
           Folded(it) == it = [s \in SUBSET D |->
                                 IF s = {} THEN 0
                                 ELSE Cardinality(chain[CHOOSE x \in s : TRUE]) + it[s \ {CHOOSE x \in s : TRUE}]]
           iter == CHOOSE it : Folded(it)
<1>1. D = 1..Len(chain) /\ Len(chain) \in Nat
    OBVIOUS
<1>2. IsFiniteSet(D)
    BY <1>1, FS_Interval
<1>3. \A i \in D : IsFiniteSet(chain[i]) /\ Cardinality(chain[i]) \in Nat
    <2> SUFFICES ASSUME NEW i \in D PROVE IsFiniteSet(chain[i]) /\ Cardinality(chain[i]) \in Nat
        OBVIOUS
    <2>1. chain[i] \in SUBSET Works
        OBVIOUS
    <2>2. IsFiniteSet(chain[i])
        BY <2>1, FiniteAssumption, FS_Subset
    <2>3. QED
        BY <2>2, FS_CardinalityType
<1> HIDE DEF D
<1>4. \A s \in SUBSET D : s # {} => C[s] \in s /\ C[s] \in D
    OBVIOUS
<1>5. Chooser(C, D)
    BY <1>4 DEF Chooser
<1>6. G \in [D -> [Nat -> Nat]]
    BY <1>3
<1>7. PICK it \in [SUBSET D -> Nat] : FoldOf(it, 0, G, C, SUBSET D)
    <2> HIDE DEF C, G
    <2>1. 0 \in Nat
        OBVIOUS
    <2>2. QED
        BY <1>2, <1>5, <1>6, <2>1, FoldDefined
<1>8. Folded(it)
    <2>1. ASSUME NEW s \in SUBSET D, s # {} PROVE it[s] = Cardinality(chain[C[s]]) + it[s \ {C[s]}]
        <3>1. s \ {C[s]} \in SUBSET D
            OBVIOUS
        <3>2. it[s \ {C[s]}] \in Nat
            BY <3>1, <1>7
        <3>3. QED
            BY <3>2, <2>1, <1>4, <1>7 DEF FoldOf
    <2> DEFINE body == [s \in SUBSET D |->
                          IF s = {} THEN 0
                          ELSE Cardinality(chain[CHOOSE x \in s : TRUE]) + it[s \ {CHOOSE x \in s : TRUE}]]
    <2>2. it \in [SUBSET D -> Nat] /\ DOMAIN body = SUBSET D
        BY <1>7
    <2>3. \A s \in SUBSET D : it[s] = body[s]
        BY <2>1, <1>7 DEF FoldOf
    <2>4. it = body
        <3> HIDE DEF body
        <3>1. body = [s \in SUBSET D |-> body[s]]
            BY DEF body
        <3>2. QED
            BY <2>2, <2>3, <3>1
    <2>5. QED
        BY <2>4
<1>9. Folded(iter)
    BY <1>8
<1>10. FoldSeq(LAMBDA page, n : Cardinality(page) + n, 0, chain) = iter[D]
    BY DEF FoldSeq, FoldFunction, FoldFunctionOnSet, MapThenFoldSet, D
<1>11. iter \in [SUBSET D -> Nat]
    <2> DEFINE P == {s \in SUBSET D : iter[s] \in Nat}
    <2> HIDE DEF iter
    <2>1. {} \in P
        BY <1>9
    <2>2. ASSUME NEW s \in SUBSET D, s # {}, s \ {C[s]} \in P PROVE s \in P
        <3>1. iter[s] = Cardinality(chain[C[s]]) + iter[s \ {C[s]}]
            BY <1>9, <2>2
        <3>2. QED
            BY <3>1, <2>2, <1>3, <1>4
    <2>3. Climbs(P, C, D)
        BY <2>1, <2>2 DEF Climbs
    <2>4. \A s \in SUBSET D : s \in P
        <3> HIDE DEF P, C
        <3>1. QED
            BY <1>2, <1>5, <2>3, FoldInduction
    <2>5. \A s \in SUBSET D : iter[s] \in Nat
        BY <2>4
    <2>6. QED
        BY <2>5, <1>9
<1>12. Sums(iter, chain, C, D)
    <2> HIDE DEF iter
    <2>1. iter[{}] = 0
        BY <1>9
    <2>2. ASSUME NEW s \in SUBSET D, s # {} PROVE iter[s] = iter[s \ {C[s]}] + Cardinality(chain[C[s]])
        <3>1. iter[s] = Cardinality(chain[C[s]]) + iter[s \ {C[s]}]
            BY <1>9, <2>2
        <3>2. iter[s \ {C[s]}] \in Nat /\ Cardinality(chain[C[s]]) \in Nat
            BY <1>3, <1>4, <1>11, <2>2
        <3>3. QED
            BY <3>1, <3>2
    <2>3. QED
        BY <2>1, <2>2 DEF Sums
<1>13. LET U == UNION {chain[i] : i \in D} IN IsFiniteSet(U) /\ iter[D] = Cardinality(U)
    <2>1. Disjoint(chain, D)
        BY DEF D
    <2> HIDE DEF C, iter
    <2>2. QED
        BY <1>2, <1>3, <1>5, <1>12, <2>1, UnionCounted
<1>14. UNION {chain[i] : i \in D} = UNION Range(chain)
    BY DEF Range, D
<1>15. QED
    BY <1>10, <1>13, <1>14

Charges == [Waits -> [work: Nat, pages: Nat]]

LEMMA SourceItemsType ==
    ASSUME NEW dir \in Charges, NEW x \in Waits
    PROVE  SourceItems(dir[x]) \in Nat
BY DEF Charges, SourceItems

WaitChoice == [s \in SUBSET Waits |-> CHOOSE x \in s : TRUE]

WakeFold(it, dir) ==
    /\ it \in [SUBSET Waits -> Nat] /\ it[{}] = 0
    /\ \A s \in SUBSET Waits :
          s # {} => it[s] = it[s \ {WaitChoice[s]}] + SourceItems(dir[WaitChoice[s]])

LEMMA WaitChooser ==
    /\ Chooser(WaitChoice, Waits) /\ IsFiniteSet(Waits)
    /\ \A s \in SUBSET Waits : s # {} => WaitChoice[s] \in s /\ WaitChoice[s] \in Waits
BY FiniteAssumption DEF Chooser, WaitChoice

(* The unfolding of the sum over the directory.                            *)
LEMMA WakeUnfolds ==
    ASSUME NEW dir \in Charges
    PROVE  \E it : WakeFold(it, dir) /\ WakeItems(dir) = it[Waits]
<1> DEFINE C == WaitChoice
           G == [x \in Waits |-> [n \in Nat |-> n + SourceItems(dir[x])]]
           Folded(it) == it = [s \in SUBSET Waits |->
                                 IF s = {} THEN 0
                                 ELSE it[s \ {CHOOSE x \in s : TRUE}] + SourceItems(dir[CHOOSE x \in s : TRUE])]
           iter == CHOOSE it : Folded(it)
<1>1. IsFiniteSet(Waits)
    BY FiniteAssumption
<1>2. \A s \in SUBSET Waits : s # {} => C[s] \in s /\ C[s] \in Waits
    BY WaitChooser
<1>3. Chooser(C, Waits)
    BY WaitChooser
<1>4. G \in [Waits -> [Nat -> Nat]]
    BY SourceItemsType
<1>5. PICK it \in [SUBSET Waits -> Nat] : FoldOf(it, 0, G, C, SUBSET Waits)
    <2> HIDE DEF G
    <2>1. 0 \in Nat
        OBVIOUS
    <2>2. QED
        BY <1>1, <1>3, <1>4, <2>1, FoldDefined
<1>6. Folded(it)
    <2>1. ASSUME NEW s \in SUBSET Waits, s # {} PROVE it[s] = it[s \ {C[s]}] + SourceItems(dir[C[s]])
        <3>1. s \ {C[s]} \in SUBSET Waits
            OBVIOUS
        <3>2. it[s \ {C[s]}] \in Nat
            BY <3>1, <1>5
        <3>3. QED
            BY <3>2, <2>1, <1>2, <1>5 DEF FoldOf
    <2> DEFINE body == [s \in SUBSET Waits |->
                          IF s = {} THEN 0
                          ELSE it[s \ {CHOOSE x \in s : TRUE}] + SourceItems(dir[CHOOSE x \in s : TRUE])]
    <2>2. it \in [SUBSET Waits -> Nat] /\ DOMAIN body = SUBSET Waits
        BY <1>5
    <2>3. \A s \in SUBSET Waits : it[s] = body[s]
        BY <2>1, <1>5, ZenonT(30) DEF FoldOf, WaitChoice
    <2>4. it = body
        <3> HIDE DEF body
        <3>1. body = [s \in SUBSET Waits |-> body[s]]
            BY DEF body
        <3>2. QED
            BY <2>2, <2>3, <3>1
    <2>5. QED
        BY <2>4
<1>7. Folded(iter)
    BY <1>6
<1>8. WakeItems(dir) = iter[Waits]
    BY DEF WakeItems, FoldSet, MapThenFoldSet
<1> HIDE DEF iter
<1>9. /\ iter[{}] = 0
      /\ \A s \in SUBSET Waits : s # {} => iter[s] = iter[s \ {C[s]}] + SourceItems(dir[C[s]])
    BY <1>7 DEF WaitChoice
<1>10. iter \in [SUBSET Waits -> Nat]
    <2> DEFINE P == {s \in SUBSET Waits : iter[s] \in Nat}
    <2>1. {} \in P
        BY <1>9
    <2>2. ASSUME NEW s \in SUBSET Waits, s # {}, s \ {C[s]} \in P PROVE s \in P
        <3>1. iter[s \ {C[s]}] \in Nat /\ SourceItems(dir[C[s]]) \in Nat
            BY <2>2, <1>2, SourceItemsType
        <3>2. iter[s] = iter[s \ {C[s]}] + SourceItems(dir[C[s]])
            BY <2>2, <1>9
        <3>3. QED
            BY <3>1, <3>2
    <2>3. Climbs(P, C, Waits)
        BY <2>1, <2>2 DEF Climbs
    <2>4. \A s \in SUBSET Waits : s \in P
        <3> HIDE DEF P
        <3>1. QED
            BY <1>1, <1>3, <2>3, FoldInduction
    <2>5. \A s \in SUBSET Waits : iter[s] \in Nat
        BY <2>4
    <2>6. QED
        BY <2>5, <1>7
<1>11. QED
    BY <1>8, <1>9, <1>10 DEF WakeFold

(* A directory that charges no Wait more has no greater sum.               *)
LEMMA WakeMonotone ==
    ASSUME NEW dir \in Charges, NEW new \in Charges,
           \A x \in Waits : SourceItems(new[x]) <= SourceItems(dir[x])
    PROVE  WakeItems(new) <= WakeItems(dir)
<1>1. PICK f : WakeFold(f, dir) /\ WakeItems(dir) = f[Waits]
    BY WakeUnfolds
<1>2. PICK g : WakeFold(g, new) /\ WakeItems(new) = g[Waits]
    BY WakeUnfolds
<1> DEFINE C == WaitChoice
           P == {s \in SUBSET Waits : g[s] <= f[s]}
<1>3. ASSUME NEW s \in SUBSET Waits, s # {}, s \ {C[s]} \in P PROVE s \in P
    <2>1. C[s] \in Waits /\ s \ {C[s]} \in SUBSET Waits
        BY <1>3, WaitChooser
    <2>2. /\ SourceItems(dir[C[s]]) \in Nat /\ SourceItems(new[C[s]]) \in Nat
          /\ SourceItems(new[C[s]]) <= SourceItems(dir[C[s]])
        BY <2>1, SourceItemsType
    <2>3. f[s \ {C[s]}] \in Nat /\ g[s \ {C[s]}] \in Nat /\ g[s \ {C[s]}] <= f[s \ {C[s]}]
        BY <2>1, <1>1, <1>2, <1>3 DEF WakeFold
    <2>4. f[s] = f[s \ {C[s]}] + SourceItems(dir[C[s]]) /\ g[s] = g[s \ {C[s]}] + SourceItems(new[C[s]])
        BY <1>1, <1>2, <1>3 DEF WakeFold
    <2>5. g[s] <= f[s]
        BY <2>2, <2>3, <2>4
    <2>6. QED
        BY <2>5
<1>4. Climbs(P, C, Waits)
    BY <1>1, <1>2, <1>3, SMTT(30) DEF Climbs, WakeFold
<1>5. \A s \in SUBSET Waits : s \in P
    <2> HIDE DEF P
    <2>1. QED
        BY <1>4, WaitChooser, FoldInduction
<1>6. QED
    BY <1>1, <1>2, <1>5

(* An empty directory charges nothing.                                     *)
LEMMA WakeNothing == WakeItems([x \in Waits |-> NoCharge]) = 0
<1> DEFINE C == WaitChoice
           dir == [x \in Waits |-> NoCharge]
<1>1. dir \in Charges /\ \A x \in Waits : SourceItems(dir[x]) = 0
    BY DEF Charges, NoCharge, SourceItems
<1> HIDE DEF dir
<1>2. PICK f : WakeFold(f, dir) /\ WakeItems(dir) = f[Waits]
    BY <1>1, WakeUnfolds
<1> DEFINE P == {s \in SUBSET Waits : f[s] = 0}
<1>3. ASSUME NEW s \in SUBSET Waits, s # {}, s \ {C[s]} \in P PROVE s \in P
    BY <1>1, <1>2, <1>3, WaitChooser DEF WakeFold
<1>4. Climbs(P, C, Waits)
    BY <1>2, <1>3 DEF Climbs, WakeFold
<1>5. \A s \in SUBSET Waits : s \in P
    <2> HIDE DEF P
    <2>1. QED
        BY <1>4, WaitChooser, FoldInduction
<1>6. QED
    BY <1>2, <1>5 DEF dir

LEMMA WakeType ==
    ASSUME NEW dir \in Charges
    PROVE  WakeItems(dir) \in Nat
<1>1. PICK it : WakeFold(it, dir) /\ WakeItems(dir) = it[Waits]
    BY WakeUnfolds
<1>2. QED
    BY <1>1 DEF WakeFold
-----------------------------------------------------------------------------
(* The arithmetic of weighted-deficit selection.                           *)

LEMMA ProductType == ASSUME NEW a \in Nat, NEW b \in Nat PROVE a * b \in Nat
OBVIOUS

LEMMA Ceiling ==
    ASSUME NEW m \in Nat \ {0}, NEW q \in Nat \ {0}, NEW r,
           r = m \div q + (IF m % q = 0 THEN 0 ELSE 1)
    PROVE  r \in Nat /\ r >= 1 /\ q * (r - 1) < m /\ m <= q * r
<1> DEFINE d == m \div q
           e == m % q
<1>1. d \in Nat /\ e \in Nat /\ e < q /\ m = q * d + e
    OBVIOUS
<1> HIDE DEF d, e
<1>2. r = d + (IF e = 0 THEN 0 ELSE 1)
    BY DEF d, e
<1>3. q * 0 = 0 /\ q * (d + 1) = q * d + q /\ q * ((d + 1) - 1) = q * d /\ q * (d - 1) = q * d - q
    BY <1>1
<1>4. q * d \in Nat
    BY <1>1, ProductType
<1>5. CASE e = 0
    <2>1. r = d /\ m = q * d
        BY <1>1, <1>2, <1>4, <1>5
    <2>2. d # 0
        BY <2>1, <1>3
    <2>3. QED
        BY <2>1, <2>2, <1>1, <1>3, <1>4
<1>6. CASE e # 0
    <2>1. r = d + 1
        BY <1>2, <1>6
    <2>2. r - 1 = d
        BY <2>1, <1>1
    <2>3. q * (r - 1) = q * d /\ q * r = q * d + q
        BY <2>1, <2>2, <1>3
    <2>4. r \in Nat /\ r >= 1
        BY <2>1, <1>1
    <2> DEFINE a == q * d
    <2> HIDE DEF a
    <2>5. a < m /\ m <= a + q
        BY <1>1, <1>4, <1>6 DEF a
    <2>6. QED
        BY <2>3, <2>4, <2>5 DEF a
<1>7. QED
    BY <1>5, <1>6

LEMMA GrantGrows ==
    ASSUME NEW q \in Nat, NEW a \in Nat, NEW b \in Nat, a <= b
    PROVE  q * a <= q * b
<1>1. b - a \in Nat /\ q * b = q * a + q * (b - a)
    OBVIOUS
<1>2. q * (b - a) \in Nat /\ q * a \in Nat
    BY <1>1, ProductType
<1>3. QED
    BY <1>1, <1>2

(* The rounds a deficit takes to cover a cost are the fewest that do.      *)
LEMMA RoundsFacts ==
    ASSUME NEW d \in Nat, NEW c \in Nat \ {0}, NEW q \in Nat \ {0}
    PROVE  LET r == RequiredRounds(d, c, q)
           IN  /\ r \in Nat /\ d + q * r >= c
               /\ \A k \in Nat : k < r => d + q * k < c
<1> DEFINE r == RequiredRounds(d, c, q)
<1>1. CASE d >= c
    <2>1. r = 0 /\ q * 0 = 0
        BY <1>1 DEF RequiredRounds
    <2>2. QED
        BY <2>1, <1>1
<1>2. CASE d < c
    <2>1. c - d \in Nat \ {0} /\ r = (c - d) \div q + (IF (c - d) % q = 0 THEN 0 ELSE 1)
        BY <1>2 DEF RequiredRounds
    <2> HIDE DEF r
    <2>2. r \in Nat /\ r >= 1 /\ q * (r - 1) < c - d /\ c - d <= q * r
        BY <2>1, Ceiling
    <2>3. ASSUME NEW k \in Nat, k < r PROVE d + q * k < c
        <3>1. q * k <= q * (r - 1) /\ q * k \in Nat /\ q * (r - 1) \in Nat
            BY <2>2, <2>3, GrantGrows, ProductType
        <3>2. QED
            BY <3>1, <2>2
    <2>4. q * r \in Nat
        BY <2>2, ProductType
    <2>5. QED
        BY <2>2, <2>3, <2>4 DEF r
<1>3. QED
    BY <1>1, <1>2

(* A Run that cannot pay yet keeps what it was granted.                    *)
LEMMA IncompleteFacts ==
    ASSUME NEW d \in Nat, NEW c \in Nat \ {0}, NEW q \in Nat \ {0}, NEW k \in Nat
    PROVE  /\ AfterIncompleteRounds(d, c, q, k) \in Nat \cup {Refused}
           /\ k = 0 \/ k < RequiredRounds(d, c, q) => AfterIncompleteRounds(d, c, q, k) = d + q * k
<1>1. q * k \in Nat /\ d + q * k \in Nat /\ (k = 0 => q * k = 0)
    BY ProductType
<1>2. RequiredRounds(d, c, q) \in Nat /\ \A j \in Nat : j < RequiredRounds(d, c, q) => d + q * j < c
    BY RoundsFacts
<1>3. AfterIncompleteRounds(d, c, q, k) \in Nat \cup {Refused}
    BY <1>1 DEF AfterIncompleteRounds
<1>4. CASE k = 0
    BY <1>1, <1>3, <1>4 DEF AfterIncompleteRounds
<1>5. CASE k # 0
    <2>1. ASSUME k < RequiredRounds(d, c, q) PROVE AfterIncompleteRounds(d, c, q, k) = d + q * k
        BY <1>1, <1>2, <1>5, <2>1 DEF AfterIncompleteRounds
    <2>2. QED
        BY <2>1, <1>3, <1>5
<1>6. QED
    BY <1>4, <1>5

(* The Run that pays keeps less than it was granted.                       *)
LEMMA ClaimFacts ==
    ASSUME NEW d \in Nat, NEW c \in Nat \ {0}, NEW q \in Nat \ {0}, NEW r,
           r = RequiredRounds(d, c, q)
    PROVE  AfterClaim(d, c, q, r) = (d + q * r) - c /\ AfterClaim(d, c, q, r) \in Nat
<1>1. /\ r \in Nat /\ d + q * r >= c /\ q * r \in Nat
      /\ \A k \in Nat : k < r => d + q * k < c
    BY RoundsFacts, ProductType
<1>2. CASE r = 0
    <2>1. AfterClaim(d, c, q, r) = d - c /\ q * r = 0
        BY <1>2 DEF AfterClaim
    <2>2. QED
        BY <2>1, <1>1
<1>3. CASE r # 0
    <2> DEFINE before == d + q * (r - 1)
    <2>1. r - 1 \in Nat /\ r - 1 < r
        BY <1>1, <1>3
    <2>2. AfterIncompleteRounds(d, c, q, r - 1) = before
        BY <2>1, IncompleteFacts
    <2>3. before \in Nat /\ before < c
        <3>1. q * (r - 1) \in Nat
            BY <2>1, ProductType
        <3>2. d + q * (r - 1) < c
            BY <2>1, <1>1
        <3>3. QED
            BY <3>1, <3>2
    <2>4. q * r = q * (r - 1) + q
        BY <1>1
    <2>5. before + q = d + q * r
        BY <2>4, <2>1, <1>1, ProductType
    <2> HIDE DEF before
    <2>6. c - before >= 1 /\ c - before <= q /\ before # Refused
        BY <2>3, <2>5, <1>1 DEF Refused
    <2>7. AfterClaim(d, c, q, r) = q - (c - before)
        BY <2>2, <2>3, <2>6, <1>3 DEF AfterClaim
    <2>8. QED
        BY <2>3, <2>5, <2>6, <2>7, <1>1
<1>4. QED
    BY <1>2, <1>3

-----------------------------------------------------------------------------
(* Selection.                                                              *)

Leads(f, i, j) == f[j] < f[i] \/ (f[j] = f[i] /\ i <= j)

(* There is a first one among the greatest.                                *)
LEMMA LeaderExists ==
    ASSUME NEW S, S \subseteq Nat, IsFiniteSet(S), S # {}, NEW f \in [S -> Int]
    PROVE  \E i \in S : \A j \in S : Leads(f, i, j)
<1> DEFINE C == [s \in SUBSET S |-> CHOOSE x \in s : TRUE]
           P == {s \in SUBSET S : s # {} => \E i \in s : \A j \in s : Leads(f, i, j)}
<1>1. Chooser(C, S)
    BY DEF Chooser
<1>2. ASSUME NEW s \in SUBSET S, s # {}, s \ {C[s]} \in P PROVE s \in P
    <2> DEFINE c == C[s]
    <2>1. c \in s /\ c \in S /\ c \in Nat /\ f[c] \in Int
        BY <1>1, <1>2 DEF Chooser
    <2> HIDE DEF c
    <2>2. CASE s \ {c} = {}
        <3>1. s = {c}
            BY <2>1, <2>2
        <3>2. Leads(f, c, c)
            BY <2>1 DEF Leads
        <3>3. QED
            BY <3>1, <3>2
    <2>3. CASE s \ {c} # {}
        <3>1. PICK i \in s \ {c} : \A j \in s \ {c} : Leads(f, i, j)
            BY <1>2, <2>3 DEF c
        <3>2. i \in Nat /\ f[i] \in Int /\ i # c
            OBVIOUS
        <3>3. Leads(f, i, c) \/ Leads(f, c, i)
            BY <3>2, <2>1 DEF Leads
        <3>4. CASE Leads(f, i, c)
            BY <3>1, <3>4
        <3>5. CASE Leads(f, c, i)
            <4>1. ASSUME NEW j \in s \ {c} PROVE Leads(f, c, j)
                <5>1. Leads(f, i, j) /\ j \in Nat /\ f[j] \in Int
                    BY <3>1
                <5>2. QED
                    BY <5>1, <3>2, <3>5, <2>1 DEF Leads
            <4>2. Leads(f, c, c)
                BY <2>1 DEF Leads
            <4>3. QED
                BY <4>1, <4>2, <2>1
        <3>6. QED
            BY <3>3, <3>4, <3>5
    <2>4. QED
        BY <2>2, <2>3
<1> HIDE DEF C, P
<1>3. {} \in P
    BY DEF P
<1>4. Climbs(P, C, S)
    BY <1>2, <1>3 DEF Climbs
<1>5. S \in P
    BY <1>1, <1>4, FoldInduction
<1>6. QED
    BY <1>5 DEF P

LEMMA QueueDomain ==
    ASSUME NEW s \in Seq(Works)
    PROVE  /\ DOMAIN s = 1..Len(s) /\ DOMAIN s \subseteq Nat /\ IsFiniteSet(DOMAIN s)
           /\ Len(s) \in Nat /\ \A i \in DOMAIN s : s[i] \in Works
<1>1. DOMAIN s = 1..Len(s) /\ Len(s) \in Nat /\ \A i \in DOMAIN s : s[i] \in Works
    OBVIOUS
<1>2. IsFiniteSet(1..Len(s))
    BY <1>1, FS_Interval
<1>3. QED
    BY <1>1, <1>2

(* The item a Run would be served is one of its queue.                     *)
LEMMA BestFacts ==
    ASSUME TypeOK, NEW caps, NEW q \in Candidates(caps)
    PROVE  /\ q \in Runs /\ Best(q, caps) \in Range(ready[q]) /\ Best(q, caps) \in Works
           /\ \E i \in DOMAIN ready[q] : ready[q][i] = Best(q, caps)
<1> DEFINE offered == Offered(q, caps)
           f == [i \in offered |-> Score(ready[q][i])]
<1>1. q \in Runs /\ offered # {} /\ ready[q] \in Seq(Works)
    BY DEF Candidates, TypeOK
<1>2. offered \subseteq DOMAIN ready[q]
    BY DEF Offered
<1>3. offered \subseteq Nat /\ IsFiniteSet(offered) /\ \A i \in offered : ready[q][i] \in Works
    BY <1>1, <1>2, QueueDomain, FS_Subset
<1>4. ASSUME NEW i \in offered PROVE Score(ready[q][i]) \in Int
    <2>1. ready[q][i] \in Works
        BY <1>3
    <2>2. Priority[ready[q][i]] \in Nat /\ since[ready[q][i]] \in Int /\ sequence \in Nat /\ AgingInterval \in Nat \ {0}
        BY <2>1, PolicyAssumption DEF TypeOK
    <2>3. (sequence - since[ready[q][i]]) \div AgingInterval \in Int
        BY <2>2
    <2>4. QED
        BY <2>2, <2>3 DEF Score
<1> HIDE DEF offered
<1>5. f \in [offered -> Int]
    BY <1>4
<1>6. PICK i \in offered : \A j \in offered : Leads(f, i, j)
    BY <1>1, <1>3, <1>5, LeaderExists
<1>7. \E k \in offered : \A j \in offered :
          Score(ready[q][j]) < Score(ready[q][k]) \/ (Score(ready[q][j]) = Score(ready[q][k]) /\ k <= j)
    BY <1>6 DEF Leads
<1> DEFINE at == CHOOSE k \in offered : \A j \in offered :
          Score(ready[q][j]) < Score(ready[q][k]) \/ (Score(ready[q][j]) = Score(ready[q][k]) /\ k <= j)
<1>8. at \in offered
    BY <1>7
<1>9. Best(q, caps) = ready[q][at]
    BY DEF Best, offered
<1> HIDE DEF at
<1>10. QED
    BY <1>1, <1>2, <1>3, <1>8, <1>9 DEF Range

LEMMA VisitType ==
    ASSUME TypeOK, NEW q \in Runs
    PROVE  Visit(q) \in Nat
<1>1. Runs \subseteq Nat /\ Runs # {} /\ IsFiniteSet(Runs)
    BY FiniteAssumption, IdentityAssumption
<1>2. Max(Runs) \in Runs
    BY <1>1, MaxFacts
<1>3. lastRun \in Nat
    BY <1>1 DEF TypeOK, None
<1>4. q \in Nat /\ Max(Runs) \in Nat
    BY <1>1, <1>2
<1> DEFINE m == Max(Runs)
<1> HIDE DEF m
<1>5. (IF q > lastRun THEN q ELSE q + m) \in Nat
    BY <1>3, <1>4 DEF m
<1>6. QED
    BY <1>5 DEF Visit, LastOfScan, m

(* What a candidate costs and is granted.                                  *)
LEMMA PriceFacts ==
    ASSUME TypeOK, NEW caps, NEW q \in Candidates(caps)
    PROVE  /\ run[q].deficit \in Nat /\ Cost[Best(q, caps)] \in Nat \ {0} /\ Quantum(q) \in Nat \ {0}
           /\ Rounds(q, caps) \in Nat
<1>1. q \in Runs /\ Best(q, caps) \in Works
    BY BestFacts
<1>2. Cost[Best(q, caps)] \in Nat \ {0}
    BY <1>1, PolicyAssumption
<1>3. run[q].deficit \in Nat /\ run[q].weight \in Nat \ {0} /\ BaseQuantum \in Nat \ {0}
    <2>1. run[q] \in [weight: Weights, deficit: Nat] /\ Weights \subseteq Nat \ {0}
        BY <1>1, PolicyAssumption DEF TypeOK
    <2>2. BaseQuantum \in 1..MaxExact /\ MaxExact \in Nat
        BY PolicyAssumption
    <2>3. BaseQuantum \in Nat \ {0}
        BY <2>2
    <2>4. QED
        BY <2>1, <2>3
<1>4. Quantum(q) \in Nat \ {0}
    BY <1>3 DEF Quantum
<1>5. RequiredRounds(run[q].deficit, Cost[Best(q, caps)], Quantum(q)) \in Nat
    BY <1>2, <1>3, <1>4, RoundsFacts
<1>6. QED
    BY <1>2, <1>3, <1>4, <1>5 DEF Rounds

(* The Run selected needs the fewest rounds and is the first such visited. *)
LEMMA SelectedFacts ==
    ASSUME TypeOK, NEW caps, Candidates(caps) # {}
    PROVE  /\ FewestRounds(caps) \in Nat
           /\ \A p \in Candidates(caps) : FewestRounds(caps) <= Rounds(p, caps)
           /\ Selected(caps) \in Candidates(caps)
           /\ Rounds(Selected(caps), caps) = FewestRounds(caps)
           /\ \A p \in Candidates(caps) : Rounds(p, caps) = FewestRounds(caps)
                 => Visit(Selected(caps)) <= Visit(p)
<1> DEFINE all == {Rounds(q, caps) : q \in Candidates(caps)}
           payers == {q \in Candidates(caps) : Rounds(q, caps) = FewestRounds(caps)}
           visits == {Visit(q) : q \in payers}
<1>1. all \subseteq Nat /\ all # {}
    BY PriceFacts
<1>2. FewestRounds(caps) \in all /\ \A y \in all : FewestRounds(caps) <= y
    <2> HIDE DEF all
    <2>1. Min(all) \in all /\ \A y \in all : Min(all) <= y
        BY <1>1, MinFacts
    <2>2. QED
        BY <2>1 DEF FewestRounds, all
<1>3. payers # {}
    BY <1>2
<1>4. \A q \in payers : q \in Candidates(caps) /\ q \in Runs /\ Visit(q) \in Nat
    BY VisitType DEF Candidates
<1> HIDE DEF payers
<1>5. visits \subseteq Nat /\ visits # {}
    BY <1>3, <1>4
<1>6. PICK v \in visits : \A y \in visits : v <= y
    BY <1>5, LeastExists
<1>7. \E q \in payers : \A p \in payers : Visit(q) <= Visit(p)
    BY <1>6
<1>8. Selected(caps) \in payers /\ \A p \in payers : Visit(Selected(caps)) <= Visit(p)
    BY <1>7 DEF Selected, payers
<1>9. QED
    BY <1>1, <1>2, <1>8 DEF payers

LEMMA CountUpTo ==
    ASSUME NEW n \in Nat, NEW m \in Nat, m <= n
    PROVE  Cardinality({k \in 1..n : k <= m}) = m
<1>1. {k \in 1..n : k <= m} = 1..m
    OBVIOUS
<1>2. Cardinality(1..m) = m
    BY FS_Interval
<1>3. QED
    BY <1>1, <1>2

(* What each candidate is left with is what the scan would leave it, where *)
(* no quantum is out of range.                                             *)
LEMMA SettledFacts ==
    ASSUME TypeOK, NEW caps, Candidates(caps) # {}, QuantaExact(caps), NEW p \in Candidates(caps)
    PROVE  LET last == FewestRounds(caps)
               payer == Selected(caps)
               price(q) == Cost[Best(q, caps)]
               granted(q, k) == run[q].deficit + Quantum(q) * k
               earlier(q, k) == k < last \/ (k = last /\ Visit(q) < Visit(payer))
               visits(q) == Cardinality({k \in 1..last : earlier(q, k) \/ q = payer})
           IN /\ p = payer => granted(p, last) >= price(p)
              /\ \A k \in 0..last : earlier(p, k) => granted(p, k) < price(p)
              /\ NextDeficit(p, caps) = granted(p, visits(p)) - (IF p = payer THEN price(p) ELSE 0)
              /\ NextDeficit(p, caps) \in Nat
<1> DEFINE last == FewestRounds(caps)
           payer == Selected(caps)
           c == Cost[Best(p, caps)]
           d == run[p].deficit
           Q == Quantum(p)
           earlier(k) == k < last \/ (k = last /\ Visit(p) < Visit(payer))
           visits == Cardinality({k \in 1..last : earlier(k) \/ p = payer})
<1>1. d \in Nat /\ c \in Nat \ {0} /\ Q \in Nat \ {0}
    BY PriceFacts
<1>2. /\ last \in Nat /\ last <= Rounds(p, caps) /\ payer \in Candidates(caps)
      /\ Rounds(payer, caps) = last
      /\ Rounds(p, caps) = last => Visit(payer) <= Visit(p)
    BY SelectedFacts
<1>3. Visit(p) \in Nat /\ Visit(payer) \in Nat
    BY <1>2, VisitType DEF Candidates
<1>4. Rounds(p, caps) = RequiredRounds(d, c, Q)
    BY DEF Rounds
<1>5. NextDeficit(p, caps) = IF p = payer THEN AfterClaim(d, c, Q, last)
          ELSE AfterIncompleteRounds(d, c, Q, IF Visit(p) < Visit(payer) THEN last ELSE Max({last, 1}) - 1)
    BY DEF NextDeficit
<1> DEFINE R == Rounds(p, caps)
<1> HIDE DEF last, payer, c, d, Q, R
<1>6. R \in Nat /\ d + Q * R >= c /\ \A k \in Nat : k < R => d + Q * k < c
    BY <1>1, <1>4, RoundsFacts DEF R
<1>7. last <= R /\ (Visit(p) < Visit(payer) => last < R) /\ (p = payer => R = last)
    BY <1>2, <1>3, <1>6 DEF R
<1>8. ASSUME NEW k \in 0..last, earlier(k) PROVE d + Q * k < c
    <2>1. k \in Nat /\ k < R
        BY <1>2, <1>6, <1>7, <1>8
    <2>2. QED
        BY <2>1, <1>6
<1>9. ASSUME p = payer
      PROVE  d + Q * last >= c /\ NextDeficit(p, caps) = (d + Q * visits) - c /\ NextDeficit(p, caps) \in Nat
    <2>1. {k \in 1..last : earlier(k) \/ p = payer} = {k \in 1..last : k <= last}
        BY <1>9, <1>2
    <2>2. visits = last
        BY <2>1, <1>2, CountUpTo
    <2>3. AfterClaim(d, c, Q, last) = (d + Q * last) - c /\ AfterClaim(d, c, Q, last) \in Nat
        BY <1>1, <1>4, <1>7, <1>9, ClaimFacts DEF R
    <2>4. d + Q * last >= c
        BY <1>6, <1>7, <1>9
    <2> HIDE DEF visits
    <2>5. NextDeficit(p, caps) = (d + Q * visits) - c /\ NextDeficit(p, caps) \in Nat
        BY <2>2, <2>3, <1>5, <1>9
    <2>6. QED
        BY <2>4, <2>5, <1>9
<1>10. ASSUME p # payer
       PROVE  NextDeficit(p, caps) = d + Q * visits /\ NextDeficit(p, caps) \in Nat
    <2> DEFINE n == IF Visit(p) < Visit(payer) THEN last ELSE Max({last, 1}) - 1
    <2>1. Max({last, 1}) \in {last, 1} /\ Max({last, 1}) >= last /\ Max({last, 1}) >= 1
        <3>1. {last, 1} \subseteq Nat /\ IsFiniteSet({last, 1})
            <4>1. IsFiniteSet({last} \cup {1}) /\ {last, 1} = {last} \cup {1}
                BY FS_Singleton, FS_AddElement
            <4>2. QED
                BY <4>1, <1>2
        <3> HIDE DEF last
        <3>2. Max({last, 1}) \in {last, 1} /\ \A y \in {last, 1} : y <= Max({last, 1})
            BY <3>1, MaxFacts
        <3>3. QED
            BY <3>2, <1>2
    <2> DEFINE m == Max({last, 1})
    <2> HIDE DEF m
    <2>2. m \in {last, 1} /\ m >= last /\ m >= 1 /\ m \in Nat
        BY <2>1, <1>2 DEF m
    <2>3. n = IF Visit(p) < Visit(payer) THEN last ELSE m - 1
        BY DEF m
    <2> HIDE DEF n
    <2>4. n \in Nat /\ n <= last /\ (n = 0 \/ n < R)
        <3>1. CASE Visit(p) < Visit(payer)
            BY <3>1, <2>3, <1>2, <1>6, <1>7
        <3>2. CASE ~(Visit(p) < Visit(payer))
            BY <3>2, <2>2, <2>3, <1>2, <1>6, <1>7
        <3>3. QED
            BY <3>1, <3>2
    <2>5. {k \in 1..last : earlier(k) \/ p = payer} = {k \in 1..last : k <= n}
        <3>1. CASE Visit(p) < Visit(payer)
            BY <3>1, <2>3, <1>2, <1>10
        <3>2. CASE ~(Visit(p) < Visit(payer))
            BY <3>2, <2>2, <2>3, <1>2, <1>10
        <3>3. QED
            BY <3>1, <3>2
    <2>6. visits = n
        BY <2>4, <2>5, <1>2, CountUpTo
    <2>7. AfterIncompleteRounds(d, c, Q, n) = d + Q * n
        BY <2>4, <1>1, <1>4, IncompleteFacts DEF R
    <2>8. d + Q * n \in Nat
        BY <2>4, <1>1, ProductType
    <2>9. NextDeficit(p, caps) = AfterIncompleteRounds(d, c, Q, n)
        BY <1>5, <1>10 DEF n
    <2> HIDE DEF visits
    <2>10. QED
        BY <2>6, <2>7, <2>8, <2>9
<1> HIDE DEF visits
<1> DEFINE settled == d + Q * visits
           paid == IF p = payer THEN c ELSE 0
<1>11. p = payer => d + Q * last >= c
    BY <1>9
<1>12. NextDeficit(p, caps) = settled - paid /\ NextDeficit(p, caps) \in Nat
    <2>1. CASE p = payer
        <3>1. NextDeficit(p, caps) = settled - c /\ NextDeficit(p, caps) \in Nat
            BY <2>1, <1>9
        <3> HIDE DEF settled
        <3>2. QED
            BY <3>1, <2>1
    <2>2. CASE p # payer
        <3> HIDE DEF settled
        <3>1. NextDeficit(p, caps) = settled /\ NextDeficit(p, caps) \in Nat
            BY <2>2, <1>10 DEF settled
        <3>2. QED
            BY <3>1, <2>2
    <2>3. QED
        BY <2>1, <2>2
<1> HIDE DEF settled, paid
<1>13. \A k \in 0..last : earlier(k) => d + Q * k < c
    BY <1>8
<1>14. QED
    BY <1>11, <1>12, <1>13, Zenon DEF settled, paid, visits, last, payer, c, d, Q

LEMMA ScanIsSettled == TypeOK => ScanSettled
<1> SUFFICES ASSUME TypeOK PROVE ScanSettled
    OBVIOUS
<1>1. ASSUME NEW caps \in Offers, Candidates(caps) # {}
      PROVE  Selected(caps) \in Candidates(caps)
    BY <1>1, SelectedFacts
<1>2. QED
    BY <1>1, SettledFacts DEF ScanSettled
-----------------------------------------------------------------------------
(* Finite sets of leaves, and what a step that leaves them alone keeps.    *)

LEMMA WorksCounted ==
    ASSUME NEW S \in SUBSET Works
    PROVE  IsFiniteSet(S) /\ Cardinality(S) \in Nat
BY FiniteAssumption, FS_Subset, FS_CardinalityType

LEMMA RegionsCounted ==
    ASSUME NEW S \in SUBSET Regions
    PROVE  IsFiniteSet(S) /\ Cardinality(S) \in Nat
BY FiniteAssumption, FS_Subset, FS_CardinalityType

LEMMA PairsCounted ==
    ASSUME NEW S \in SUBSET (Works \X Epochs)
    PROVE  IsFiniteSet(S) /\ Cardinality(S) \in Nat
<1>1. IsFiniteSet(Epochs)
    BY PolicyAssumption, FS_Interval DEF Epochs
<1>2. IsFiniteSet(Works \X Epochs)
    BY <1>1, FiniteAssumption, FS_Product
<1>3. QED
    BY <1>2, FS_Subset, FS_CardinalityType

(* A leaf is replaced by one of its type.                                  *)
LEMMA LeafReplaced ==
    ASSUME NEW S, NEW T, NEW f \in [S -> T], NEW x \in S, NEW v \in T, NEW g, g = [f EXCEPT ![x] = v]
    PROVE  g \in [S -> T] /\ g[x] = v /\ \A y \in S : y # x => g[y] = f[y]
OBVIOUS

LEMMA LeafTypes ==
    ASSUME TypeOK
    PROVE  /\ region \in [Regions -> RegionLeaf] /\ work \in [Works -> WorkLeaf]
           /\ occ \in [Works -> [Epochs -> OccLeaf]] /\ active \in [Works -> ClaimLeaf]
BY DEF TypeOK, RegionLeaf, WorkLeaf, OccLeaf, ClaimLeaf

LEMMA ClaimUpdated ==
    ASSUME NEW c \in ClaimLeaf, NEW l \in Nat, NEW x \in 0..(MaxTime + TTL)
    PROVE  /\ [c EXCEPT !.lease = l, !.expires = x]
              = [owner |-> c.owner, epoch |-> c.epoch, slot |-> c.slot, lease |-> l, expires |-> x]
           /\ [c EXCEPT !.lease = l, !.expires = x] \in ClaimLeaf
<1> DEFINE d == [c EXCEPT !.lease = l, !.expires = x]
<1>1. c = [owner |-> c.owner, epoch |-> c.epoch, slot |-> c.slot, lease |-> c.lease, expires |-> c.expires]
    BY DEF ClaimLeaf
<1>2. d = [owner |-> c.owner, epoch |-> c.epoch, slot |-> c.slot, lease |-> l, expires |-> x]
    <2> DEFINE m == [c EXCEPT !.lease = l]
    <2>1. m = [owner |-> c.owner, epoch |-> c.epoch, slot |-> c.slot, lease |-> l, expires |-> c.expires]
        BY <1>1
    <2>2. d = [m EXCEPT !.expires = x]
        OBVIOUS
    <2> HIDE DEF m, d
    <2>3. QED
        BY <2>1, <2>2
<1>3. d \in ClaimLeaf
    BY <1>2 DEF ClaimLeaf
<1>4. QED
    BY <1>2, <1>3

(* An occurrence leaf is replaced.                                         *)
LEMMA OccReplaced ==
    ASSUME NEW w \in Works, NEW e \in Epochs, NEW v \in OccLeaf,
           NEW f \in [Works -> [Epochs -> OccLeaf]], NEW g, g = [f EXCEPT ![w][e] = v]
    PROVE  /\ g \in [Works -> [Epochs -> OccLeaf]] /\ g[w][e] = v
           /\ \A x \in Works, y \in Epochs : x # w \/ y # e => g[x][y] = f[x][y]
<1> HIDE DEF OccLeaf
<1>1. [f[w] EXCEPT ![e] = v] \in [Epochs -> OccLeaf] /\ [f[w] EXCEPT ![e] = v][e] = v
    OBVIOUS
<1>2. g = [f EXCEPT ![w] = [f[w] EXCEPT ![e] = v]]
    OBVIOUS
<1>3. QED
    BY <1>1, <1>2

(* A leaf more, several leaves more, several fewer.                        *)
LEMMA OneMore ==
    ASSUME NEW S, IsFiniteSet(S), NEW x, x \notin S
    PROVE  IsFiniteSet(S \cup {x}) /\ Cardinality(S \cup {x}) = Cardinality(S) + 1
BY FS_AddElement

LEMMA OneLess ==
    ASSUME NEW S, IsFiniteSet(S), NEW x \in S
    PROVE  IsFiniteSet(S \ {x}) /\ Cardinality(S \ {x}) = Cardinality(S) - 1
BY FS_RemoveElement

LEMMA SeveralMore ==
    ASSUME NEW S, IsFiniteSet(S), NEW T, IsFiniteSet(T), S \cap T = {}
    PROVE  IsFiniteSet(S \cup T) /\ Cardinality(S \cup T) = Cardinality(S) + Cardinality(T)
BY FS_Union, FS_EmptySet, FS_CardinalityType

LEMMA SeveralLess ==
    ASSUME NEW S, IsFiniteSet(S), NEW T, T \subseteq S
    PROVE  /\ IsFiniteSet(T) /\ IsFiniteSet(S \ T) /\ Cardinality(S \ T) = Cardinality(S) - Cardinality(T)
           /\ Cardinality(T) <= Cardinality(S)
<1>1. IsFiniteSet(T) /\ IsFiniteSet(S \ T)
    BY FS_Subset
<1>2. (S \ T) \cap T = {} /\ (S \ T) \cup T = S
    OBVIOUS
<1>3. Cardinality(S) = Cardinality(S \ T) + Cardinality(T)
    BY <1>1, <1>2, SeveralMore
<1>4. Cardinality(S) \in Nat /\ Cardinality(T) \in Nat /\ Cardinality(S \ T) \in Nat
    BY <1>1, FS_CardinalityType
<1>5. QED
    BY <1>1, <1>3, <1>4

(* The scheduler's own count of its frontier is the work not ended.        *)
LEMMA FrontierCounted ==
    ASSUME Inv
    PROVE  Materialized = Cardinality(Frontier) /\ Cardinality(Frontier) \in Nat
<1> USE DEF Inv
<1>1. /\ ready \in [Runs -> Seq(Works)] /\ \A q \in Runs : IsInjective(ready[q])
      /\ \A p, q \in Runs : p # q => Range(ready[p]) \cap Range(ready[q]) = {}
    BY DEF TypeOK, QueuesKept
<1>2. FoldSet(LAMBDA q, n : n + Len(ready[q]), 0, Runs) = Cardinality(ReadyWorks)
    BY <1>1, ReadySum DEF ReadyWorks
<1>3. ReadyWorks = {w \in Works : work[w].place = "Ready"}
    <2>1. ASSUME NEW w \in ReadyWorks PROVE w \in Works /\ work[w].place = "Ready"
        <3>1. PICK q \in Runs : w \in Range(ready[q])
            BY DEF ReadyWorks
        <3>2. w \in Works
            BY <3>1, <1>1, QueueDomain DEF Range
        <3>3. QED
            BY <3>1, <3>2 DEF QueuesKept
    <2>2. ASSUME NEW w \in Works, work[w].place = "Ready" PROVE w \in ReadyWorks
        <3>1. w \in Range(ready[RunOfWork(w)])
            BY <2>2 DEF QueuesKept
        <3>2. RunOfWork(w) \in Runs
            BY <2>2, IdentityAssumption DEF LeavesKept, Hot, Homed, RunOfWork
        <3>3. QED
            BY <3>1, <3>2 DEF ReadyWorks
    <2>3. QED
        BY <2>1, <2>2
<1>4. ActiveWorks = {w \in Works : work[w].place = "Active"}
    BY DEF LeavesKept, ActiveWorks
<1>5. ParkedSet = {w \in Works : work[w].place = "Parked"}
    BY DEF LeavesKept, ParkedSet
<1> DEFINE A == {w \in Works : work[w].place = "Ready"}
           B == {w \in Works : work[w].place = "Active"}
           C == {w \in Works : work[w].place = "Parked"}
<1>6. Frontier = (A \cup B) \cup C /\ A \cap B = {} /\ (A \cup B) \cap C = {}
    BY DEF Frontier
<1>7. counts.parked = Cardinality(C)
    BY <1>5 DEF CountsKept
<1>8. /\ IsFiniteSet(A) /\ IsFiniteSet(B) /\ IsFiniteSet(C)
      /\ Cardinality(A) \in Nat /\ Cardinality(B) \in Nat /\ Cardinality(C) \in Nat
    BY WorksCounted
<1>9. Materialized = (Cardinality(A) + Cardinality(B)) + Cardinality(C)
    <2>1. Materialized = Cardinality(A) + Cardinality(B) + Cardinality(C)
        BY <1>2, <1>3, <1>4, <1>7 DEF Materialized
    <2> HIDE DEF A, B, C
    <2>2. QED
        BY <2>1, <1>8
<1> HIDE DEF A, B, C
<1>10. /\ IsFiniteSet(A \cup B) /\ Cardinality(A \cup B) = Cardinality(A) + Cardinality(B)
    BY <1>6, <1>8, SeveralMore
<1>11. Cardinality((A \cup B) \cup C) = Cardinality(A \cup B) + Cardinality(C)
    BY <1>6, <1>8, <1>10, SeveralMore
<1>12. QED
    BY <1>6, <1>8, <1>9, <1>10, <1>11

(* A step that neither adds nor drops a work leaf nor moves its region.    *)
SameHomes == \A w \in Works : (Hot(w)' <=> Hot(w)) /\ work'[w].region = work[w].region

LEMMA HotFrame ==
    ASSUME SameHomes
    PROVE  HotSet' = HotSet /\ \A r \in Regions : HotWork(r)' = HotWork(r)
BY DEF SameHomes, HotSet, HotWork

LEMMA RegionsFrame ==
    ASSUME RegionsKept, UNCHANGED <<activeRegions, lastRegion, cert>>, SameHomes,
           \A r \in Regions : /\ region'[r].life = region[r].life /\ region'[r].done = region[r].done
                              /\ region'[r].cert = region[r].cert
    PROVE  RegionsKept'
<1>1. \A r \in Regions : HotWork(r)' = HotWork(r) /\ (Closed(r)' <=> Closed(r))
    BY HotFrame DEF Closed
<1>2. activeRegions' = {r \in Regions : region'[r].life = "Active" /\ ~region'[r].done}
    BY DEF RegionsKept
<1>3. lastRegion' \in activeRegions' \cup {None}
    BY DEF RegionsKept
<1>4. ASSUME NEW r \in Regions
      PROVE  (region'[r].cert => cert'[r] # "None") /\ (cert'[r] # "None" => Closed(r)' /\ HotWork(r)' = {})
    BY <1>1 DEF RegionsKept
<1>5. QED
    BY <1>2, <1>3, <1>4 DEF RegionsKept

LEMMA SourceFrame ==
    ASSUME SourceKept, UNCHANGED index, \A w \in Works : Hot(w)' <=> Hot(w),
           \A r \in Regions : region'[r].life = region[r].life /\ region'[r].rest = region[r].rest
    PROVE  SourceKept'
<1>1. \A r \in Regions, w \in Works : Holds(r, w)' <=> Holds(r, w)
    BY DEF Holds
<1>2. \A w \in UNION Range(Source) : w \in Works
    BY IdentityAssumption DEF Range
<1>3. ASSUME NEW w \in Works, NEW r \in Regions, Holds(r, w)'
      PROVE  ~Hot(w)' /\ index'[w] = 0 /\ \A q \in Regions : Holds(q, w)' => q = r
    BY <1>1, <1>3 DEF SourceKept
<1>4. ASSUME NEW w \in UNION Range(Source)
      PROVE  (\E r \in Regions : Holds(r, w)') \/ Hot(w)' \/ index'[w] # 0
    BY <1>1, <1>2 DEF SourceKept
<1>5. QED
    BY <1>3, <1>4 DEF SourceKept

(* A step that changes what an occurrence leaf says, not where it is.      *)
SameOccs == \A w \in Works, e \in Epochs : /\ occ'[w][e] # NoOcc <=> occ[w][e] # NoOcc
                                           /\ occ'[w][e].region = occ[w][e].region

LEMMA OccFrame ==
    ASSUME SameOccs
    PROVE  OccSet' = OccSet /\ \A r \in Regions : HotOcc(r)' = HotOcc(r)
<1>1. OccSet' = OccSet
    BY DEF SameOccs, OccSet
<1>2. \A r \in Regions : HotOcc(r)' = HotOcc(r)
    BY DEF SameOccs, HotOcc
<1>3. QED
    BY <1>1, <1>2

LEMMA QueuesFrame ==
    ASSUME QueuesKept, UNCHANGED <<ready, since, sequence, work>>
    PROVE  QueuesKept'
BY DEF QueuesKept, RunOfWork

LEMMA ParksFrame ==
    ASSUME ParksKept, UNCHANGED <<pages, parked, directory>>
    PROVE  ParksKept'
BY DEF ParksKept, Members, Charge

LEMMA LeavesFrame ==
    ASSUME LeavesKept, UNCHANGED <<work, occ, active, parked, index>>,
           \A r \in Regions : region[r].life # "Absent" => region'[r].life # "Absent"
    PROVE  LeavesKept'
<1>1. ASSUME NEW w \in Works PROVE Hot(w)' => Homed(w)'
    BY DEF LeavesKept, Hot, Homed
<1>2. QED
    BY <1>1 DEF LeavesKept, Hot, ActiveWorks, LeavesAgree

LEMMA OccsFrame ==
    ASSUME OccKept, UNCHANGED <<work, occ, active, cold, index>>,
           \A r \in Regions : cert[r] # "None" => cert'[r] # "None"
    PROVE  OccKept'
BY DEF OccKept, Hot, ActiveWorks

LEMMA LeaseFrame ==
    ASSUME LeaseBacksClaim, UNCHANGED <<active, leases>>
    PROVE  LeaseBacksClaim'
BY DEF LeaseBacksClaim, ActiveWorks, LeaseHeld, Overtaken
-----------------------------------------------------------------------------
(* The initial state.                                                      *)

LEMMA InitInv == Init => Inv
<1> SUFFICES ASSUME Init PROVE Inv
    OBVIOUS
<1> USE DEF Init
<1>1. TypeOK
    <2>1. region \in [Regions -> [life: {"Absent", "Active", "Retired"}, rest: SUBSET Works,
                                  done: BOOLEAN, hotWork: Nat, hotOcc: Nat, cert: BOOLEAN]]
        BY IdentityAssumption DEF NewRegion, NoRegion
    <2>2. activeRegions \subseteq Regions /\ lastRegion \in Regions \cup {None}
        BY IdentityAssumption
    <2>3. work \in [Works -> [place: {"Absent", "Ready", "Active", "Parked", "Terminal"},
                              epoch: 0..MaxEpoch, region: Regions \cup {None}]]
        BY PolicyAssumption DEF NoWork
    <2>4. occ \in [Works -> [Epochs -> [state: {"Absent", "Running", "RetryScheduled", "Parked"} \cup Final,
                                        owner: Owners \cup {NoOwner}, lease: Nat,
                                        region: Regions \cup {None}]]]
        BY DEF NoOcc
    <2>5. ready \in [Runs -> Seq(Works)] /\ since \in [Works -> Int] /\ sequence \in Nat /\ lastRun \in Runs \cup {None}
        OBVIOUS
    <2>6. run \in [Runs -> [weight: Weights, deficit: Nat]]
        BY PolicyAssumption
    <2>7. active \in [Works -> [owner: Owners \cup {NoOwner}, epoch: 0..MaxEpoch,
                                slot: Slots \cup {NoOwner}, lease: Nat, expires: 0..(MaxTime + TTL)]]
        BY PolicyAssumption, SMTT(30) DEF NoClaim
    <2>8. /\ parked \in [Works -> Reasons \cup {NoOwner}] /\ pages \in [Reasons -> Seq(SUBSET Works)]
          /\ directory \in [Waits -> [work: Nat, pages: Nat]]
        BY DEF NoCharge
    <2>9. counts \in [regions: Nat, activeRegions: Nat, parked: Nat, work: Nat, occ: Nat, certs: Nat]
        BY IdentityAssumption, RegionsCounted
    <2>10. cert \in [Regions -> {"None", "Active", "Retired"}] /\ DOMAIN cold = Works /\ index \in [Works -> 0..MaxEpoch]
        BY PolicyAssumption
    <2>11. /\ leases \in [Slots -> [owner: Owners \cup {NoOwner}, epoch: Nat, expires: 0..(MaxTime + TTL)]]
           /\ clock \in [Slots -> 0..MaxTime]
        BY PolicyAssumption
    <2>12. applied \in [Activations -> SUBSET Waits] /\ consumed \subseteq Activations
        OBVIOUS
    <2>13. QED
        BY <2>1, <2>2, <2>3, <2>4, <2>5, <2>6, <2>7, <2>8, <2>9, <2>10, <2>11, <2>12 DEF TypeOK
<1>2. ColdTyped
    BY DEF ColdTyped, OccLeaf, NoOcc
<1>3. \A w \in Works : ~Hot(w) /\ active[w] = NoClaim /\ index[w] = 0
    BY DEF Hot, NoWork
<1>4. \A w \in Works, e \in Epochs : occ[w][e] = NoOcc /\ cold[w][e] = NoOcc
    OBVIOUS
<1>5. \A r \in Regions : /\ region[r].life = (IF r \in DOMAIN Source THEN "Active" ELSE "Absent")
                         /\ region[r].rest = (IF r \in DOMAIN Source THEN Source[r] ELSE {})
                         /\ ~region[r].done /\ ~region[r].cert /\ region[r].hotWork = 0 /\ region[r].hotOcc = 0
    BY DEF NewRegion, NoRegion
<1>6. DOMAIN Source \subseteq Regions
    BY IdentityAssumption
<1>7. RegionsKept
    <2>1. activeRegions = {r \in Regions : region[r].life = "Active" /\ ~region[r].done}
        BY <1>5, <1>6
    <2>2. QED
        BY <2>1, <1>5 DEF RegionsKept
<1>8. LeavesKept
    BY <1>3 DEF LeavesKept, ActiveWorks, Hot
<1>9. OccKept
    BY <1>4 DEF OccKept, NoOcc
<1>10. QueuesKept
    <2>1. \A q \in Runs : IsInjective(ready[q]) /\ Range(ready[q]) = {}
        BY DEF IsInjective, Range
    <2>2. QED
        BY <2>1, <1>3 DEF QueuesKept, Hot
<1>11. ParksKept
    <2>1. \A x \in Reasons : pages[x] = <<>> /\ Members(x) = {}
        BY DEF Members, Range
    <2>2. Waits \subseteq Reasons
        BY DEF Reasons
    <2>3. \A x \in Waits : directory[x] = Charge(x)
        BY <2>1, <2>2, FS_EmptySet DEF Charge, NoCharge
    <2>4. WakeItems(directory) <= MaxWake
        BY WakeNothing, PolicyAssumption
    <2>5. ASSUME NEW x \in Reasons
          PROVE  /\ Members(x) = {w \in Works: parked[w] = x}
                 /\ \A i, j \in DOMAIN pages[x]: i # j => pages[x][i] \cap pages[x][j] = {}
                 /\ \A i \in DOMAIN pages[x]: i < Len(pages[x]) => Cardinality(pages[x][i]) = PageItems
                 /\ \A i \in DOMAIN pages[x]: Cardinality(pages[x][i]) <= PageItems
        BY <2>1, IdentityAssumption
    <2>6. QED
        BY <2>3, <2>4, <2>5 DEF ParksKept
<1>12. CountsKept
    <2>1. Present = DOMAIN Source
        BY <1>5, <1>6 DEF Present
    <2>2. Certified = {} /\ ParkedSet = {} /\ HotSet = {} /\ OccSet = {}
        BY <1>3, <1>4 DEF Certified, ParkedSet, HotSet, OccSet
    <2>3. \A r \in Regions : HotWork(r) = {} /\ HotOcc(r) = {}
        <3>1. \A r \in Regions : HotWork(r) = {}
            BY <1>3 DEF HotWork
        <3>2. \A r \in Regions : None # r
            BY IdentityAssumption DEF None
        <3>3. \A w \in Works, e \in Epochs : occ[w][e].region = None
            BY <1>4 DEF NoOcc
        <3>4. QED
            BY <3>1, <3>2, <3>3 DEF HotOcc
    <2>4. QED
        BY <2>1, <2>2, <2>3, <1>5, FS_EmptySet DEF CountsKept
<1>13. FrontierKept
    <2>1. Frontier = {}
        BY <1>3 DEF Frontier, Hot
    <2>2. QED
        BY <2>1, FS_EmptySet, PolicyAssumption DEF FrontierKept
<1>14. SourceKept
    <2>1. \A r \in Regions, w \in Works : Holds(r, w) <=> r \in DOMAIN Source /\ w \in Source[r]
        BY <1>5 DEF Holds
    <2>2. ASSUME NEW w \in UNION Range(Source) PROVE \E r \in Regions : Holds(r, w)
        <3>1. PICK r \in DOMAIN Source : w \in Source[r]
            BY DEF Range
        <3>2. w \in Works /\ r \in Regions
            BY <3>1, IdentityAssumption
        <3>3. QED
            BY <3>1, <3>2, <2>1
    <2>3. QED
        BY <2>1, <2>2, <1>3, IdentityAssumption DEF SourceKept
<1>15. LeaseBacksClaim
    BY <1>3 DEF LeaseBacksClaim, ActiveWorks
<1>16. QED
    BY <1>1, <1>2, <1>7, <1>8, <1>9, <1>10, <1>11, <1>12, <1>13, <1>14, <1>15 DEF Inv

-----------------------------------------------------------------------------
(* Steps that leave every leaf alone.                                      *)

LEMMA QuietLeaseStep ==
    ASSUME Inv, TypeOK', LeaseBacksClaim',
           UNCHANGED <<region, activeRegions, lastRegion, work, occ, ready, since, sequence, active,
                       parked, pages, directory, counts, cert, cold, index>>
    PROVE  Inv'
<1> USE DEF Inv
<1>1. SameHomes /\ SameOccs
    BY DEF SameHomes, SameOccs, Hot
<1>2. RegionsKept' /\ SourceKept'
    BY <1>1, RegionsFrame, SourceFrame DEF SameHomes
<1>3. LeavesKept' /\ OccKept' /\ QueuesKept' /\ ParksKept'
    BY LeavesFrame, OccsFrame, QueuesFrame, ParksFrame
<1>4. CountsKept'
    <2>1. Present' = Present /\ Certified' = Certified /\ ParkedSet' = ParkedSet
        BY DEF Present, Certified, ParkedSet
    <2>2. QED
        BY <2>1, <1>1, HotFrame, OccFrame DEF CountsKept
<1>5. ColdTyped' /\ FrontierKept'
    BY DEF ColdTyped, FrontierKept, Frontier
<1>6. QED
    BY <1>2, <1>3, <1>4, <1>5

LEMMA QuietStep ==
    ASSUME Inv, TypeOK',
           UNCHANGED <<region, activeRegions, lastRegion, work, occ, ready, since, sequence, active,
                       parked, pages, directory, counts, cert, cold, index, leases>>
    PROVE  Inv'
<1>1. LeaseBacksClaim'
    BY LeaseFrame DEF Inv
<1>2. QED
    BY <1>1, QuietLeaseStep

(* Another scheduler takes the lease: a claim it belonged to is overtaken. *)
LEMMA ForeignClaimStep ==
    ASSUME Inv, NEW o \in Owners, NEW s \in Slots, ForeignClaim(o, s)
    PROVE  Inv'
<1> DEFINE lease == NextLease(s, o)
<1>1. /\ leases' = [leases EXCEPT ![s] = lease]
      /\ UNCHANGED <<region, activeRegions, lastRegion, work, occ, ready, since, sequence, lastRun, run, active,
                     parked, pages, directory, counts, cert, cold, index, clock, applied, consumed>>
    BY DEF ForeignClaim, regionVars, frontierVars, parkVars, archiveVars, waitVars
<1>2. leases \in [Slots -> [owner: Owners \cup {NoOwner}, epoch: Nat, expires: 0..(MaxTime + TTL)]]
    BY DEF Inv, TypeOK
<1>3. /\ lease = [owner |-> o, epoch |-> leases[s].epoch + 1, expires |-> clock[s] + TTL]
      /\ lease \in [owner: Owners \cup {NoOwner}, epoch: Nat, expires: 0..(MaxTime + TTL)]
    <2>1. leases[s].epoch \in Nat /\ clock[s] \in 0..MaxTime /\ MaxTime \in Nat /\ TTL \in Nat
        BY PolicyAssumption DEF Inv, TypeOK
    <2>2. leases[s].epoch + 1 \in Nat /\ clock[s] + TTL \in 0..(MaxTime + TTL)
        BY <2>1
    <2>3. QED
        BY <2>2 DEF NextLease
<1> HIDE DEF lease
<1>4. /\ leases' \in [Slots -> [owner: Owners \cup {NoOwner}, epoch: Nat, expires: 0..(MaxTime + TTL)]]
      /\ leases'[s].epoch = leases[s].epoch + 1 /\ \A t \in Slots : t # s => leases'[t] = leases[t]
    BY <1>1, <1>2, <1>3
<1>5. TypeOK'
    BY <1>1, <1>4 DEF Inv, TypeOK
<1>6. LeaseBacksClaim'
    <2>1. ASSUME NEW w \in ActiveWorks PROVE LeaseHeld(w)' \/ Overtaken(w)'
        <3>1. w \in Works /\ active[w].slot \in Slots /\ active[w].lease \in Nat /\ active'[w] = active[w]
            BY <1>1 DEF Inv, LeavesKept, ActiveWorks, TypeOK
        <3>2. LeaseHeld(w) \/ Overtaken(w)
            BY DEF Inv, LeaseBacksClaim
        <3>3. CASE active[w].slot = s
            <4>1. active[w].lease <= leases[s].epoch /\ leases[s].epoch \in Nat
                BY <3>1, <3>2, <3>3, <1>2 DEF LeaseHeld, Overtaken
            <4>2. QED
                BY <4>1, <3>1, <3>3, <1>4 DEF Overtaken
        <3>4. CASE active[w].slot # s
            BY <3>1, <3>2, <3>4, <1>4 DEF LeaseHeld, Overtaken
        <3>5. QED
            BY <3>3, <3>4
    <2>2. ActiveWorks' = ActiveWorks /\ \A v, w \in ActiveWorks : v # w => active[v].slot # active[w].slot
        BY <1>1 DEF ActiveWorks, Inv, LeaseBacksClaim
    <2>3. QED
        BY <2>1, <2>2, <1>1 DEF LeaseBacksClaim
<1>7. QED
    BY <1>1, <1>5, <1>6, QuietLeaseStep

LEMMA ObserveStep ==
    ASSUME Inv, NEW s \in Slots, Observe(s)
    PROVE  Inv'
<1>1. clock' \in [Slots -> 0..MaxTime]
    <2>1. clock \in [Slots -> 0..MaxTime] /\ clock[s] < MaxTime /\ MaxTime \in Nat
        BY PolicyAssumption DEF Inv, TypeOK, Observe
    <2>2. clock[s] + 1 \in 0..MaxTime
        BY <2>1
    <2>3. QED
        BY <2>1, <2>2 DEF Observe
<1>2. TypeOK'
    BY <1>1 DEF Inv, TypeOK, Observe, regionVars, frontierVars, parkVars, archiveVars, waitVars
<1>3. QED
    BY <1>2, QuietStep DEF Observe, regionVars, frontierVars, parkVars, archiveVars, waitVars

LEMMA SetRunWeightStep ==
    ASSUME Inv, NEW q \in Runs, NEW weight \in Weights, SetRunWeight(q, weight)
    PROVE  Inv'
<1>1. run' \in [Runs -> [weight: Weights, deficit: Nat]]
    BY DEF Inv, TypeOK, SetRunWeight
<1>2. TypeOK'
    BY <1>1 DEF Inv, TypeOK, SetRunWeight, regionVars, parkVars, archiveVars, leaseVars, waitVars
<1>3. QED
    BY <1>2, QuietStep DEF SetRunWeight, regionVars, parkVars, archiveVars, leaseVars, waitVars

LEMMA AdmitActivationStep ==
    ASSUME Inv, NEW a \in Activations, AdmitActivation(a)
    PROVE  Inv'
<1> DEFINE pending == Targets[a] \ UNION {applied[b] : b \in Activations}
<1>1. pending \in SUBSET Waits
    BY IdentityAssumption
<1> HIDE DEF pending
<1>2. applied' \in [Activations -> SUBSET Waits]
    BY <1>1 DEF Inv, TypeOK, AdmitActivation, pending
<1>3. TypeOK'
    BY <1>2 DEF Inv, TypeOK, AdmitActivation, regionVars, frontierVars, parkVars, archiveVars, leaseVars
<1>4. QED
    BY <1>3, QuietStep DEF AdmitActivation, regionVars, frontierVars, parkVars, archiveVars, leaseVars
-----------------------------------------------------------------------------
(* The archive of a retired region is retired.                             *)

LEMMA RetireArchiveStep ==
    ASSUME Inv, NEW r \in Regions, RetireArchive(r)
    PROVE  Inv'
<1> USE DEF Inv
<1>1. /\ cert[r] = "Active" /\ cert' = [cert EXCEPT ![r] = "Retired"]
      /\ region' = [region EXCEPT ![r].cert = FALSE]
      /\ UNCHANGED <<activeRegions, lastRegion, work, occ, ready, since, sequence, lastRun, run, active,
                     parked, pages, directory, counts, cold, index, leases, clock, applied, consumed>>
    BY DEF RetireArchive, frontierVars, parkVars, leaseVars, waitVars
<1>2. TypeOK'
    <2>1. region' \in [Regions -> [life: {"Absent", "Active", "Retired"}, rest: SUBSET Works,
                                   done: BOOLEAN, hotWork: Nat, hotOcc: Nat, cert: BOOLEAN]]
        <3>1. [region[r] EXCEPT !.cert = FALSE] \in RegionLeaf
            BY LeafTypes DEF RegionLeaf
        <3>2. region' = [region EXCEPT ![r] = [region[r] EXCEPT !.cert = FALSE]]
            BY <1>1
        <3>3. region' \in [Regions -> RegionLeaf]
            BY <3>1, <3>2, LeafTypes
        <3>4. QED
            BY <3>3 DEF RegionLeaf
    <2>2. cert' \in [Regions -> {"None", "Active", "Retired"}]
        BY <1>1 DEF TypeOK
    <2>3. QED
        BY <1>1, <2>1, <2>2 DEF TypeOK
<1>3. \A q \in Regions : /\ region'[q].life = region[q].life /\ region'[q].rest = region[q].rest
                         /\ region'[q].done = region[q].done /\ region'[q].hotWork = region[q].hotWork
                         /\ region'[q].hotOcc = region[q].hotOcc
                         /\ region'[q].cert => region[q].cert
    BY <1>1, SMTT(30) DEF TypeOK
<1>4. \A q \in Regions : cert'[q] # "None" <=> cert[q] # "None"
    BY <1>1 DEF TypeOK
<1>5. SameHomes /\ SameOccs
    BY <1>1 DEF SameHomes, SameOccs, Hot
<1>6. RegionsKept'
    <2>1. \A q \in Regions : HotWork(q)' = HotWork(q) /\ (Closed(q)' <=> Closed(q))
        BY <1>3, <1>5, HotFrame DEF Closed
    <2>2. activeRegions' = {q \in Regions : region'[q].life = "Active" /\ ~region'[q].done}
        BY <1>1, <1>3 DEF RegionsKept
    <2>3. lastRegion' \in activeRegions' \cup {None}
        BY <1>1 DEF RegionsKept
    <2>4. ASSUME NEW q \in Regions
          PROVE  (region'[q].cert => cert'[q] # "None") /\ (cert'[q] # "None" => Closed(q)' /\ HotWork(q)' = {})
        BY <2>1, <1>3, <1>4 DEF RegionsKept
    <2>5. QED
        BY <2>2, <2>3, <2>4 DEF RegionsKept
<1>7. SourceKept'
    BY <1>1, <1>3, <1>5, SourceFrame DEF SameHomes
<1>8. LeavesKept' /\ OccKept'
    BY <1>1, <1>3, <1>4, LeavesFrame, OccsFrame
<1>9. QueuesKept' /\ ParksKept' /\ LeaseBacksClaim'
    BY <1>1, QueuesFrame, ParksFrame, LeaseFrame
<1>10. CountsKept'
    <2>1. Present' = Present /\ Certified' = Certified /\ ParkedSet' = ParkedSet
        BY <1>1, <1>3, <1>4 DEF Present, Certified, ParkedSet
    <2>2. QED
        BY <2>1, <1>1, <1>3, <1>5, HotFrame, OccFrame DEF CountsKept
<1>11. ColdTyped' /\ FrontierKept'
    BY <1>1 DEF ColdTyped, FrontierKept, Frontier
<1>12. QED
    BY <1>2, <1>6, <1>7, <1>8, <1>9, <1>10, <1>11

-----------------------------------------------------------------------------
(* A lease is renewed: the claim, its occurrence and the slot take the     *)
(* next lease epoch together.                                              *)

LEMMA RenewLeaseStep ==
    ASSUME Inv, NEW w \in Works, RenewLease(w)
    PROVE  Inv'
<1> USE DEF Inv
<1> DEFINE c == active[w]
           s == c.slot
           e == c.epoch
           lease == NextLease(s, c.owner)
<1>1. /\ w \in ActiveWorks /\ LeaseHeld(w) /\ LeavesAgree(w)
      /\ active' = [active EXCEPT ![w].lease = lease.epoch, ![w].expires = lease.expires]
      /\ occ' = [occ EXCEPT ![w][e].lease = lease.epoch]
      /\ leases' = [leases EXCEPT ![s] = lease]
      /\ UNCHANGED <<region, activeRegions, lastRegion, work, ready, since, sequence, lastRun, run,
                     parked, pages, directory, counts, cert, cold, index, clock, applied, consumed>>
    BY DEF RenewLease, regionVars, frontierVars, parkVars, archiveVars, waitVars
<1>2. c.owner \in Owners /\ s \in Slots /\ e \in Epochs /\ c # NoClaim /\ work[w].epoch = e /\ work[w].place = "Active"
    BY <1>1 DEF LeavesKept, LeavesAgree, ActiveWorks
<1>3. /\ lease = [owner |-> c.owner, epoch |-> leases[s].epoch + 1, expires |-> clock[s] + TTL]
      /\ lease.owner = c.owner /\ lease.epoch \in Nat /\ lease.expires \in 0..(MaxTime + TTL)
    <2>1. leases[s].epoch \in Nat /\ clock[s] \in 0..MaxTime /\ MaxTime \in Nat /\ TTL \in Nat
        BY <1>2, PolicyAssumption DEF TypeOK
    <2>2. leases[s].epoch + 1 \in Nat /\ clock[s] + TTL \in 0..(MaxTime + TTL)
        BY <2>1
    <2>3. QED
        BY <2>2 DEF NextLease
<1> HIDE DEF lease
<1> DEFINE c2 == [c EXCEPT !.lease = lease.epoch, !.expires = lease.expires]
           o2 == [occ[w][e] EXCEPT !.lease = lease.epoch]
<1>4. c \in ClaimLeaf /\ occ[w][e] \in OccLeaf
    BY <1>2, LeafTypes
<1>5. c2 = [owner |-> c.owner, epoch |-> e, slot |-> s, lease |-> lease.epoch, expires |-> lease.expires] /\ c2 \in ClaimLeaf
    BY <1>3, <1>4, ClaimUpdated
<1>6. active' = [active EXCEPT ![w] = c2] /\ occ' = [occ EXCEPT ![w][e] = o2]
    BY <1>1
<1>7. o2 \in OccLeaf
    BY <1>3, <1>4 DEF OccLeaf
<1> HIDE DEF c2, o2
<1>8. /\ active' \in [Works -> ClaimLeaf] /\ active'[w] = c2 /\ \A v \in Works : v # w => active'[v] = active[v]
    BY <1>5, <1>6, LeafTypes, LeafReplaced
<1>9. /\ occ' \in [Works -> [Epochs -> OccLeaf]] /\ occ'[w][e] = o2
      /\ \A v \in Works, f \in Epochs : v # w \/ f # e => occ'[v][f] = occ[v][f]
    BY <1>2, <1>6, <1>7, LeafTypes, OccReplaced
<1>10. active'[w] = [owner |-> c.owner, epoch |-> e, slot |-> s, lease |-> lease.epoch, expires |-> lease.expires]
    BY <1>5, <1>8
<1>11. \A v \in Works : v # w => active'[v] = active[v]
    BY <1>8
<1>12. /\ occ'[w][e] = [occ[w][e] EXCEPT !.lease = lease.epoch]
      /\ \A v \in Works, f \in Epochs : v # w \/ f # e => occ'[v][f] = occ[v][f]
    BY <1>9 DEF o2
<1>13. /\ occ[w][e].state = "Running" /\ occ[w][e].owner = c.owner
      /\ occ'[w][e].state = "Running" /\ occ'[w][e].owner = c.owner /\ occ'[w][e].lease = lease.epoch
      /\ occ'[w][e].region = occ[w][e].region
    BY <1>1, <1>2, <1>12 DEF LeavesAgree, TypeOK
<1>14. ActiveWorks' = ActiveWorks
    <2>1. active'[w] # NoClaim
        BY <1>2, <1>10, IdentityAssumption DEF NoClaim
    <2>2. QED
        BY <2>1, <1>1, <1>11 DEF ActiveWorks
<1>15. occ[w][e] # NoOcc /\ occ'[w][e] # NoOcc
    BY <1>13 DEF NoOcc
<1>16. SameHomes /\ SameOccs
    BY <1>1, <1>12, <1>13, <1>15 DEF SameHomes, SameOccs, Hot
<1>17. TypeOK'
    <2>1. active' \in [Works -> [owner: Owners \cup {NoOwner}, epoch: 0..MaxEpoch,
                                 slot: Slots \cup {NoOwner}, lease: Nat, expires: 0..(MaxTime + TTL)]]
        BY <1>8 DEF ClaimLeaf
    <2>2. occ' \in [Works -> [Epochs -> [state: {"Absent", "Running", "RetryScheduled", "Parked"} \cup Final,
                                         owner: Owners \cup {NoOwner}, lease: Nat,
                                         region: Regions \cup {None}]]]
        BY <1>9 DEF OccLeaf
    <2>3. leases' \in [Slots -> [owner: Owners \cup {NoOwner}, epoch: Nat, expires: 0..(MaxTime + TTL)]]
        BY <1>1, <1>2, <1>3 DEF TypeOK
    <2>4. QED
        BY <1>1, <2>1, <2>2, <2>3 DEF TypeOK
<1>18. RegionsKept' /\ SourceKept'
    BY <1>1, <1>16, RegionsFrame, SourceFrame DEF SameHomes
<1>19. LeavesKept'
    <2>1. ASSUME NEW v \in Works
          PROVE  /\ Hot(v)' => Homed(v)'
                 /\ work'[v].place = "Active" <=> v \in ActiveWorks'
                 /\ work'[v].place \in {"Active", "Terminal"} => work'[v].epoch \in Epochs
                 /\ work'[v].place = "Parked" <=> parked'[v] # NoOwner
        BY <1>1, <1>14 DEF LeavesKept, Hot, Homed
    <2>2. ASSUME NEW v \in Works, work'[v].place = "Terminal" PROVE occ'[v][work'[v].epoch].state \in Final
        <3>1. v # w /\ work[v].epoch \in Epochs /\ occ[v][work[v].epoch].state \in Final
            BY <2>2, <1>1, <1>2 DEF LeavesKept
        <3>2. QED
            BY <3>1, <1>1, <1>12
    <2>3. ASSUME NEW v \in Works, v \in ActiveWorks'
          PROVE  LeavesAgree(v)' /\ active'[v].owner \in Owners /\ active'[v].slot \in Slots
        <3>1. CASE v = w
            BY <3>1, <1>1, <1>2, <1>10, <1>13 DEF LeavesAgree
        <3>2. CASE v # w
            <4>1. LeavesAgree(v) /\ active[v].owner \in Owners /\ active[v].slot \in Slots /\ active[v].epoch \in Epochs
                BY <2>3, <1>14 DEF LeavesKept, LeavesAgree
            <4>2. work'[v] = work[v] /\ active'[v] = active[v]
                BY <3>2, <1>1, <1>11
            <4>3. occ'[v][active[v].epoch] = occ[v][active[v].epoch]
                BY <4>1, <3>2, <1>12
            <4>4. QED
                BY <4>1, <4>2, <4>3 DEF LeavesAgree
        <3>3. QED
            BY <3>1, <3>2
    <2>4. QED
        BY <2>1, <2>2, <2>3 DEF LeavesKept
<1>20. OccKept'
    <2>1. ASSUME NEW v \in Works, NEW f \in Epochs, v = w, f = e
          PROVE  /\ occ'[v][f] # NoOcc => /\ occ'[v][f].state # "Absent" /\ occ'[v][f].region \in Regions
                                          /\ Hot(v)' /\ occ'[v][f].region = work'[v].region
                 /\ v \in ActiveWorks' /\ active'[v].epoch = f /\ cold'[v][f] = NoOcc
        <3>1. Hot(w) /\ Homed(w)
            BY <1>2 DEF LeavesKept, Hot
        <3>2. cold[w][e] = NoOcc
            BY <3>1, <1>2 DEF OccKept, Homed
        <3>3. occ[w][e].region = work[w].region /\ occ[w][e].region \in Regions
            BY <3>1, <3>2, <1>2, <1>15 DEF OccKept
        <3>4. QED
            BY <2>1, <3>1, <3>2, <3>3, <1>1, <1>10, <1>13, <1>14 DEF Hot
    <2>2. ASSUME NEW v \in Works, NEW f \in Epochs, v # w \/ f # e
          PROVE  /\ occ'[v][f] = occ[v][f] /\ cold'[v][f] = cold[v][f] /\ work'[v] = work[v]
                 /\ index'[v] = index[v] /\ (v \in ActiveWorks' <=> v \in ActiveWorks)
                 /\ active'[v].epoch = active[v].epoch
        <3>1. active'[v].epoch = active[v].epoch
            BY <1>10, <1>11
        <3>2. occ'[v][f] = occ[v][f]
            BY <2>2, <1>12
        <3>3. QED
            BY <3>1, <3>2, <1>1, <1>14
    <2>3. ASSUME NEW v \in Works, NEW f \in Epochs
          PROVE  /\ occ'[v][f] # NoOcc => /\ occ'[v][f].state # "Absent" /\ occ'[v][f].region \in Regions
                                          /\ \/ Hot(v)' /\ occ'[v][f].region = work'[v].region
                                             \/ cold'[v][f] = occ'[v][f]
                 /\ occ'[v][f].state = "Running" => v \in ActiveWorks' /\ active'[v].epoch = f
                 /\ cold'[v][f] # NoOcc => /\ index'[v] # 0 /\ cold'[v][f].state \in Final
                                           /\ cold'[v][f].region \in Regions /\ cert'[cold'[v][f].region] # "None"
                                           /\ occ'[v][f] \in {NoOcc, cold'[v][f]}
        <3>1. CASE v = w /\ f = e
            BY <3>1, <2>1
        <3>2. CASE v # w \/ f # e
            <4>1. /\ occ'[v][f] = occ[v][f] /\ cold'[v][f] = cold[v][f] /\ (Hot(v)' <=> Hot(v))
                  /\ work'[v].region = work[v].region /\ index'[v] = index[v] /\ cert' = cert
                  /\ (v \in ActiveWorks' <=> v \in ActiveWorks) /\ active'[v].epoch = active[v].epoch
                BY <3>2, <2>2, <1>1 DEF Hot
            <4>2. QED
                BY <4>1 DEF OccKept
        <3>3. QED
            BY <3>1, <3>2
    <2>4. QED
        BY <2>3 DEF OccKept
<1>21. QueuesKept' /\ ParksKept'
    BY <1>1, QueuesFrame, ParksFrame
<1>22. CountsKept'
    <2>1. Present' = Present /\ Certified' = Certified /\ ParkedSet' = ParkedSet
        BY <1>1 DEF Present, Certified, ParkedSet
    <2>2. QED
        BY <2>1, <1>1, <1>16, HotFrame, OccFrame DEF CountsKept
<1>23. ColdTyped' /\ FrontierKept'
    BY <1>1 DEF ColdTyped, FrontierKept, Frontier
<1>24. LeaseBacksClaim'
    <2>1. leases'[s] = lease /\ \A t \in Slots : t # s => leases'[t] = leases[t]
        BY <1>1, <1>2 DEF TypeOK
    <2>2. \A v \in ActiveWorks : active'[v].slot = active[v].slot
        BY <1>10, <1>11 DEF ActiveWorks
    <2>3. LeaseHeld(w)'
        <3>1. lease = [owner |-> c.owner, epoch |-> lease.epoch, expires |-> lease.expires]
            BY <1>3
        <3>2. QED
            BY <3>1, <2>1, <1>10 DEF LeaseHeld
    <2>4. ASSUME NEW v \in ActiveWorks, v # w PROVE LeaseHeld(v)' \/ Overtaken(v)'
        <3>1. active[v].slot # s /\ active[v].slot \in Slots /\ active'[v] = active[v]
            BY <2>4, <1>1, <1>11 DEF LeaseBacksClaim, LeavesKept, ActiveWorks
        <3>2. LeaseHeld(v) \/ Overtaken(v)
            BY <2>4 DEF LeaseBacksClaim
        <3>3. QED
            BY <3>1, <3>2, <2>1 DEF LeaseHeld, Overtaken
    <2>5. QED
        BY <2>2, <2>3, <2>4, <1>14 DEF LeaseBacksClaim
<1>25. QED
    BY <1>17, <1>18, <1>19, <1>20, <1>21, <1>22, <1>23, <1>24
-----------------------------------------------------------------------------
(* Work becomes ready: each goes into the queue of the Run of its region.  *)

LEMMA ReadiedFacts ==
    ASSUME Inv, NEW S \in SUBSET Works, NEW home, Readied(S, home), sequence' = sequence,
           \A w \in S : home[w] \in Regions /\ work[w].place # "Ready",
           \A w \in S : work'[w].place = "Ready" /\ work'[w].region = home[w],
           \A w \in Works : w \notin S => /\ work'[w].place = "Ready" <=> work[w].place = "Ready"
                                          /\ work'[w].region = work[w].region
    PROVE  QueuesKept' /\ ready' \in [Runs -> Seq(Works)] /\ since' \in [Works -> Int]
<1> DEFINE Mine(q) == {w \in S : RunOf[home[w]] = q}
<1>1. \A w \in S : RunOf[home[w]] \in Runs
    BY IdentityAssumption
<1>2. ready' = [q \in Runs |-> Queued(ready[q], Mine(q))]
    BY DEF Readied, Queued
<1>3. since' = [w \in Works |-> IF w \in S THEN sequence ELSE since[w]]
    BY DEF Readied
<1>4. ready \in [Runs -> Seq(Works)] /\ since \in [Works -> Int] /\ sequence \in Nat
    BY DEF Inv, TypeOK
<1>5. ASSUME NEW q \in Runs
      PROVE  /\ ready'[q] \in Seq(Works) /\ Range(ready'[q]) = Range(ready[q]) \cup Mine(q)
             /\ IsInjective(ready'[q])
    <2>1. Mine(q) \in SUBSET Works /\ ready[q] \in Seq(Works) /\ IsInjective(ready[q])
        BY <1>4 DEF Inv, QueuesKept
    <2>2. Mine(q) \cap Range(ready[q]) = {}
        BY DEF Inv, QueuesKept
    <2>3. ready'[q] = Queued(ready[q], Mine(q))
        BY <1>2
    <2> HIDE DEF Mine
    <2>4. QED
        BY <2>1, <2>2, <2>3, QueuedFacts
<1>6. ready' \in [Runs -> Seq(Works)]
    <2>1. ready' = [q \in Runs |-> ready'[q]]
        BY <1>2
    <2>2. QED
        BY <2>1, <1>5
<1>7. since' \in [Works -> Int]
    BY <1>3, <1>4
<1>8. ASSUME NEW q \in Runs, NEW w \in Range(ready'[q])
      PROVE  work'[w].place = "Ready" /\ RunOfWork(w)' = q
    <2>1. w \in Range(ready[q]) \/ w \in Mine(q)
        BY <1>5
    <2>2. CASE w \in Mine(q)
        BY <2>2 DEF RunOfWork
    <2>3. CASE w \in Range(ready[q])
        <3>1. w \in Works
            BY <2>3, <1>4, QueueDomain DEF Range
        <3>2. work[w].place = "Ready" /\ RunOfWork(w) = q
            BY <2>3 DEF Inv, QueuesKept
        <3>3. w \notin S
            BY <3>2
        <3>4. QED
            BY <3>1, <3>2, <3>3 DEF RunOfWork
    <2>4. QED
        BY <2>1, <2>2, <2>3
<1>9. ASSUME NEW w \in Works, work'[w].place = "Ready"
      PROVE  w \in Range(ready'[RunOfWork(w)']) /\ since'[w] \in 0..sequence'
    <2>1. CASE w \in S
        <3>1. RunOfWork(w)' = RunOf[home[w]] /\ RunOf[home[w]] \in Runs
            BY <2>1, <1>1 DEF RunOfWork
        <3>2. w \in Mine(RunOf[home[w]])
            BY <2>1
        <3>3. since'[w] = sequence
            BY <2>1, <1>3
        <3>4. QED
            BY <3>1, <3>2, <3>3, <1>4, <1>5
    <2>2. CASE w \notin S
        <3>1. work[w].place = "Ready" /\ RunOfWork(w)' = RunOfWork(w)
            BY <2>2, <1>9 DEF RunOfWork
        <3>2. w \in Range(ready[RunOfWork(w)]) /\ since[w] \in 0..sequence
            BY <3>1 DEF Inv, QueuesKept
        <3>3. RunOfWork(w) \in Runs
            BY <3>1, IdentityAssumption DEF Inv, LeavesKept, Hot, Homed, RunOfWork
        <3>4. since'[w] = since[w]
            BY <2>2, <1>3
        <3>5. QED
            BY <3>1, <3>2, <3>3, <3>4, <1>5
    <2>3. QED
        BY <2>1, <2>2
<1>10. \A q \in Runs : IsInjective(ready'[q])
    BY <1>5
<1>11. QED
    BY <1>6, <1>7, <1>8, <1>9, <1>10 DEF QueuesKept

(* Queues whose work stays ready.                                          *)
LEMMA QueuesLeft ==
    ASSUME Inv, UNCHANGED <<ready, since, sequence>>,
           \A w \in Works : /\ work'[w].place = "Ready" <=> work[w].place = "Ready"
                            /\ work'[w].region = work[w].region
    PROVE  QueuesKept'
<1>1. \A w \in Works : RunOfWork(w)' = RunOfWork(w)
    BY DEF RunOfWork
<1>2. \A q \in Runs : Range(ready[q]) \subseteq Works
    BY QueueDomain DEF Inv, TypeOK, Range
<1>3. \A q \in Runs : IsInjective(ready'[q])
    BY DEF Inv, QueuesKept
<1>4. ASSUME NEW q \in Runs, NEW w \in Range(ready'[q]) PROVE work'[w].place = "Ready" /\ RunOfWork(w)' = q
    BY <1>1, <1>2 DEF Inv, QueuesKept
<1>5. ASSUME NEW w \in Works, work'[w].place = "Ready"
      PROVE  w \in Range(ready'[RunOfWork(w)']) /\ since'[w] \in 0..sequence'
    BY <1>1, <1>5 DEF Inv, QueuesKept
<1>6. QED
    BY <1>3, <1>4, <1>5 DEF QueuesKept

-----------------------------------------------------------------------------
(* A running occurrence is disposed of.                                    *)

Outcome(state, place) ==
    /\ state \in {"RetryScheduled", "Parked"} \cup Final /\ place \in {"Ready", "Parked", "Terminal"}
    /\ place = "Terminal" => state \in Final

LEMMA DisposedFacts ==
    ASSUME Inv, NEW w \in Works, Fenced(w), NEW state, NEW place, Outcome(state, place),
           Disposed(w, state, place)
    PROVE  LET e == active[w].epoch
           IN /\ e \in Epochs /\ work[w].place = "Active" /\ work[w].epoch = e
              /\ work' \in [Works -> WorkLeaf] /\ work'[w].place = place
              /\ work'[w].epoch = work[w].epoch /\ work'[w].region = work[w].region
              /\ \A v \in Works : v # w => work'[v] = work[v]
              /\ occ' \in [Works -> [Epochs -> OccLeaf]] /\ occ[w][e].state = "Running"
              /\ occ'[w][e] = [occ[w][e] EXCEPT !.state = state] /\ occ'[w][e].state = state
              /\ occ'[w][e].region = occ[w][e].region
              /\ \A v \in Works, f \in Epochs : v # w \/ f # e => occ'[v][f] = occ[v][f]
              /\ active' \in [Works -> ClaimLeaf] /\ active'[w] = NoClaim
              /\ \A v \in Works : v # w => active'[v] = active[v]
              /\ ActiveWorks' = ActiveWorks \ {w} /\ w \in ActiveWorks
              /\ SameHomes /\ SameOccs
              /\ UNCHANGED <<region, activeRegions, lastRegion, sequence, lastRun, run, cert, cold, index,
                             leases, clock, applied, consumed>>
<1> DEFINE e == active[w].epoch
           w2 == [work[w] EXCEPT !.place = place]
           o2 == [occ[w][e] EXCEPT !.state = state]
<1>1. /\ occ' = [occ EXCEPT ![w][e] = o2] /\ work' = [work EXCEPT ![w] = w2]
      /\ active' = [active EXCEPT ![w] = NoClaim]
    BY DEF Disposed
<1>2. UNCHANGED <<region, activeRegions, lastRegion, sequence, lastRun, run, cert, cold, index,
                  leases, clock, applied, consumed>>
    BY DEF Disposed, regionVars, archiveVars, leaseVars, waitVars
<1>3. w \in ActiveWorks /\ LeavesAgree(w)
    BY DEF Fenced
<1>4. e \in Epochs /\ work[w].place = "Active" /\ work[w].epoch = e /\ occ[w][e].state = "Running"
    BY <1>3 DEF Inv, LeavesKept, LeavesAgree
<1>5. work[w] \in WorkLeaf /\ occ[w][e] \in OccLeaf
    BY <1>4, LeafTypes DEF Inv
<1>6. w2 \in WorkLeaf /\ w2.place = place /\ w2.epoch = work[w].epoch /\ w2.region = work[w].region
    BY <1>5 DEF WorkLeaf, Outcome
<1>7. o2 \in OccLeaf /\ o2.state = state /\ o2.region = occ[w][e].region
    BY <1>5 DEF OccLeaf, Outcome
<1>8. NoClaim \in ClaimLeaf
    <2>1. 0 \in 0..MaxEpoch /\ 0 \in 0..(MaxTime + TTL)
        BY PolicyAssumption
    <2>2. QED
        BY <2>1 DEF NoClaim, ClaimLeaf
<1> HIDE DEF w2, o2
<1>9. /\ work' \in [Works -> WorkLeaf] /\ work'[w] = w2 /\ \A v \in Works : v # w => work'[v] = work[v]
    BY <1>1, <1>6, LeafTypes, LeafReplaced DEF Inv
<1>10. /\ active' \in [Works -> ClaimLeaf] /\ active'[w] = NoClaim
       /\ \A v \in Works : v # w => active'[v] = active[v]
    BY <1>1, <1>8, LeafTypes, LeafReplaced DEF Inv
<1>11. /\ occ' \in [Works -> [Epochs -> OccLeaf]] /\ occ'[w][e] = o2
       /\ \A v \in Works, f \in Epochs : v # w \/ f # e => occ'[v][f] = occ[v][f]
    BY <1>1, <1>4, <1>7, LeafTypes, OccReplaced DEF Inv
<1>12. ActiveWorks' = ActiveWorks \ {w}
    BY <1>10 DEF ActiveWorks
<1>13. SameHomes
    BY <1>4, <1>6, <1>9 DEF SameHomes, Hot, Outcome
<1>14. SameOccs
    <2>1. occ[w][e] # NoOcc /\ o2 # NoOcc
        BY <1>4, <1>7 DEF NoOcc, Outcome, Final
    <2>2. QED
        BY <2>1, <1>7, <1>11 DEF SameOccs
<1>15. QED
    BY <1>2, <1>3, <1>4, <1>6, <1>7, <1>9, <1>10, <1>11, <1>12, <1>13, <1>14 DEF o2
(* What a disposition keeps, however the work is queued or parked next.    *)
LEMMA DisposedKeeps ==
    ASSUME Inv, NEW w \in Works, Fenced(w), NEW state, NEW place, Outcome(state, place),
           Disposed(w, state, place),
           \A v \in Works : parked'[v] # NoOwner <=> (IF v = w THEN place = "Parked" ELSE parked[v] # NoOwner)
    PROVE  /\ ColdTyped' /\ RegionsKept' /\ LeavesKept' /\ OccKept' /\ FrontierKept' /\ SourceKept'
           /\ LeaseBacksClaim'
<1> DEFINE e == active[w].epoch
<1>1. /\ e \in Epochs /\ work[w].place = "Active" /\ work[w].epoch = e
      /\ work'[w].place = place /\ work'[w].epoch = work[w].epoch /\ work'[w].region = work[w].region
      /\ \A v \in Works : v # w => work'[v] = work[v]
    BY DisposedFacts, ZenonT(30)
<1>2. /\ occ[w][e].state = "Running" /\ occ'[w][e].state = state /\ occ'[w][e].region = occ[w][e].region
      /\ \A v \in Works, f \in Epochs : v # w \/ f # e => occ'[v][f] = occ[v][f]
    BY DisposedFacts
<1>3. /\ active'[w] = NoClaim /\ \A v \in Works : v # w => active'[v] = active[v]
      /\ ActiveWorks' = ActiveWorks \ {w} /\ w \in ActiveWorks
    BY DisposedFacts
<1>4. SameHomes /\ SameOccs
    BY DisposedFacts
<1>5. UNCHANGED <<region, activeRegions, lastRegion, cert, cold, index, leases>>
    BY DisposedFacts
<1> HIDE DEF e
<1>6. ColdTyped'
    BY <1>5 DEF Inv, ColdTyped
<1>7. RegionsKept' /\ SourceKept'
    BY <1>4, <1>5, RegionsFrame, SourceFrame DEF Inv, SameHomes
<1>8. LeavesKept'
    <2>1. ASSUME NEW v \in Works, Hot(v)' PROVE Homed(v)'
        BY <2>1, <1>4, <1>5 DEF Inv, LeavesKept, SameHomes, Homed
    <2>2. ASSUME NEW v \in Works PROVE work'[v].place = "Active" <=> v \in ActiveWorks'
        BY <1>1, <1>3 DEF Inv, LeavesKept, Outcome
    <2>3. ASSUME NEW v \in Works, v \in ActiveWorks'
          PROVE  LeavesAgree(v)' /\ active'[v].owner \in Owners /\ active'[v].slot \in Slots
        <3>1. v # w /\ v \in ActiveWorks
            BY <2>3, <1>3
        <3>2. LeavesAgree(v) /\ active[v].owner \in Owners /\ active[v].slot \in Slots /\ active[v].epoch \in Epochs
            BY <3>1 DEF Inv, LeavesKept, LeavesAgree
        <3>3. QED
            BY <3>1, <3>2, <1>1, <1>2, <1>3 DEF LeavesAgree
    <2>4. ASSUME NEW v \in Works, work'[v].place \in {"Active", "Terminal"} PROVE work'[v].epoch \in Epochs
        BY <2>4, <1>1 DEF Inv, LeavesKept
    <2>5. ASSUME NEW v \in Works, work'[v].place = "Terminal" PROVE occ'[v][work'[v].epoch].state \in Final
        <3>1. CASE v = w
            BY <3>1, <2>5, <1>1, <1>2 DEF Outcome
        <3>2. CASE v # w
            <4>1. work[v].epoch \in Epochs /\ occ[v][work[v].epoch].state \in Final
                BY <3>2, <2>5, <1>1 DEF Inv, LeavesKept
            <4>2. QED
                BY <3>2, <4>1, <1>1, <1>2
        <3>3. QED
            BY <3>1, <3>2
    <2>6. ASSUME NEW v \in Works PROVE work'[v].place = "Parked" <=> parked'[v] # NoOwner
        BY <1>1 DEF Inv, LeavesKept
    <2>7. QED
        BY <2>1, <2>2, <2>3, <2>4, <2>5, <2>6 DEF LeavesKept
<1>9. OccKept'
    <2>1. Hot(w) /\ Homed(w)
        BY <1>1 DEF Inv, LeavesKept, Hot
    <2>2. cold[w][e] = NoOcc /\ occ[w][e] # NoOcc
        BY <2>1, <1>1, <1>2 DEF Inv, OccKept, Homed, NoOcc
    <2>3. occ[w][e].region = work[w].region /\ occ[w][e].region \in Regions
        BY <2>2, <1>1 DEF Inv, OccKept
    <2>4. state # "Absent" /\ state # "Running"
        BY DEF Outcome, Final
    <2>5. ASSUME NEW v \in Works, NEW f \in Epochs
          PROVE  /\ occ'[v][f] # NoOcc => /\ occ'[v][f].state # "Absent" /\ occ'[v][f].region \in Regions
                                          /\ \/ Hot(v)' /\ occ'[v][f].region = work'[v].region
                                             \/ cold'[v][f] = occ'[v][f]
                 /\ occ'[v][f].state = "Running" => v \in ActiveWorks' /\ active'[v].epoch = f
                 /\ cold'[v][f] # NoOcc => /\ index'[v] # 0 /\ cold'[v][f].state \in Final
                                           /\ cold'[v][f].region \in Regions /\ cert'[cold'[v][f].region] # "None"
                                           /\ occ'[v][f] \in {NoOcc, cold'[v][f]}
        <3>1. CASE v = w /\ f = e
            BY <3>1, <2>1, <2>2, <2>3, <2>4, <1>1, <1>2, <1>4, <1>5 DEF SameHomes
        <3>2. CASE v # w \/ f # e
            <4>1. /\ occ'[v][f] = occ[v][f] /\ cold'[v][f] = cold[v][f] /\ (Hot(v)' <=> Hot(v))
                  /\ work'[v].region = work[v].region /\ index'[v] = index[v] /\ cert' = cert
                BY <3>2, <1>2, <1>4, <1>5 DEF SameHomes
            <4>2. ASSUME occ[v][f].state = "Running" PROVE v \in ActiveWorks' /\ active'[v].epoch = f
                <5>1. v \in ActiveWorks /\ active[v].epoch = f
                    BY <4>2 DEF Inv, OccKept
                <5>2. v # w
                    BY <5>1, <3>2 DEF e
                <5>3. QED
                    BY <5>1, <5>2, <1>3
            <4>3. QED
                BY <4>1, <4>2 DEF Inv, OccKept
        <3>3. QED
            BY <3>1, <3>2
    <2>6. QED
        BY <2>5 DEF OccKept
<1>10. FrontierKept'
    <2>1. Frontier' \subseteq Frontier /\ Frontier \subseteq Works
        BY <1>1 DEF Frontier
    <2>2. Frontier' \in SUBSET Works /\ Frontier \in SUBSET Works
        BY <2>1
    <2>3. IsFiniteSet(Frontier) /\ Cardinality(Frontier) \in Nat /\ Cardinality(Frontier') \in Nat
        BY <2>2, WorksCounted
    <2>4. Cardinality(Frontier') <= Cardinality(Frontier)
        BY <2>1, <2>3, SeveralLess
    <2>5. Cardinality(Frontier) <= MaxMaterialized /\ MaxMaterialized \in Nat
        BY PolicyAssumption DEF Inv, FrontierKept
    <2>6. QED
        BY <2>3, <2>4, <2>5 DEF FrontierKept
<1>11. LeaseBacksClaim'
    BY <1>3, <1>5 DEF Inv, LeaseBacksClaim, LeaseHeld, Overtaken, ActiveWorks
<1>12. QED
    BY <1>6, <1>7, <1>8, <1>9, <1>10, <1>11

(* The counts of leaves that no step of the frontier adds or drops.        *)
LEMMA CountsFrame ==
    ASSUME Inv, UNCHANGED <<region, activeRegions, cert>>, SameHomes, SameOccs,
           counts'.parked = Cardinality(ParkedSet'),
           counts'.regions = counts.regions, counts'.activeRegions = counts.activeRegions,
           counts'.certs = counts.certs, counts'.work = counts.work, counts'.occ = counts.occ
    PROVE  CountsKept'
<1>1. Present' = Present /\ Certified' = Certified
    BY DEF Present, Certified
<1>2. QED
    BY <1>1, HotFrame, OccFrame DEF Inv, CountsKept

(* The type of what a disposition and its queueing or parking change.      *)
LEMMA DisposedTyped ==
    ASSUME Inv, NEW w \in Works, Fenced(w), NEW state, NEW place, Outcome(state, place),
           Disposed(w, state, place),
           ready' \in [Runs -> Seq(Works)], since' \in [Works -> Int],
           parked' \in [Works -> Reasons \cup {NoOwner}], pages' \in [Reasons -> Seq(SUBSET Works)],
           directory' \in [Waits -> [work: Nat, pages: Nat]],
           counts' \in [regions: Nat, activeRegions: Nat, parked: Nat, work: Nat, occ: Nat, certs: Nat]
    PROVE  TypeOK'
<1>1. work' \in [Works -> WorkLeaf] /\ occ' \in [Works -> [Epochs -> OccLeaf]] /\ active' \in [Works -> ClaimLeaf]
    BY DisposedFacts
<1>2. UNCHANGED <<region, activeRegions, lastRegion, sequence, lastRun, run, cert, cold, index,
                  leases, clock, applied, consumed>>
    BY DisposedFacts
<1>3. QED
    BY <1>1, <1>2 DEF Inv, TypeOK, WorkLeaf, OccLeaf, ClaimLeaf

LEMMA EndStep ==
    ASSUME Inv, NEW w \in Works, Fenced(w), NEW verdict \in Verdicts, End(w, verdict)
    PROVE  Inv'
<1>1. Outcome(verdict, "Terminal") /\ Disposed(w, verdict, "Terminal")
    BY IdentityAssumption DEF Outcome, End
<1>2. UNCHANGED <<ready, since, parked, pages, directory, counts>>
    BY DEF End, parkVars
<1>3. parked[w] = NoOwner
    BY <1>1, DisposedFacts DEF Inv, LeavesKept
<1>4. \A v \in Works : parked'[v] # NoOwner <=> (IF v = w THEN "Terminal" = "Parked" ELSE parked[v] # NoOwner)
    BY <1>2, <1>3
<1>5. /\ ColdTyped' /\ RegionsKept' /\ LeavesKept' /\ OccKept' /\ FrontierKept' /\ SourceKept'
      /\ LeaseBacksClaim'
    BY <1>1, <1>4, DisposedKeeps
<1>6. TypeOK'
    BY <1>1, <1>2, DisposedTyped DEF Inv, TypeOK
<1>7. QueuesKept'
    <2>1. \A v \in Works : /\ work'[v].place = "Ready" <=> work[v].place = "Ready"
                           /\ work'[v].region = work[v].region
        <3>1. /\ work[w].place = "Active" /\ work'[w].place = "Terminal"
              /\ work'[w].region = work[w].region /\ \A v \in Works : v # w => work'[v] = work[v]
            BY <1>1, DisposedFacts
        <3>2. QED
            BY <3>1
    <2>2. sequence' = sequence
        BY <1>1, DisposedFacts
    <2>3. QED
        BY <2>1, <2>2, <1>2, QueuesLeft
<1>8. ParksKept'
    BY <1>2, ParksFrame DEF Inv
<1>9. CountsKept'
    <2>1. ParkedSet' = ParkedSet
        BY <1>2 DEF ParkedSet
    <2>2. UNCHANGED <<region, activeRegions, cert>> /\ SameHomes /\ SameOccs
        BY <1>1, DisposedFacts
    <2>3. QED
        BY <2>1, <2>2, <1>2, CountsFrame DEF Inv, CountsKept
<1>10. QED
    BY <1>5, <1>6, <1>7, <1>8, <1>9 DEF Inv

LEMMA RetryStep ==
    ASSUME Inv, NEW w \in Works, Fenced(w), Retry(w)
    PROVE  Inv'
<1>1. Outcome("RetryScheduled", "Ready") /\ Disposed(w, "RetryScheduled", "Ready")
    BY DEF Outcome, Retry
<1>2. Readied({w}, Homes) /\ UNCHANGED <<parked, pages, directory, counts>>
    BY DEF Retry, parkVars
<1>3. parked[w] = NoOwner
    BY <1>1, DisposedFacts DEF Inv, LeavesKept
<1>4. \A v \in Works : parked'[v] # NoOwner <=> (IF v = w THEN "Ready" = "Parked" ELSE parked[v] # NoOwner)
    BY <1>2, <1>3
<1>5. /\ ColdTyped' /\ RegionsKept' /\ LeavesKept' /\ OccKept' /\ FrontierKept' /\ SourceKept'
      /\ LeaseBacksClaim'
    BY <1>1, <1>4, DisposedKeeps
<1>6. QueuesKept' /\ ready' \in [Runs -> Seq(Works)] /\ since' \in [Works -> Int]
    <2>1. /\ sequence' = sequence /\ work[w].place = "Active" /\ work'[w].place = "Ready"
          /\ work'[w].region = work[w].region /\ \A v \in Works : v # w => work'[v] = work[v]
        BY <1>1, DisposedFacts
    <2>2. Homes[w] = work[w].region /\ work[w].region \in Regions
        BY <2>1 DEF Homes, Inv, LeavesKept, Hot, Homed
    <2>3. {w} \in SUBSET Works
        OBVIOUS
    <2>4. \A v \in {w} : Homes[v] \in Regions /\ work[v].place # "Ready"
        BY <2>1, <2>2
    <2>5. \A v \in {w} : work'[v].place = "Ready" /\ work'[v].region = Homes[v]
        BY <2>1, <2>2
    <2>6. \A v \in Works : v \notin {w} => /\ work'[v].place = "Ready" <=> work[v].place = "Ready"
                                           /\ work'[v].region = work[v].region
        BY <2>1
    <2>7. sequence' = sequence
        BY <2>1
    <2>8. QED
        BY <2>3, <2>4, <2>5, <2>6, <2>7, <1>2, ReadiedFacts
<1>7. TypeOK'
    BY <1>1, <1>2, <1>6, DisposedTyped DEF Inv, TypeOK
<1>8. ParksKept'
    BY <1>2, ParksFrame DEF Inv
<1>9. CountsKept'
    <2>1. ParkedSet' = ParkedSet
        BY <1>2 DEF ParkedSet
    <2>2. UNCHANGED <<region, activeRegions, cert>> /\ SameHomes /\ SameOccs
        BY <1>1, DisposedFacts
    <2>3. QED
        BY <2>1, <2>2, <1>2, CountsFrame DEF Inv, CountsKept
<1>10. QED
    BY <1>5, <1>6, <1>7, <1>8, <1>9 DEF Inv
-----------------------------------------------------------------------------
(* Parking.  A page chain: disjoint pages, each but the last one full.     *)

Chain(t) ==
    /\ t \in Seq(SUBSET Works)
    /\ \A i, j \in DOMAIN t : i # j => t[i] \cap t[j] = {}
    /\ \A i \in DOMAIN t : i < Len(t) => Cardinality(t[i]) = PageItems
    /\ \A i \in DOMAIN t : Cardinality(t[i]) <= PageItems

(* Adding a work to the last page, or to a new one when that is full.      *)
LEMMA AppendFacts ==
    ASSUME NEW t, Chain(t), NEW w \in Works, w \notin UNION Range(t)
    PROVE  /\ Chain(Append1(t, w)) /\ UNION Range(Append1(t, w)) = (UNION Range(t)) \cup {w}
           /\ Len(Append1(t, w)) \in {Len(t), Len(t) + 1}
<1> DEFINE n == Len(t)
           u == Append1(t, w)
<1>1. t \in Seq(SUBSET Works) /\ n \in Nat /\ DOMAIN t = 1..n /\ \A i \in 1..n : t[i] \in SUBSET Works /\ w \notin t[i]
    BY DEF Chain, Range
<1>2. \A i \in 1..n : IsFiniteSet(t[i]) /\ Cardinality(t[i]) \in Nat /\ Cardinality(t[i] \cup {w}) = Cardinality(t[i]) + 1
    BY <1>1, WorksCounted, OneMore
<1>3. /\ \A i, j \in 1..n : i # j => t[i] \cap t[j] = {}
      /\ \A i \in 1..n : i < n => Cardinality(t[i]) = PageItems
      /\ \A i \in 1..n : Cardinality(t[i]) <= PageItems
      /\ PageItems \in Nat \ {0}
    BY <1>1, PolicyAssumption DEF Chain
<1>4. t # <<>> => n \in 1..n /\ Last(t) = t[n]
    BY <1>1 DEF Last
<1>5. t = <<>> => n = 0
    OBVIOUS
<1> HIDE DEF n
<1>6. \A i \in 1..n : i < n => i # n
    BY <1>1
<1>7. CASE t # <<>> /\ Cardinality(Last(t)) < PageItems
    <2>1. u = [t EXCEPT ![n] = t[n] \cup {w}] /\ n \in 1..n /\ Cardinality(t[n]) < PageItems
        BY <1>4, <1>7 DEF Append1, n
    <2>2. u \in Seq(SUBSET Works) /\ Len(u) = n /\ DOMAIN u = 1..n
        BY <2>1, <1>1 DEF n
    <2>3. u[n] = t[n] \cup {w} /\ \A i \in 1..n : i # n => u[i] = t[i]
        BY <2>1, <1>1
    <2> HIDE DEF u
    <2>4. \A i, j \in 1..n : i # j => u[i] \cap u[j] = {}
        <3> SUFFICES ASSUME NEW i \in 1..n, NEW j \in 1..n, i # j PROVE u[i] \cap u[j] = {}
            OBVIOUS
        <3>1. t[i] \cap t[j] = {} /\ w \notin t[i] /\ w \notin t[j]
            BY <1>1, <1>3
        <3>2. CASE i = n
            <4>1. u[i] = t[i] \cup {w} /\ u[j] = t[j]
                BY <3>2, <2>3
            <4>2. QED
                BY <4>1, <3>1
        <3>3. CASE j = n
            <4>1. u[j] = t[j] \cup {w} /\ u[i] = t[i]
                BY <3>3, <2>3
            <4>2. QED
                BY <4>1, <3>1
        <3>4. CASE i # n /\ j # n
            BY <3>1, <3>4, <2>3
        <3>5. QED
            BY <3>2, <3>3, <3>4
    <2>5. \A i \in 1..n : i < n => Cardinality(u[i]) = PageItems
        <3> SUFFICES ASSUME NEW i \in 1..n, i < n PROVE Cardinality(u[i]) = PageItems
            OBVIOUS
        <3>1. i # n
            BY <1>6
        <3>2. QED
            BY <3>1, <2>3, <1>3
    <2>6. \A i \in 1..n : Cardinality(u[i]) <= PageItems
        <3> SUFFICES ASSUME NEW i \in 1..n PROVE Cardinality(u[i]) <= PageItems
            OBVIOUS
        <3>1. CASE i = n
            <4>1. Cardinality(u[n]) = Cardinality(t[n]) + 1 /\ Cardinality(t[n]) \in Nat
                BY <2>1, <2>3, <1>2
            <4>2. QED
                BY <4>1, <3>1, <2>1, <1>3
        <3>2. CASE i # n
            BY <3>2, <2>3, <1>3
        <3>3. QED
            BY <3>1, <3>2
    <2>7. Chain(u)
        BY <2>2, <2>4, <2>5, <2>6 DEF Chain
    <2>8. UNION Range(u) = (UNION Range(t)) \cup {w}
        <3>1. \A x : x \in UNION Range(u) <=> \E i \in 1..n : x \in u[i]
            BY <2>2 DEF Range
        <3>2. \A x : x \in UNION Range(t) <=> \E i \in 1..n : x \in t[i]
            BY <1>1 DEF Range
        <3>3. \A x : (\E i \in 1..n : x \in u[i]) <=> (\E i \in 1..n : x \in t[i]) \/ x = w
            BY <2>1, <2>3
        <3> DEFINE A == UNION Range(u)
                   B == UNION Range(t)
        <3> HIDE DEF A, B
        <3>4. A = B \cup {w}
            BY <3>1, <3>2, <3>3 DEF A, B
        <3>5. QED
            BY <3>4 DEF A, B
    <2>9. QED
        BY <2>2, <2>7, <2>8 DEF u, n
<1>8. CASE ~(t # <<>> /\ Cardinality(Last(t)) < PageItems)
    <2>1. u = Append(t, {w})
        BY <1>8 DEF Append1
    <2>2. u \in Seq(SUBSET Works) /\ Len(u) = n + 1 /\ DOMAIN u = 1..(n + 1)
        BY <2>1, <1>1 DEF n
    <2>3. u[n + 1] = {w} /\ \A i \in 1..n : u[i] = t[i]
        BY <2>1, <1>1 DEF n
    <2>4. t # <<>> => Cardinality(t[n]) = PageItems
        <3> SUFFICES ASSUME t # <<>> PROVE Cardinality(t[n]) = PageItems
            OBVIOUS
        <3>1. n \in 1..n /\ ~(Cardinality(t[n]) < PageItems)
            BY <1>4, <1>8
        <3>2. Cardinality(t[n]) \in Nat /\ Cardinality(t[n]) <= PageItems
            BY <3>1, <1>2, <1>3
        <3> DEFINE k == Cardinality(t[n])
        <3> HIDE DEF k
        <3>3. k = PageItems
            BY <3>1, <3>2, <1>3 DEF k
        <3>4. QED
            BY <3>3 DEF k
    <2>5. n # 0 => t # <<>>
        BY <1>5
    <2>6. Cardinality({w}) = 1
        BY FS_Singleton
    <2>7. \A i \in 1..(n + 1) : i \in 1..n \/ i = n + 1
        BY <1>1
    <2> HIDE DEF u
    <2>8. ASSUME NEW i \in 1..(n + 1), NEW j \in 1..(n + 1), i # j PROVE u[i] \cap u[j] = {}
        <3>1. (i \in 1..n /\ j \in 1..n) \/ (i \in 1..n /\ j = n + 1) \/ (i = n + 1 /\ j \in 1..n)
            <4>1. (i \in 1..n \/ i = n + 1) /\ (j \in 1..n \/ j = n + 1)
                BY <2>7
            <4>2. QED
                BY <4>1, <2>8
        <3>2. QED
            BY <3>1, <2>3, <2>8, <1>1, <1>3
    <2>9. ASSUME NEW i \in 1..(n + 1), i < n + 1 PROVE Cardinality(u[i]) = PageItems
        <3>1. i \in 1..n /\ n # 0 /\ (i < n \/ i = n)
            BY <2>9, <1>1
        <3>2. QED
            BY <3>1, <2>3, <2>4, <2>5, <1>3
    <2>10. ASSUME NEW i \in 1..(n + 1) PROVE Cardinality(u[i]) <= PageItems
        <3>1. CASE i \in 1..n
            BY <3>1, <2>3, <1>3
        <3>2. CASE i = n + 1
            BY <3>2, <2>3, <2>6, <1>3
        <3>3. QED
            BY <3>1, <3>2, <2>7
    <2>11. Chain(u)
        BY <2>2, <2>8, <2>9, <2>10 DEF Chain
    <2>12. UNION Range(u) = (UNION Range(t)) \cup {w}
        <3>1. \A x : x \in UNION Range(u) <=> \E i \in 1..(n + 1) : x \in u[i]
            BY <2>2 DEF Range
        <3>2. \A x : x \in UNION Range(t) <=> \E i \in 1..n : x \in t[i]
            BY <1>1 DEF Range
        <3>3. n + 1 \in 1..(n + 1) /\ \A i \in 1..n : i \in 1..(n + 1)
            BY <1>1
        <3>4. \A x : (\E i \in 1..(n + 1) : x \in u[i]) <=> (\E i \in 1..n : x \in t[i]) \/ x = w
            BY <3>3, <2>3, <2>7
        <3> DEFINE A == UNION Range(u)
                   B == UNION Range(t)
        <3> HIDE DEF A, B
        <3>5. A = B \cup {w}
            BY <3>1, <3>2, <3>4 DEF A, B
        <3>6. QED
            BY <3>5 DEF A, B
    <2>13. QED
        BY <2>2, <2>11, <2>12 DEF u, n
<1>9. QED
    BY <1>7, <1>8

(* Parking a work keeps the index of parked work.                          *)
LEMMA ParkFacts ==
    ASSUME Inv, NEW w \in Works, NEW x \in Reasons, Park(w, x)
    PROVE  /\ ParksKept'
           /\ parked' \in [Works -> Reasons \cup {NoOwner}] /\ pages' \in [Reasons -> Seq(SUBSET Works)]
           /\ directory' \in [Waits -> [work: Nat, pages: Nat]]
           /\ counts' \in [regions: Nat, activeRegions: Nat, parked: Nat, work: Nat, occ: Nat, certs: Nat]
           /\ parked'[w] = x /\ x # NoOwner /\ \A v \in Works : v # w => parked'[v] = parked[v]
           /\ counts'.parked = Cardinality(ParkedSet')
           /\ counts'.regions = counts.regions /\ counts'.activeRegions = counts.activeRegions
           /\ counts'.certs = counts.certs /\ counts'.work = counts.work /\ counts'.occ = counts.occ
<1> DEFINE t == pages[x]
           u == Append1(t, w)
<1>1. /\ parked[w] = NoOwner /\ pages' = [pages EXCEPT ![x] = u] /\ parked' = [parked EXCEPT ![w] = x]
      /\ directory' = Charged(x, w) /\ counts' = [counts EXCEPT !.parked = @ + 1]
      /\ x \in Waits => WakeItems(Charged(x, w)) <= MaxWake
    BY DEF Park
<1>2. /\ pages \in [Reasons -> Seq(SUBSET Works)] /\ parked \in [Works -> Reasons \cup {NoOwner}]
      /\ directory \in [Waits -> [work: Nat, pages: Nat]]
      /\ counts \in [regions: Nat, activeRegions: Nat, parked: Nat, work: Nat, occ: Nat, certs: Nat]
    BY DEF Inv, TypeOK
<1>3. x # NoOwner
    BY IdentityAssumption DEF Reasons
<1>4. \A y \in Reasons : Chain(pages[y]) /\ UNION Range(pages[y]) = {v \in Works : parked[v] = y}
    BY <1>2 DEF Inv, ParksKept, Chain, Members
<1>5. Chain(t) /\ w \notin UNION Range(t)
    BY <1>1, <1>3, <1>4
<1>6. Chain(u) /\ UNION Range(u) = (UNION Range(t)) \cup {w} /\ Len(u) \in {Len(t), Len(t) + 1}
    BY <1>5, AppendFacts
<1> HIDE DEF u
<1>7. pages' \in [Reasons -> Seq(SUBSET Works)] /\ pages'[x] = u /\ \A y \in Reasons : y # x => pages'[y] = pages[y]
    BY <1>1, <1>2, <1>6 DEF Chain
<1>8. /\ parked' \in [Works -> Reasons \cup {NoOwner}] /\ parked'[w] = x
      /\ \A v \in Works : v # w => parked'[v] = parked[v]
    BY <1>1, <1>2
<1>9. \A y \in Reasons : Chain(pages'[y]) /\ UNION Range(pages'[y]) = {v \in Works : parked'[v] = y}
    <2>1. UNION Range(u) = {v \in Works : parked'[v] = x}
        <3> DEFINE B == UNION Range(t)
                   P == {v \in Works : parked[v] = x}
        <3>1. B = P
            BY <1>4
        <3>2. P \cup {w} = {v \in Works : parked'[v] = x}
            BY <1>8
        <3> HIDE DEF B, P
        <3>3. UNION Range(u) = B \cup {w}
            BY <1>6 DEF B
        <3>4. QED
            BY <3>1, <3>2, <3>3
    <2>2. ASSUME NEW y \in Reasons, y # x PROVE {v \in Works : parked'[v] = y} = {v \in Works : parked[v] = y}
        BY <2>2, <1>1, <1>8, IdentityAssumption DEF Reasons
    <2>3. QED
        BY <2>1, <2>2, <1>4, <1>6, <1>7
<1>10. Len(t) \in Nat /\ Len(u) \in Nat
    BY <1>2, <1>6 DEF Chain
<1>11. ASSUME x \in Waits
       PROVE  /\ directory' \in [Waits -> [work: Nat, pages: Nat]] /\ directory'[x] = Charge(x)'
              /\ \A y \in Waits : y # x => directory'[y] = directory[y]
    <2> DEFINE c2 == [work |-> directory[x].work + 1, pages |-> directory[x].pages + Len(u) - Len(t)]
    <2>1. directory' = [directory EXCEPT ![x] = c2]
        BY <1>1, <1>11 DEF Charged, u
    <2>2. directory[x].work = Cardinality(UNION Range(t)) /\ directory[x].pages = Len(t)
        <3>1. directory[x] = Charge(x)
            BY <1>11 DEF Inv, ParksKept
        <3>2. Charge(x) = [work |-> Cardinality(UNION Range(t)), pages |-> Len(t)]
            BY DEF Charge, Members
        <3> HIDE DEF t
        <3>3. QED
            BY <3>1, <3>2
    <2>3. UNION Range(t) \in SUBSET Works
        BY <1>4
    <2>4. Cardinality(UNION Range(u)) = Cardinality(UNION Range(t)) + 1 /\ Cardinality(UNION Range(t)) \in Nat
        <3> DEFINE B == UNION Range(t)
        <3>1. IsFiniteSet(B) /\ Cardinality(B) \in Nat
            BY <2>3, WorksCounted
        <3>2. w \notin B /\ UNION Range(u) = B \cup {w}
            BY <1>5, <1>6
        <3> HIDE DEF B
        <3>3. Cardinality(B \cup {w}) = Cardinality(B) + 1
            BY <3>1, <3>2, OneMore
        <3>4. QED
            BY <3>1, <3>2, <3>3 DEF B
    <2>5. directory[x].pages + Len(u) - Len(t) = Len(u)
        BY <2>2, <1>10
    <2>6. c2 = [work |-> Cardinality(UNION Range(u)), pages |-> Len(u)]
        BY <2>2, <2>4, <2>5
    <2>7. c2 \in [work: Nat, pages: Nat]
        <3>1. directory[x].work + 1 \in Nat /\ directory[x].pages + Len(u) - Len(t) \in Nat
            BY <2>2, <2>4, <2>5, <1>10
        <3>2. QED
            BY <3>1
    <2> HIDE DEF c2
    <2>8. Charge(x)' = c2
        BY <2>6, <1>7 DEF Charge, Members
    <2>9. QED
        BY <2>1, <2>7, <2>8, <1>2, <1>11
<1>12. ASSUME x \notin Waits PROVE directory' = directory
    BY <1>1, <1>12 DEF Charged
<1>13. directory' \in [Waits -> [work: Nat, pages: Nat]]
    BY <1>2, <1>11, <1>12
<1>14. \A y \in Waits : directory'[y] = Charge(y)'
    <2> SUFFICES ASSUME NEW y \in Waits PROVE directory'[y] = Charge(y)'
        OBVIOUS
    <2>1. y \in Reasons
        BY DEF Reasons
    <2>2. CASE y = x
        BY <2>2, <1>11
    <2>3. CASE y # x
        <3>1. directory'[y] = directory[y]
            BY <2>3, <1>11, <1>12
        <3>2. directory[y] = Charge(y) /\ Charge(y)' = Charge(y)
            BY <2>1, <2>3, <1>7 DEF Inv, ParksKept, Charge, Members
        <3>3. QED
            BY <3>1, <3>2
    <2>4. QED
        BY <2>2, <2>3
<1>15. WakeItems(directory') <= MaxWake
    <2>1. CASE x \in Waits
        BY <2>1, <1>1
    <2>2. CASE x \notin Waits
        BY <2>2, <1>12 DEF Inv, ParksKept
    <2>3. QED
        BY <2>1, <2>2
<1>16. ParksKept'
    <2>1. \A y \in Reasons : Members(y)' = {v \in Works : parked'[v] = y}
        BY <1>9 DEF Members
    <2>2. WakeItems(directory)' <= MaxWake
        BY <1>15
    <2>3. QED
        BY <2>1, <2>2, <1>9, <1>14 DEF ParksKept, Chain
<1>17. counts'.parked = Cardinality(ParkedSet')
    <2>1. ParkedSet' = ParkedSet \cup {w} /\ w \notin ParkedSet /\ ParkedSet \in SUBSET Works
        BY <1>1, <1>3, <1>8 DEF ParkedSet
    <2>2. Cardinality(ParkedSet') = Cardinality(ParkedSet) + 1
        BY <2>1, WorksCounted, OneMore
    <2>3. counts'.parked = counts.parked + 1
        BY <1>1, <1>2
    <2>4. QED
        BY <2>2, <2>3 DEF Inv, CountsKept
<1>18. /\ counts' \in [regions: Nat, activeRegions: Nat, parked: Nat, work: Nat, occ: Nat, certs: Nat]
       /\ counts'.regions = counts.regions /\ counts'.activeRegions = counts.activeRegions
       /\ counts'.certs = counts.certs /\ counts'.work = counts.work /\ counts'.occ = counts.occ
    <2>1. counts \in [regions: Nat, activeRegions: Nat, parked: Nat, work: Nat, occ: Nat, certs: Nat]
        BY <1>2
    <2>2. counts' = [counts EXCEPT !.parked = counts.parked + 1]
        BY <1>1
    <2>3. counts.parked + 1 \in Nat
        BY <2>1
    <2>4. QED
        BY <2>1, <2>2, <2>3
<1>19. QED
    BY <1>3, <1>7, <1>8, <1>13, <1>16, <1>17, <1>18

LEMMA ParkStep ==
    ASSUME Inv, NEW w \in Works, Fenced(w), NEW x \in Reasons, RetryParked(w, x) \/ ParkOn(w, x)
    PROVE  Inv'
<1>1. PICK state : Outcome(state, "Parked") /\ Disposed(w, state, "Parked")
    BY DEF RetryParked, ParkOn, Outcome
<1>2. Park(w, x) /\ UNCHANGED <<ready, since>>
    BY DEF RetryParked, ParkOn
<1>3. parked'[w] = x /\ x # NoOwner /\ \A v \in Works : v # w => parked'[v] = parked[v]
    BY <1>2, ParkFacts
<1>4. \A v \in Works : parked'[v] # NoOwner <=> (IF v = w THEN "Parked" = "Parked" ELSE parked[v] # NoOwner)
    BY <1>3
<1>5. /\ ColdTyped' /\ RegionsKept' /\ LeavesKept' /\ OccKept' /\ FrontierKept' /\ SourceKept'
      /\ LeaseBacksClaim'
    BY <1>1, <1>4, DisposedKeeps
<1>6. TypeOK'
    <2>1. ready' \in [Runs -> Seq(Works)] /\ since' \in [Works -> Int]
        BY <1>2 DEF Inv, TypeOK
    <2>2. QED
        BY <2>1, <1>1, <1>2, ParkFacts, DisposedTyped
<1>7. QueuesKept'
    <2>1. /\ work[w].place = "Active" /\ work'[w].place = "Parked" /\ sequence' = sequence
          /\ work'[w].region = work[w].region /\ \A v \in Works : v # w => work'[v] = work[v]
        BY <1>1, DisposedFacts
    <2>2. \A v \in Works : /\ work'[v].place = "Ready" <=> work[v].place = "Ready"
                           /\ work'[v].region = work[v].region
        BY <2>1
    <2>3. QED
        BY <2>1, <2>2, <1>2, QueuesLeft
<1>8. ParksKept'
    BY <1>2, ParkFacts
<1>9. CountsKept'
    <2>1. UNCHANGED <<region, activeRegions, cert>> /\ SameHomes /\ SameOccs
        BY <1>1, DisposedFacts
    <2>2. QED
        BY <2>1, <1>2, ParkFacts, CountsFrame
<1>10. QED
    BY <1>5, <1>6, <1>7, <1>8, <1>9 DEF Inv
-----------------------------------------------------------------------------
(* A claim: the work selected leaves its queue for a slot.                 *)

LEMMA ClaimStep ==
    ASSUME Inv, NEW o \in Owners, NEW s \in Slots, NEW caps, Claim(o, s, caps)
    PROVE  Inv'
<1>1. PICK q, w, e, r, lease, at :
          /\ q = Selected(caps) /\ w = Best(q, caps) /\ e = work[w].epoch + 1 /\ r = work[w].region
          /\ lease = NextLease(s, o) /\ at = CHOOSE i \in DOMAIN ready[q] : ready[q][i] = w
    OBVIOUS
<1> DEFINE claim == [owner |-> o, epoch |-> e, slot |-> s, lease |-> lease.epoch, expires |-> lease.expires]
           running == [state |-> "Running", owner |-> o, lease |-> lease.epoch, region |-> r]
           w2 == [work[w] EXCEPT !.place = "Active", !.epoch = e]
           r2 == [region[r] EXCEPT !.hotOcc = @ + 1]
<1>2. /\ SlotFree(s) /\ Candidates(caps) # {} /\ work[w].place = "Ready" /\ e <= MaxEpoch /\ occ[w][e] = NoOcc
      /\ run' = [p \in Runs |-> IF p \in Candidates(caps)
                    THEN [run[p] EXCEPT !.deficit = NextDeficit(p, caps)] ELSE run[p]]
      /\ ready' = [ready EXCEPT ![q] = RemoveAt(ready[q], at)]
      /\ since' = [since EXCEPT ![w] = -1] /\ sequence' = sequence + 1 /\ lastRun' = q
      /\ active' = [active EXCEPT ![w] = claim] /\ work' = [work EXCEPT ![w] = w2]
      /\ occ' = [occ EXCEPT ![w][e] = running] /\ region' = [region EXCEPT ![r] = r2]
      /\ counts' = [counts EXCEPT !.occ = @ + 1] /\ leases' = [leases EXCEPT ![s] = lease]
    BY <1>1 DEF Claim
<1>3. UNCHANGED <<activeRegions, lastRegion, parked, pages, directory, cert, cold, index, clock, applied, consumed>>
    BY DEF Claim, parkVars, archiveVars, waitVars
<1>4. TypeOK /\ LeavesKept /\ OccKept /\ QueuesKept /\ CountsKept /\ LeaseBacksClaim
    BY DEF Inv
<1>5. q \in Candidates(caps)
    BY <1>1, <1>2, <1>4, SelectedFacts
<1>6. /\ q \in Runs /\ w \in Works /\ w \in Range(ready[q]) /\ at \in DOMAIN ready[q] /\ ready[q][at] = w
    BY <1>1, <1>4, <1>5, BestFacts
<1>7. Hot(w) /\ r \in Regions /\ region[r].life # "Absent" /\ index[w] = 0 /\ RunOf[r] = q
    BY <1>1, <1>2, <1>4, <1>6 DEF LeavesKept, QueuesKept, Hot, Homed, RunOfWork
<1>8. e \in Epochs /\ work[w] \in WorkLeaf /\ region[r] \in RegionLeaf
    <2>1. work[w] \in WorkLeaf /\ region[r] \in RegionLeaf
        BY <1>4, <1>6, <1>7, LeafTypes
    <2>2. work[w].epoch \in 0..MaxEpoch /\ MaxEpoch \in Nat
        BY <2>1, PolicyAssumption DEF WorkLeaf
    <2>3. QED
        BY <1>1, <2>1, <2>2, <1>2 DEF Epochs
<1>9. /\ lease = [owner |-> o, epoch |-> leases[s].epoch + 1, expires |-> clock[s] + TTL]
      /\ lease.owner = o /\ lease.epoch \in Nat /\ lease.expires \in 0..(MaxTime + TTL)
    <2>1. leases[s].epoch \in Nat /\ clock[s] \in 0..MaxTime /\ MaxTime \in Nat /\ TTL \in Nat
        BY <1>4, PolicyAssumption DEF TypeOK
    <2>2. leases[s].epoch + 1 \in Nat /\ clock[s] + TTL \in 0..(MaxTime + TTL)
        BY <2>1
    <2>3. QED
        BY <1>1, <2>2 DEF NextLease
<1>10. w \notin ActiveWorks /\ parked[w] = NoOwner
    BY <1>2, <1>4, <1>6 DEF LeavesKept
<1>11. claim \in ClaimLeaf /\ running \in OccLeaf
    <2>1. e \in 0..MaxEpoch
        BY <1>8, PolicyAssumption DEF Epochs
    <2>2. QED
        BY <2>1, <1>7, <1>9 DEF ClaimLeaf, OccLeaf
<1>12. /\ w2 \in WorkLeaf /\ w2.place = "Active" /\ w2.epoch = e /\ w2.region = r
    <2>1. e \in 0..MaxEpoch
        BY <1>8, PolicyAssumption DEF Epochs
    <2>2. QED
        BY <1>1, <2>1, <1>8 DEF WorkLeaf
<1>13. /\ r2 \in RegionLeaf /\ r2.life = region[r].life /\ r2.done = region[r].done /\ r2.cert = region[r].cert
       /\ r2.rest = region[r].rest /\ r2.hotWork = region[r].hotWork /\ r2.hotOcc = region[r].hotOcc + 1
    BY <1>8 DEF RegionLeaf
<1>14. /\ claim # NoClaim /\ running # NoOcc /\ running.state = "Running" /\ running.owner = o
       /\ running.lease = lease.epoch /\ running.region = r
       /\ claim.owner = o /\ claim.epoch = e /\ claim.slot = s /\ claim.lease = lease.epoch
       /\ claim.expires = lease.expires
    BY IdentityAssumption DEF NoClaim, NoOcc
<1> HIDE DEF claim, running, w2, r2
<1>15. /\ active' \in [Works -> ClaimLeaf] /\ active'[w] = claim /\ \A v \in Works : v # w => active'[v] = active[v]
    BY <1>2, <1>4, <1>6, <1>11, LeafTypes, LeafReplaced
<1>16. /\ work' \in [Works -> WorkLeaf] /\ work'[w] = w2 /\ \A v \in Works : v # w => work'[v] = work[v]
    BY <1>2, <1>4, <1>6, <1>12, LeafTypes, LeafReplaced
<1>17. /\ region' \in [Regions -> RegionLeaf] /\ region'[r] = r2 /\ \A p \in Regions : p # r => region'[p] = region[p]
    BY <1>2, <1>4, <1>7, <1>13, LeafTypes, LeafReplaced
<1>18. /\ occ' \in [Works -> [Epochs -> OccLeaf]] /\ occ'[w][e] = running
       /\ \A v \in Works, f \in Epochs : v # w \/ f # e => occ'[v][f] = occ[v][f]
    BY <1>2, <1>4, <1>6, <1>8, <1>11, LeafTypes, OccReplaced
<1>19. /\ ready' \in [Runs -> Seq(Works)] /\ Range(ready'[q]) = Range(ready[q]) \ {w} /\ IsInjective(ready'[q])
       /\ \A p \in Runs : p # q => ready'[p] = ready[p]
    <2>1. ready \in [Runs -> Seq(Works)] /\ ready[q] \in Seq(Works) /\ IsInjective(ready[q]) /\ at \in 1..Len(ready[q])
        BY <1>4, <1>6, QueueDomain DEF TypeOK, QueuesKept
    <2>2. /\ RemoveAt(ready[q], at) \in Seq(Works) /\ Range(RemoveAt(ready[q], at)) = Range(ready[q]) \ {w}
          /\ IsInjective(RemoveAt(ready[q], at))
        BY <2>1, <1>6, RemoveFacts, RemoveRange
    <2>3. QED
        BY <2>1, <2>2, <1>2, <1>6
<1>20. SameHomes
    BY <1>1, <1>2, <1>7, <1>12, <1>16 DEF SameHomes, Hot
<1>21. ActiveWorks' = ActiveWorks \cup {w}
    BY <1>6, <1>14, <1>15 DEF ActiveWorks
<1>22. \A p \in Regions : /\ region'[p].life = region[p].life /\ region'[p].done = region[p].done
                          /\ region'[p].cert = region[p].cert /\ region'[p].rest = region[p].rest
                          /\ region'[p].hotWork = region[p].hotWork
    BY <1>13, <1>17
<1>23. TypeOK'
    <2>1. run' \in [Runs -> [weight: Weights, deficit: Nat]]
        <3>1. ASSUME NEW p \in Runs PROVE run'[p] \in [weight: Weights, deficit: Nat]
            <4>1. run[p] \in [weight: Weights, deficit: Nat]
                BY <1>4 DEF TypeOK
            <4>2. CASE p \in Candidates(caps)
                <5>1. NextDeficit(p, caps) \in Nat
                    <6>1. NextDeficit(p, caps) # Refused
                        BY <4>2 DEF Claim
                    <6>2. QuantaExact(caps)
                        BY <6>1 DEF NextDeficit
                    <6>3. QED
                        BY <4>2, <1>2, <1>4, <6>2, SettledFacts
                <5>2. run'[p] = [run[p] EXCEPT !.deficit = NextDeficit(p, caps)]
                    BY <4>2, <1>2
                <5>3. QED
                    BY <5>1, <5>2, <4>1
            <4>3. CASE p \notin Candidates(caps)
                BY <4>1, <4>3, <1>2
            <4>4. QED
                BY <4>2, <4>3
        <3>2. run' = [p \in Runs |-> run'[p]]
            BY <1>2
        <3>3. QED
            BY <3>1, <3>2
    <2>2. since' \in [Works -> Int] /\ sequence' \in Nat /\ lastRun' \in Runs \cup {None}
        <3>1. -1 \in Int
            OBVIOUS
        <3>2. since' \in [Works -> Int]
            BY <3>1, <1>2, <1>4 DEF TypeOK
        <3>3. sequence \in Nat
            BY <1>4 DEF TypeOK
        <3>4. QED
            BY <3>2, <3>3, <1>2, <1>6
    <2>3. counts' \in [regions: Nat, activeRegions: Nat, parked: Nat, work: Nat, occ: Nat, certs: Nat]
        <3>1. counts \in [regions: Nat, activeRegions: Nat, parked: Nat, work: Nat, occ: Nat, certs: Nat]
            BY <1>4 DEF TypeOK
        <3>2. QED
            BY <3>1, <1>2
    <2>4. leases' \in [Slots -> [owner: Owners \cup {NoOwner}, epoch: Nat, expires: 0..(MaxTime + TTL)]]
        <3>1. lease \in [owner: Owners \cup {NoOwner}, epoch: Nat, expires: 0..(MaxTime + TTL)]
            BY <1>9
        <3>2. QED
            BY <3>1, <1>2, <1>4 DEF TypeOK
    <2>5. QED
        BY <2>1, <2>2, <2>3, <2>4, <1>3, <1>4, <1>15, <1>16, <1>17, <1>18, <1>19
        DEF TypeOK, RegionLeaf, WorkLeaf, OccLeaf, ClaimLeaf
<1>24. ColdTyped' /\ ParksKept'
    BY <1>3, ParksFrame DEF Inv, ColdTyped
<1>25. RegionsKept' /\ SourceKept'
    BY <1>3, <1>20, <1>22, RegionsFrame, SourceFrame DEF Inv, SameHomes
<1>26. LeavesKept'
    <2>1. ASSUME NEW v \in Works, Hot(v)' PROVE Homed(v)'
        <3>1. Hot(v) /\ work'[v].region = work[v].region
            BY <2>1, <1>20 DEF SameHomes
        <3>2. Homed(v)
            BY <3>1, <1>4 DEF LeavesKept
        <3>3. QED
            BY <3>1, <3>2, <1>3, <1>22 DEF Homed
    <2>2. ASSUME NEW v \in Works PROVE work'[v].place = "Active" <=> v \in ActiveWorks'
        BY <1>4, <1>12, <1>16, <1>21 DEF LeavesKept
    <2>3. ASSUME NEW v \in Works, v \in ActiveWorks'
          PROVE  LeavesAgree(v)' /\ active'[v].owner \in Owners /\ active'[v].slot \in Slots
        <3>1. CASE v = w
            BY <3>1, <1>12, <1>14, <1>15, <1>16, <1>18 DEF LeavesAgree
        <3>2. CASE v # w
            <4>1. LeavesAgree(v) /\ active[v].owner \in Owners /\ active[v].slot \in Slots /\ active[v].epoch \in Epochs
                BY <2>3, <3>2, <1>4, <1>21 DEF LeavesKept, LeavesAgree
            <4>2. QED
                BY <4>1, <3>2, <1>15, <1>16, <1>18 DEF LeavesAgree
        <3>3. QED
            BY <3>1, <3>2
    <2>4. ASSUME NEW v \in Works, work'[v].place \in {"Active", "Terminal"} PROVE work'[v].epoch \in Epochs
        BY <2>4, <1>4, <1>8, <1>12, <1>16 DEF LeavesKept
    <2>5. ASSUME NEW v \in Works, work'[v].place = "Terminal" PROVE occ'[v][work'[v].epoch].state \in Final
        <3>1. v # w
            BY <2>5, <1>12, <1>16
        <3>2. work[v].epoch \in Epochs /\ occ[v][work[v].epoch].state \in Final /\ work'[v] = work[v]
            BY <2>5, <3>1, <1>4, <1>16 DEF LeavesKept
        <3>3. QED
            BY <3>1, <3>2, <1>18
    <2>6. ASSUME NEW v \in Works PROVE work'[v].place = "Parked" <=> parked'[v] # NoOwner
        BY <1>3, <1>4, <1>10, <1>12, <1>16 DEF LeavesKept
    <2>7. QED
        BY <2>1, <2>2, <2>3, <2>4, <2>5, <2>6 DEF LeavesKept
<1>27. OccKept'
    <2>1. ASSUME NEW v \in Works, NEW f \in Epochs
          PROVE  /\ occ'[v][f] # NoOcc => /\ occ'[v][f].state # "Absent" /\ occ'[v][f].region \in Regions
                                          /\ \/ Hot(v)' /\ occ'[v][f].region = work'[v].region
                                             \/ cold'[v][f] = occ'[v][f]
                 /\ occ'[v][f].state = "Running" => v \in ActiveWorks' /\ active'[v].epoch = f
                 /\ cold'[v][f] # NoOcc => /\ index'[v] # 0 /\ cold'[v][f].state \in Final
                                           /\ cold'[v][f].region \in Regions /\ cert'[cold'[v][f].region] # "None"
                                           /\ occ'[v][f] \in {NoOcc, cold'[v][f]}
        <3>1. CASE v = w /\ f = e
            <4>1. cold[w][e] = NoOcc
                BY <1>4, <1>6, <1>7, <1>8 DEF OccKept
            <4>2. QED
                BY <3>1, <4>1, <1>3, <1>7, <1>12, <1>14, <1>15, <1>16, <1>18, <1>21 DEF Hot
        <3>2. CASE v # w \/ f # e
            <4>1. /\ occ'[v][f] = occ[v][f] /\ cold'[v][f] = cold[v][f] /\ (Hot(v)' <=> Hot(v))
                  /\ work'[v].region = work[v].region /\ index'[v] = index[v] /\ cert' = cert
                BY <3>2, <1>3, <1>18, <1>20 DEF SameHomes
            <4>2. ASSUME occ[v][f].state = "Running" PROVE v \in ActiveWorks' /\ active'[v].epoch = f
                <5>1. v \in ActiveWorks /\ active[v].epoch = f
                    BY <4>2, <1>4 DEF OccKept
                <5>2. v # w
                    BY <5>1, <1>10
                <5>3. QED
                    BY <5>1, <5>2, <1>15, <1>21
            <4>3. QED
                BY <4>1, <4>2, <1>4 DEF OccKept
        <3>3. QED
            BY <3>1, <3>2
    <2>2. QED
        BY <2>1 DEF OccKept
<1>28. QueuesKept'
    <2>1. \A p \in Runs : Range(ready[p]) \subseteq Works
        BY <1>4, QueueDomain DEF TypeOK, Range
    <2>2. ASSUME NEW p \in Runs PROVE IsInjective(ready'[p])
        BY <1>4, <1>19 DEF QueuesKept
    <2>3. ASSUME NEW p \in Runs, NEW v \in Range(ready'[p]) PROVE work'[v].place = "Ready" /\ RunOfWork(v)' = p
        <3>1. v \in Range(ready[p])
            BY <1>19
        <3>2. work[v].place = "Ready" /\ RunOfWork(v) = p /\ v \in Works
            BY <3>1, <2>1, <1>4 DEF QueuesKept
        <3>3. v # w
            <4>1. CASE p = q
                BY <4>1, <1>19
            <4>2. CASE p # q
                BY <1>1, <4>2, <3>2, <1>7 DEF RunOfWork
            <4>3. QED
                BY <4>1, <4>2
        <3>4. QED
            BY <3>2, <3>3, <1>16 DEF RunOfWork
    <2>4. ASSUME NEW v \in Works, work'[v].place = "Ready"
          PROVE  v \in Range(ready'[RunOfWork(v)']) /\ since'[v] \in 0..sequence'
        <3>1. v # w
            BY <2>4, <1>12, <1>16
        <3>2. work[v].place = "Ready" /\ RunOfWork(v)' = RunOfWork(v)
            BY <2>4, <3>1, <1>16 DEF RunOfWork
        <3>3. v \in Range(ready[RunOfWork(v)]) /\ since[v] \in 0..sequence
            BY <3>2, <1>4 DEF QueuesKept
        <3>4. RunOfWork(v) \in Runs
            BY <3>2, <1>4, IdentityAssumption DEF LeavesKept, Hot, Homed, RunOfWork
        <3>5. since'[v] = since[v] /\ sequence' = sequence + 1 /\ sequence \in Nat
            BY <3>1, <1>2, <1>4 DEF TypeOK
        <3>6. since'[v] \in 0..sequence'
            BY <3>3, <3>5
        <3>7. v \in Range(ready'[RunOfWork(v)])
            BY <3>1, <3>3, <3>4, <1>19
        <3>8. QED
            BY <3>2, <3>6, <3>7
    <2>5. QED
        BY <2>2, <2>3, <2>4 DEF QueuesKept
<1>29. CountsKept'
    <2> DEFINE we == <<w, e>>
    <2>1. we \in Works \X Epochs /\ we[1] = w /\ we[2] = e
        BY <1>6, <1>8
    <2>2. OccSet' = OccSet \cup {we} /\ we \notin OccSet /\ OccSet \in SUBSET (Works \X Epochs)
        <3>1. ASSUME NEW x \in Works \X Epochs PROVE x \in OccSet' <=> x \in OccSet \/ x = we
            <4>1. x[1] \in Works /\ x[2] \in Epochs /\ x = <<x[1], x[2]>>
                OBVIOUS
            <4>2. x = we <=> x[1] = w /\ x[2] = e
                BY <4>1
            <4>3. QED
                BY <4>1, <4>2, <1>14, <1>18 DEF OccSet
        <3>2. we \notin OccSet
            BY <2>1, <1>2 DEF OccSet
        <3>3. OccSet \subseteq Works \X Epochs /\ OccSet' \subseteq Works \X Epochs
            BY DEF OccSet
        <3> HIDE DEF we
        <3>4. QED
            BY <3>1, <3>2, <3>3, <2>1
    <2>3. HotOcc(r)' = HotOcc(r) \cup {we} /\ we \notin HotOcc(r) /\ HotOcc(r) \in SUBSET (Works \X Epochs)
        <3>1. ASSUME NEW x \in Works \X Epochs PROVE x \in HotOcc(r)' <=> x \in HotOcc(r) \/ x = we
            <4>1. x[1] \in Works /\ x[2] \in Epochs /\ x = <<x[1], x[2]>>
                OBVIOUS
            <4>2. x = we <=> x[1] = w /\ x[2] = e
                BY <4>1
            <4>3. HotOcc(r)' = {y \in Works \X Epochs : occ'[y[1]][y[2]].region = r}
                BY DEF HotOcc
            <4>4. QED
                BY <4>1, <4>2, <4>3, <1>14, <1>18 DEF HotOcc
        <3>2. we \notin HotOcc(r)
            BY <2>1, <1>2, <1>7, IdentityAssumption DEF HotOcc, NoOcc, None
        <3>3. HotOcc(r) \subseteq Works \X Epochs /\ HotOcc(r)' \subseteq Works \X Epochs
            BY DEF HotOcc
        <3> HIDE DEF we
        <3>4. QED
            BY <3>1, <3>2, <3>3, <2>1
    <2>4. ASSUME NEW p \in Regions, p # r PROVE HotOcc(p)' = HotOcc(p)
        <3>1. ASSUME NEW x \in Works \X Epochs PROVE occ'[x[1]][x[2]].region = p <=> occ[x[1]][x[2]].region = p
            <4>1. x[1] \in Works /\ x[2] \in Epochs
                OBVIOUS
            <4>2. occ[w][e].region # p
                BY <1>2, IdentityAssumption DEF NoOcc, None
            <4>3. QED
                BY <4>1, <4>2, <2>4, <1>14, <1>18
        <3>2. QED
            BY <3>1 DEF HotOcc
    <2>5. /\ Cardinality(OccSet') = Cardinality(OccSet) + 1
          /\ Cardinality(HotOcc(r)') = Cardinality(HotOcc(r)) + 1
        <3> HIDE DEF we
        <3>1. QED
            BY <2>2, <2>3, PairsCounted, OneMore
    <2>6. /\ counts'.occ = counts.occ + 1 /\ counts'.regions = counts.regions
          /\ counts'.activeRegions = counts.activeRegions /\ counts'.certs = counts.certs
          /\ counts'.parked = counts.parked /\ counts'.work = counts.work
        BY <1>2, <1>4 DEF TypeOK
    <2>7. Present' = Present /\ Certified' = Certified /\ ParkedSet' = ParkedSet
        BY <1>3, <1>22 DEF Present, Certified, ParkedSet
    <2>8. \A p \in Regions : region'[p].hotOcc = Cardinality(HotOcc(p)')
        <3> SUFFICES ASSUME NEW p \in Regions PROVE region'[p].hotOcc = Cardinality(HotOcc(p)')
            OBVIOUS
        <3>1. CASE p = r
            BY <3>1, <2>5, <1>4, <1>13, <1>17 DEF CountsKept
        <3>2. CASE p # r
            BY <3>2, <2>4, <1>4, <1>17 DEF CountsKept
        <3>3. QED
            BY <3>1, <3>2
    <2>9. HotSet' = HotSet /\ \A p \in Regions : HotWork(p)' = HotWork(p)
        BY <1>20, HotFrame
    <2>10. counts'.occ = Cardinality(OccSet')
        BY <2>5, <2>6, <1>4 DEF CountsKept
    <2>11. QED
        BY <2>6, <2>7, <2>8, <2>9, <2>10, <1>3, <1>4, <1>22 DEF CountsKept
<1>30. FrontierKept'
    <2>1. Frontier' = Frontier
        BY <1>2, <1>6, <1>12, <1>16 DEF Frontier
    <2>2. QED
        BY <2>1 DEF Inv, FrontierKept
<1>31. LeaseBacksClaim'
    <2>1. leases'[s] = lease /\ \A t \in Slots : t # s => leases'[t] = leases[t]
        BY <1>2, <1>4 DEF TypeOK
    <2>2. LeaseHeld(w)'
        <3>1. lease = [owner |-> o, epoch |-> lease.epoch, expires |-> lease.expires]
            BY <1>9
        <3>2. QED
            BY <3>1, <2>1, <1>14, <1>15 DEF LeaseHeld
    <2>3. ASSUME NEW v \in ActiveWorks
          PROVE  (LeaseHeld(v)' \/ Overtaken(v)') /\ active'[v] = active[v] /\ active[v].slot # s /\ v # w
        <3>1. v # w /\ v \in Works
            BY <1>10 DEF ActiveWorks
        <3>2. active[v].slot # s /\ active[v].slot \in Slots /\ active'[v] = active[v]
            BY <3>1, <1>2, <1>4, <1>15 DEF LeavesKept, ActiveWorks, SlotFree
        <3>3. LeaseHeld(v) \/ Overtaken(v)
            BY <1>4 DEF LeaseBacksClaim
        <3>4. QED
            BY <3>1, <3>2, <3>3, <2>1 DEF LeaseHeld, Overtaken
    <2>4. QED
        BY <2>2, <2>3, <1>4, <1>14, <1>15, <1>21 DEF LeaseBacksClaim
<1>32. QED
    BY <1>23, <1>24, <1>25, <1>26, <1>27, <1>28, <1>29, <1>30, <1>31 DEF Inv
-----------------------------------------------------------------------------
(* A page of a region is read.                                             *)

LEMMA MinOfTwo ==
    ASSUME NEW a \in Nat, NEW b \in Nat
    PROVE  Min({a, b}) \in Nat /\ Min({a, b}) <= a /\ Min({a, b}) <= b
<1>1. {a, b} \subseteq Nat /\ {a, b} # {}
    OBVIOUS
<1>2. Min({a, b}) \in {a, b} /\ \A y \in {a, b} : Min({a, b}) <= y
    BY <1>1, MinFacts
<1>3. QED
    BY <1>2

LEMMA MaterializeStep ==
    ASSUME Inv, NEW r \in Regions, Materialize(r)
    PROVE  Inv'
<1>1. /\ region[r].life = "Active" /\ ~region[r].cert /\ ~region[r].done /\ MaterializeLimit > 0
      /\ UNCHANGED <<occ, sequence, lastRun, run, active, parked, pages, directory, cert, cold, index,
                     leases, clock, applied, consumed>>
    BY DEF Materialize, parkVars, archiveVars, leaseVars, waitVars
<1> DEFINE Body(k, done, page) ==
          /\ done => page = region[r].rest
          /\ \A w \in page : Unseen(w)
          /\ region' = [region EXCEPT ![r].rest = @ \ page, ![r].done = done, ![r].hotWork = @ + k]
          /\ activeRegions' = IF done THEN activeRegions \ {r} ELSE activeRegions
          /\ lastRegion' = IF done THEN CursorWithout({r}) ELSE r
          /\ work' = [w \in Works |-> IF w \in page
                         THEN [place |-> "Ready", epoch |-> 0, region |-> r] ELSE work[w]]
          /\ Readied(page, [w \in page |-> r])
          /\ counts' = [counts EXCEPT !.work = @ + k, !.activeRegions = @ - (IF done THEN 1 ELSE 0)]
<1>2. \E k \in 0..Min({MaterializeLimit, Cardinality(region[r].rest)}), done \in BOOLEAN :
          Body(k, done, {w \in region[r].rest : Cardinality({v \in region[r].rest : v < w}) < k})
    BY Zenon DEF Materialize
<1>3. PICK k \in 0..Min({MaterializeLimit, Cardinality(region[r].rest)}), done \in BOOLEAN :
          Body(k, done, {w \in region[r].rest : Cardinality({v \in region[r].rest : v < w}) < k})
    BY <1>2
<1>4. PICK page \in SUBSET region[r].rest :
          page = {w \in region[r].rest : Cardinality({v \in region[r].rest : v < w}) < k}
    OBVIOUS
<1>5. Body(k, done, page) /\ k \in 0..Min({MaterializeLimit, Cardinality(region[r].rest)}) /\ done \in BOOLEAN
    BY <1>3, <1>4
<1>6. TypeOK /\ RegionsKept /\ LeavesKept /\ OccKept /\ QueuesKept /\ CountsKept /\ FrontierKept /\ SourceKept
    BY DEF Inv
<1>7. region[r] \in RegionLeaf /\ region[r].rest \in SUBSET Works /\ page \in SUBSET Works
    BY <1>6, LeafTypes DEF RegionLeaf
<1>8. k \in Nat /\ k <= MaxMaterialized - Cardinality(Frontier) /\ k <= Cardinality(region[r].rest)
    <2> DEFINE a == MaxMaterialized - Cardinality(Frontier)
               b == Cardinality(region[r].rest)
    <2>1. a \in Nat
        <3>1. Cardinality(Frontier) \in Nat /\ Cardinality(Frontier) <= MaxMaterialized /\ MaxMaterialized \in Nat
            BY <1>6, FrontierCounted, PolicyAssumption DEF FrontierKept
        <3>2. QED
            BY <3>1
    <2>2. b \in Nat
        BY <1>7, WorksCounted
    <2>3. MaterializeLimit = Min({a, MaterializeBatch}) /\ MaterializeBatch \in Nat
        BY FrontierCounted, PolicyAssumption DEF MaterializeLimit
    <2> HIDE DEF a, b
    <2>4. MaterializeLimit \in Nat /\ MaterializeLimit <= a
        BY <2>1, <2>3, MinOfTwo
    <2>5. Min({MaterializeLimit, b}) \in Nat /\ Min({MaterializeLimit, b}) <= MaterializeLimit /\ Min({MaterializeLimit, b}) <= b
        BY <2>2, <2>4, MinOfTwo
    <2>6. k \in 0..Min({MaterializeLimit, b})
        BY <1>5 DEF b
    <2> DEFINE m == Min({MaterializeLimit, b})
    <2> HIDE DEF m
    <2>7. k \in Nat /\ k <= a /\ k <= b
        BY <2>1, <2>2, <2>4, <2>5, <2>6 DEF m
    <2>8. QED
        BY <2>7 DEF a, b
<1>9. IsFiniteSet(page) /\ Cardinality(page) = k
    <2> DEFINE S == region[r].rest
    <2>1. S \subseteq Nat /\ IsFiniteSet(S) /\ Cardinality(S) \in Nat
        BY <1>7, WorksCounted, IdentityAssumption
    <2>2. page = {w \in S : Cardinality({v \in S : v < w}) < k}
        BY <1>4
    <2>3. k \in 0..Cardinality(S)
        BY <2>1, <1>8
    <2> HIDE DEF S
    <2>4. QED
        BY <2>1, <2>2, <2>3, LowestCounted
<1>10. \A w \in page : ~Hot(w) /\ index[w] = 0 /\ work[w].place = "Absent"
    BY <1>5 DEF Unseen, Hot
<1>11. \A w \in Works : work'[w] = IF w \in page THEN [place |-> "Ready", epoch |-> 0, region |-> r] ELSE work[w]
    BY <1>5
<1>12. /\ \A w \in page : work'[w].place = "Ready" /\ work'[w].epoch = 0 /\ work'[w].region = r
      /\ \A w \in Works : w \notin page => work'[w] = work[w]
    BY <1>7, <1>11
<1> DEFINE r2 == [region[r] EXCEPT !.rest = @ \ page, !.done = done, !.hotWork = @ + k]
<1>13. r2 \in RegionLeaf /\ r2.life = "Active" /\ r2.rest = region[r].rest \ page /\ r2.done = done
       /\ r2.hotWork = region[r].hotWork + k /\ r2.hotOcc = region[r].hotOcc /\ r2.cert = region[r].cert
    <2> DEFINE m1 == [region[r] EXCEPT !.rest = @ \ page]
               m2 == [m1 EXCEPT !.done = done]
    <2>1. m1 \in RegionLeaf /\ m1.life = "Active" /\ m1.rest = region[r].rest \ page
          /\ m1.hotWork = region[r].hotWork /\ m1.hotOcc = region[r].hotOcc /\ m1.cert = region[r].cert
        BY <1>1, <1>7 DEF RegionLeaf
    <2> HIDE DEF m1
    <2>2. m2 \in RegionLeaf /\ m2.life = "Active" /\ m2.rest = region[r].rest \ page /\ m2.done = done
          /\ m2.hotWork = region[r].hotWork /\ m2.hotOcc = region[r].hotOcc /\ m2.cert = region[r].cert
        BY <2>1 DEF RegionLeaf
    <2>3. r2 = [m2 EXCEPT !.hotWork = @ + k]
        BY DEF m1
    <2> HIDE DEF m2, r2
    <2>4. QED
        BY <2>2, <2>3, <1>8 DEF RegionLeaf
<1>14. region' = [region EXCEPT ![r] = r2]
    BY <1>5
<1> HIDE DEF r2
<1>15. region' \in [Regions -> RegionLeaf] /\ region'[r] = r2 /\ \A p \in Regions : p # r => region'[p] = region[p]
    BY <1>6, <1>13, <1>14, LeafTypes, LeafReplaced
<1>16. r \in activeRegions
    BY <1>1, <1>6 DEF RegionsKept
<1>17. QueuesKept' /\ ready' \in [Runs -> Seq(Works)] /\ since' \in [Works -> Int]
    <2> DEFINE home == [w \in page |-> r]
    <2>1. Readied(page, home) /\ sequence' = sequence
        BY <1>1, <1>5
    <2>2. \A w \in page : home[w] \in Regions /\ work[w].place # "Ready"
        BY <1>10
    <2>3. \A w \in page : work'[w].place = "Ready" /\ work'[w].region = home[w]
        BY <1>12
    <2>4. \A w \in Works : w \notin page => /\ work'[w].place = "Ready" <=> work[w].place = "Ready"
                                            /\ work'[w].region = work[w].region
        BY <1>12
    <2> HIDE DEF home
    <2>5. QED
        BY <2>1, <2>2, <2>3, <2>4, <1>7, ReadiedFacts
<1>18. \A w \in Works : Hot(w)' <=> Hot(w) \/ w \in page
    BY <1>12 DEF Hot
<1>19. /\ HotSet' = HotSet \cup page /\ HotSet \cap page = {} /\ HotSet \in SUBSET Works
       /\ HotWork(r)' = HotWork(r) \cup page /\ HotWork(r) \cap page = {} /\ HotWork(r) \in SUBSET Works
       /\ \A p \in Regions : p # r => HotWork(p)' = HotWork(p)
    <2>1. HotSet' = HotSet \cup page /\ HotSet \cap page = {} /\ HotSet \in SUBSET Works
        BY <1>7, <1>10, <1>18 DEF HotSet
    <2>2. ASSUME NEW w \in Works, NEW p \in Regions
          PROVE  Hot(w)' /\ work'[w].region = p <=> (Hot(w) /\ work[w].region = p) \/ (w \in page /\ p = r)
        BY <1>10, <1>12, <1>18
    <2>3. HotWork(r)' = HotWork(r) \cup page
        BY <2>2, <1>7 DEF HotWork
    <2>4. \A p \in Regions : p # r => HotWork(p)' = HotWork(p)
        BY <2>2 DEF HotWork
    <2>5. QED
        BY <2>1, <2>3, <2>4, <1>10 DEF HotWork
<1>20. ActiveWorks' = ActiveWorks
    BY <1>1 DEF ActiveWorks
<1>21. activeRegions' = {p \in Regions : region'[p].life = "Active" /\ ~region'[p].done}
    <2>1. activeRegions = {p \in Regions : region[p].life = "Active" /\ ~region[p].done}
        BY <1>6 DEF RegionsKept
    <2>2. CASE done
        BY <2>1, <2>2, <1>5, <1>13, <1>15
    <2>3. CASE ~done
        BY <2>1, <2>3, <1>1, <1>5, <1>13, <1>15
    <2>4. QED
        BY <2>2, <2>3
<1>22. TypeOK'
    <2>1. work' \in [Works -> WorkLeaf]
        <3>1. [place |-> "Ready", epoch |-> 0, region |-> r] \in WorkLeaf
            <4>1. 0 \in 0..MaxEpoch
                BY PolicyAssumption
            <4>2. QED
                BY <4>1 DEF WorkLeaf
        <3>2. work \in [Works -> WorkLeaf]
            BY <1>6, LeafTypes
        <3>3. QED
            BY <3>1, <3>2, <1>5
    <2>2. activeRegions' \subseteq Regions
        BY <1>21
    <2>3. lastRegion' \in Regions \cup {None}
        BY <1>5, <1>6 DEF TypeOK, CursorWithout
    <2>4. counts' \in [regions: Nat, activeRegions: Nat, parked: Nat, work: Nat, occ: Nat, certs: Nat]
        <3>1. counts \in [regions: Nat, activeRegions: Nat, parked: Nat, work: Nat, occ: Nat, certs: Nat]
            BY <1>6 DEF TypeOK
        <3>2. counts.work + k \in Nat
            BY <3>1, <1>8
        <3>3. counts.activeRegions - (IF done THEN 1 ELSE 0) \in Nat
            <4>1. activeRegions \in SUBSET Regions
                BY <1>6 DEF TypeOK
            <4>2. Cardinality(activeRegions \ {r}) = Cardinality(activeRegions) - 1 /\ Cardinality(activeRegions \ {r}) \in Nat
                  /\ Cardinality(activeRegions) \in Nat
                BY <4>1, <1>16, RegionsCounted, OneLess
            <4>3. counts.activeRegions = Cardinality(activeRegions)
                BY <1>6 DEF CountsKept
            <4>4. QED
                BY <4>2, <4>3
        <3>4. QED
            BY <3>1, <3>2, <3>3, <1>5
    <2>5. QED
        BY <2>1, <2>2, <2>3, <2>4, <1>1, <1>6, <1>15, <1>17 DEF TypeOK, RegionLeaf, WorkLeaf
<1>23. ColdTyped' /\ ParksKept' /\ LeaseBacksClaim'
    BY <1>1, ParksFrame, LeaseFrame DEF Inv, ColdTyped
<1>24. RegionsKept'
    <2>1. lastRegion' \in activeRegions' \cup {None}
        <3>1. lastRegion \in activeRegions \cup {None}
            BY <1>6 DEF RegionsKept
        <3>2. QED
            BY <3>1, <1>5, <1>16 DEF CursorWithout
    <2>2. cert[r] = "None"
        <3>1. ~Closed(r)
            BY <1>1 DEF Closed
        <3>2. QED
            BY <3>1, <1>6 DEF RegionsKept
    <2>3. ASSUME NEW p \in Regions
          PROVE  (region'[p].cert => cert'[p] # "None") /\ (cert'[p] # "None" => Closed(p)' /\ HotWork(p)' = {})
        <3>1. CASE p = r
            BY <3>1, <2>2, <1>1, <1>13, <1>15
        <3>2. CASE p # r
            BY <3>2, <1>1, <1>6, <1>15, <1>19 DEF RegionsKept, Closed
        <3>3. QED
            BY <3>1, <3>2
    <2>4. QED
        BY <2>1, <2>3, <1>21 DEF RegionsKept
<1>25. LeavesKept'
    <2>1. ASSUME NEW w \in Works, w \in page
          PROVE  /\ Homed(w)' /\ work'[w].place = "Ready" /\ w \notin ActiveWorks' /\ parked'[w] = NoOwner
        <3>1. w \notin ActiveWorks /\ parked[w] = NoOwner
            BY <2>1, <1>6, <1>10 DEF LeavesKept
        <3>2. Homed(w)'
            BY <2>1, <1>1, <1>10, <1>12, <1>13, <1>15 DEF Homed
        <3>3. QED
            BY <3>1, <3>2, <2>1, <1>1, <1>12, <1>20
    <2>2. ASSUME NEW w \in Works, w \notin page
          PROVE  /\ work'[w] = work[w] /\ (Hot(w)' <=> Hot(w)) /\ (Homed(w) => Homed(w)')
                 /\ (LeavesAgree(w) => LeavesAgree(w)')
        <3>1. work'[w] = work[w]
            BY <2>2, <1>12
        <3>2. Homed(w) => Homed(w)'
            BY <3>1, <1>1, <1>13, <1>15 DEF Homed
        <3>3. QED
            BY <3>1, <3>2, <1>1 DEF Hot, LeavesAgree
    <2>3. ASSUME NEW w \in Works
          PROVE  /\ Hot(w)' => Homed(w)'
                 /\ work'[w].place = "Active" <=> w \in ActiveWorks'
                 /\ w \in ActiveWorks' => LeavesAgree(w)' /\ active'[w].owner \in Owners /\ active'[w].slot \in Slots
                 /\ work'[w].place \in {"Active", "Terminal"} => work'[w].epoch \in Epochs
                 /\ work'[w].place = "Terminal" => occ'[w][work'[w].epoch].state \in Final
                 /\ work'[w].place = "Parked" <=> parked'[w] # NoOwner
        <3>1. CASE w \in page
            BY <3>1, <2>1
        <3>2. CASE w \notin page
            BY <3>2, <2>2, <1>1, <1>6, <1>20 DEF LeavesKept
        <3>3. QED
            BY <3>1, <3>2
    <2>4. QED
        BY <2>3 DEF LeavesKept
<1>26. OccKept'
    <2>1. ASSUME NEW w \in Works, NEW e \in Epochs, occ[w][e] # NoOcc, Hot(w), occ[w][e].region = work[w].region
          PROVE  Hot(w)' /\ occ'[w][e].region = work'[w].region
        BY <2>1, <1>1, <1>10, <1>12, <1>18
    <2>2. QED
        BY <2>1, <1>1, <1>6, <1>20 DEF OccKept
<1>27. CountsKept'
    <2>1. /\ Cardinality(HotSet \cup page) = Cardinality(HotSet) + k
          /\ Cardinality(HotWork(r) \cup page) = Cardinality(HotWork(r)) + k
        BY <1>9, <1>19, WorksCounted, SeveralMore
    <2>2. counts'.activeRegions = Cardinality(activeRegions')
        <3>1. activeRegions \in SUBSET Regions
            BY <1>6 DEF TypeOK
        <3>2. Cardinality(activeRegions \ {r}) = Cardinality(activeRegions) - 1 /\ Cardinality(activeRegions) \in Nat
            BY <3>1, <1>16, RegionsCounted, OneLess
        <3>3. counts'.activeRegions = counts.activeRegions - (IF done THEN 1 ELSE 0)
            BY <1>5, <1>6 DEF TypeOK
        <3>4. counts.activeRegions = Cardinality(activeRegions)
            BY <1>6 DEF CountsKept
        <3>5. CASE done
            BY <3>2, <3>3, <3>4, <3>5, <1>5
        <3>6. CASE ~done
            <4>1. counts'.activeRegions = Cardinality(activeRegions) - 0 /\ activeRegions' = activeRegions
                BY <3>3, <3>4, <3>6, <1>5
            <4>2. QED
                BY <4>1, <3>2
        <3>7. QED
            BY <3>5, <3>6
    <2>3. /\ counts'.work = counts.work + k /\ counts'.regions = counts.regions /\ counts'.certs = counts.certs
          /\ counts'.parked = counts.parked /\ counts'.occ = counts.occ
        BY <1>5, <1>6 DEF TypeOK
    <2>4. Present' = Present /\ Certified' = Certified /\ ParkedSet' = ParkedSet
        BY <1>1, <1>13, <1>15 DEF Present, Certified, ParkedSet
    <2>5. SameOccs
        BY <1>1 DEF SameOccs
    <2>6. OccSet' = OccSet /\ \A p \in Regions : HotOcc(p)' = HotOcc(p)
        BY <2>5, OccFrame
    <2>7. \A p \in Regions : region'[p].hotWork = Cardinality(HotWork(p)') /\ region'[p].hotOcc = Cardinality(HotOcc(p)')
        <3> SUFFICES ASSUME NEW p \in Regions
                     PROVE  region'[p].hotWork = Cardinality(HotWork(p)') /\ region'[p].hotOcc = Cardinality(HotOcc(p)')
            OBVIOUS
        <3>1. CASE p = r
            BY <3>1, <2>1, <2>6, <1>6, <1>13, <1>15, <1>19 DEF CountsKept
        <3>2. CASE p # r
            BY <3>2, <2>6, <1>6, <1>15, <1>19 DEF CountsKept
        <3>3. QED
            BY <3>1, <3>2
    <2>8. counts'.work = Cardinality(HotSet')
        BY <2>1, <2>3, <1>6, <1>19 DEF CountsKept
    <2>9. QED
        BY <2>2, <2>3, <2>4, <2>6, <2>7, <2>8, <1>6 DEF CountsKept
<1>28. FrontierKept'
    <2>1. Frontier' = Frontier \cup page /\ Frontier \cap page = {} /\ Frontier \in SUBSET Works
        BY <1>7, <1>10, <1>12 DEF Frontier
    <2>2. Cardinality(Frontier \cup page) = Cardinality(Frontier) + k /\ Cardinality(Frontier) \in Nat
        BY <2>1, <1>9, WorksCounted, SeveralMore
    <2>3. MaxMaterialized \in Nat
        BY PolicyAssumption
    <2>4. QED
        BY <2>1, <2>2, <2>3, <1>8 DEF FrontierKept
<1>29. SourceKept'
    <2>1. \A w \in Works, p \in Regions : Holds(p, w)' <=> Holds(p, w) /\ (p = r => w \notin page)
        BY <1>1, <1>13, <1>15 DEF Holds
    <2>2. \A w \in page : Holds(r, w)
        BY <1>1 DEF Holds
    <2>3. ASSUME NEW w \in Works, NEW p \in Regions, Holds(p, w)'
          PROVE  ~Hot(w)' /\ index'[w] = 0 /\ \A q \in Regions : Holds(q, w)' => q = p
        <3>1. Holds(p, w) /\ (p = r => w \notin page)
            BY <2>1, <2>3
        <3>2. ~Hot(w) /\ index[w] = 0 /\ \A q \in Regions : Holds(q, w) => q = p
            BY <3>1, <1>6 DEF SourceKept
        <3>3. w \notin page
            BY <3>1, <3>2, <2>2
        <3>4. QED
            BY <3>2, <3>3, <2>1, <1>1, <1>18
    <2>4. ASSUME NEW w \in UNION Range(Source)
          PROVE  (\E p \in Regions : Holds(p, w)') \/ Hot(w)' \/ index'[w] # 0
        <3>1. w \in Works
            BY IdentityAssumption DEF Range
        <3>2. (\E p \in Regions : Holds(p, w)) \/ Hot(w) \/ index[w] # 0
            BY <1>6 DEF SourceKept
        <3>3. QED
            BY <3>1, <3>2, <2>1, <1>1, <1>18
    <2>5. QED
        BY <2>3, <2>4 DEF SourceKept
<1>30. QED
    BY <1>17, <1>22, <1>23, <1>24, <1>25, <1>26, <1>27, <1>28, <1>29 DEF Inv
-----------------------------------------------------------------------------
(* The work parked on the Waits of an activation is woken.                 *)

LEMMA ActivateWaitStep ==
    ASSUME Inv, NEW a \in Activations, ActivateWait(a)
    PROVE  Inv'
<1>1. PICK X, S : X = Woken(a) /\ S = UNION {Members(x) : x \in X}
    OBVIOUS
<1>2. /\ \A w \in S : parked[w] \in X /\ work[w].place = "Parked"
      /\ Readied(S, Homes)
      /\ work' = [w \in Works |-> IF w \in S THEN [work[w] EXCEPT !.place = "Ready"] ELSE work[w]]
      /\ parked' = [w \in Works |-> IF w \in S THEN NoOwner ELSE parked[w]]
      /\ counts' = [counts EXCEPT !.parked = @ - Cardinality(S)]
      /\ pages' = [x \in Reasons |-> IF x \in X THEN <<>> ELSE pages[x]]
      /\ directory' = [x \in Waits |-> IF x \in X THEN NoCharge ELSE directory[x]]
      /\ consumed' = consumed \cup {a}
    BY <1>1 DEF ActivateWait
<1>3. UNCHANGED <<region, activeRegions, lastRegion, occ, sequence, lastRun, run, active, cert, cold, index,
                  leases, clock, applied>>
    BY DEF ActivateWait, regionVars, archiveVars, leaseVars
<1>4. TypeOK /\ RegionsKept /\ LeavesKept /\ OccKept /\ ParksKept /\ CountsKept /\ FrontierKept
    BY DEF Inv
<1>5. X \subseteq Waits /\ X \subseteq Reasons /\ Waits \subseteq Reasons /\ NoOwner \notin Reasons
    <2>1. applied[a] \subseteq Waits
        BY <1>4 DEF TypeOK
    <2>2. QED
        BY <2>1, <1>1, IdentityAssumption DEF Woken, Reasons
<1>6. S = {w \in Works : parked[w] \in X}
    <2>1. \A x \in X : Members(x) = {w \in Works : parked[w] = x}
        BY <1>4, <1>5 DEF ParksKept
    <2>2. QED
        BY <2>1, <1>1
<1>7. S \in SUBSET Works /\ IsFiniteSet(S) /\ Cardinality(S) \in Nat
    BY <1>6, WorksCounted
<1>8. work \in [Works -> WorkLeaf]
    BY <1>4, LeafTypes
<1>9. /\ \A w \in S : /\ work'[w].place = "Ready" /\ work'[w].epoch = work[w].epoch
                      /\ work'[w].region = work[w].region /\ work'[w] \in WorkLeaf
      /\ \A w \in Works : w \notin S => work'[w] = work[w]
    <2>1. ASSUME NEW w \in S
          PROVE  /\ work'[w].place = "Ready" /\ work'[w].epoch = work[w].epoch
                 /\ work'[w].region = work[w].region /\ work'[w] \in WorkLeaf
        <3>1. work'[w] = [work[w] EXCEPT !.place = "Ready"] /\ work[w] \in WorkLeaf
            BY <1>2, <1>7, <1>8
        <3>2. QED
            BY <3>1 DEF WorkLeaf
    <2>2. QED
        BY <2>1, <1>2
<1>10. work' \in [Works -> WorkLeaf]
    <2>1. \A w \in Works : work'[w] \in WorkLeaf
        BY <1>8, <1>9
    <2>2. work' = [w \in Works |-> work'[w]]
        BY <1>2
    <2>3. QED
        BY <2>1, <2>2
<1>11. \A w \in Works : parked'[w] = IF w \in S THEN NoOwner ELSE parked[w]
    BY <1>2
<1>12. SameHomes /\ SameOccs
    BY <1>2, <1>3, <1>9 DEF SameHomes, SameOccs, Hot
<1>13. ActiveWorks' = ActiveWorks
    BY <1>3 DEF ActiveWorks
<1>14. QueuesKept' /\ ready' \in [Runs -> Seq(Works)] /\ since' \in [Works -> Int]
    <2>1. \A w \in S : Homes[w] \in Regions /\ work[w].place # "Ready"
        <3> SUFFICES ASSUME NEW w \in S PROVE Homes[w] \in Regions /\ work[w].place # "Ready"
            OBVIOUS
        <3>1. w \in Works /\ work[w].place = "Parked"
            BY <1>2, <1>7
        <3>2. QED
            BY <3>1, <1>4 DEF Homes, LeavesKept, Hot, Homed
    <2>2. \A w \in S : work'[w].place = "Ready" /\ work'[w].region = Homes[w]
        BY <1>7, <1>9 DEF Homes
    <2>3. \A w \in Works : w \notin S => /\ work'[w].place = "Ready" <=> work[w].place = "Ready"
                                         /\ work'[w].region = work[w].region
        BY <1>9
    <2>4. sequence' = sequence
        BY <1>3
    <2>5. QED
        BY <2>1, <2>2, <2>3, <2>4, <1>2, <1>7, ReadiedFacts, ZenonT(60)
<1>15. ParkedSet' = ParkedSet \ S /\ S \subseteq ParkedSet /\ ParkedSet \in SUBSET Works
    BY <1>5, <1>6, <1>11 DEF ParkedSet
<1>16. /\ IsFiniteSet(ParkedSet) /\ Cardinality(ParkedSet') = Cardinality(ParkedSet) - Cardinality(S)
       /\ Cardinality(ParkedSet) \in Nat /\ Cardinality(S) <= Cardinality(ParkedSet)
    BY <1>15, WorksCounted, SeveralLess
<1>17. /\ counts' \in [regions: Nat, activeRegions: Nat, parked: Nat, work: Nat, occ: Nat, certs: Nat]
       /\ counts'.parked = Cardinality(ParkedSet')
       /\ counts'.regions = counts.regions /\ counts'.activeRegions = counts.activeRegions
       /\ counts'.certs = counts.certs /\ counts'.work = counts.work /\ counts'.occ = counts.occ
    <2>1. counts \in [regions: Nat, activeRegions: Nat, parked: Nat, work: Nat, occ: Nat, certs: Nat]
        BY <1>4 DEF TypeOK
    <2>2. counts.parked - Cardinality(S) \in Nat /\ counts.parked - Cardinality(S) = Cardinality(ParkedSet')
        BY <1>4, <1>7, <1>16 DEF CountsKept
    <2>3. QED
        BY <2>1, <2>2, <1>2
<1>18. \A x \in Waits : directory'[x] = IF x \in X THEN NoCharge ELSE directory[x]
    BY <1>2
<1>19. directory \in Charges /\ directory' \in Charges
    <2>1. directory \in [Waits -> [work: Nat, pages: Nat]]
        BY <1>4 DEF TypeOK
    <2>2. NoCharge \in [work: Nat, pages: Nat]
        BY DEF NoCharge
    <2>3. QED
        BY <2>1, <2>2, <1>2 DEF Charges
<1>20. TypeOK'
    <2>1. parked' \in [Works -> Reasons \cup {NoOwner}]
        BY <1>2, <1>4 DEF TypeOK
    <2>2. pages' \in [Reasons -> Seq(SUBSET Works)]
        <3>1. <<>> \in Seq(SUBSET Works)
            OBVIOUS
        <3>2. QED
            BY <3>1, <1>2, <1>4 DEF TypeOK
    <2>3. consumed' \subseteq Activations
        BY <1>2, <1>4 DEF TypeOK
    <2>4. QED
        BY <2>1, <2>2, <2>3, <1>3, <1>4, <1>10, <1>14, <1>17, <1>19 DEF TypeOK, WorkLeaf, Charges
<1>21. RegionsKept' /\ SourceKept'
    BY <1>3, <1>12, RegionsFrame, SourceFrame DEF Inv, SameHomes
<1>22. LeavesKept'
    <2>1. ASSUME NEW w \in Works
          PROVE  /\ Hot(w)' => Homed(w)'
                 /\ work'[w].place = "Active" <=> w \in ActiveWorks'
                 /\ w \in ActiveWorks' => LeavesAgree(w)' /\ active'[w].owner \in Owners /\ active'[w].slot \in Slots
                 /\ work'[w].place \in {"Active", "Terminal"} => work'[w].epoch \in Epochs
                 /\ work'[w].place = "Terminal" => occ'[w][work'[w].epoch].state \in Final
                 /\ work'[w].place = "Parked" <=> parked'[w] # NoOwner
        <3>1. Hot(w)' => Homed(w)'
            BY <1>3, <1>4, <1>12 DEF SameHomes, LeavesKept, Homed
        <3>2. CASE w \in S
            <4>1. work[w].place = "Parked" /\ w \notin ActiveWorks
                BY <3>2, <1>2, <1>4 DEF LeavesKept
            <4>2. QED
                BY <3>1, <3>2, <4>1, <1>9, <1>11, <1>13
        <3>3. CASE w \notin S
            <4>1. work'[w] = work[w] /\ parked'[w] = parked[w] /\ (LeavesAgree(w)' <=> LeavesAgree(w))
                BY <3>3, <1>3, <1>9, <1>11 DEF LeavesAgree
            <4>2. QED
                BY <3>1, <3>3, <4>1, <1>3, <1>4, <1>13 DEF LeavesKept
        <3>4. QED
            BY <3>2, <3>3
    <2>2. QED
        BY <2>1 DEF LeavesKept
<1>23. OccKept'
    <2>1. \A w \in Works : (Hot(w)' <=> Hot(w)) /\ work'[w].region = work[w].region
        BY <1>12 DEF SameHomes
    <2>2. QED
        BY <2>1, <1>3, <1>4, <1>13 DEF OccKept
<1>24. ParksKept'
    <2>1. ASSUME NEW x \in Reasons
          PROVE  /\ Members(x)' = {w \in Works : parked'[w] = x}
                 /\ \A i, j \in DOMAIN pages'[x] : i # j => pages'[x][i] \cap pages'[x][j] = {}
                 /\ \A i \in DOMAIN pages'[x] : i < Len(pages'[x]) => Cardinality(pages'[x][i]) = PageItems
                 /\ \A i \in DOMAIN pages'[x] : Cardinality(pages'[x][i]) <= PageItems
        <3>1. CASE x \in X
            <4>1. pages'[x] = <<>>
                BY <3>1, <1>2
            <4>2. Members(x)' = {}
                BY <4>1 DEF Members, Range
            <4>3. {w \in Works : parked'[w] = x} = {}
                BY <3>1, <1>5, <1>6, <1>11
            <4>4. QED
                BY <4>1, <4>2, <4>3
        <3>2. CASE x \notin X
            <4>1. pages'[x] = pages[x]
                BY <3>2, <1>2
            <4>2. Members(x)' = Members(x)
                BY <4>1 DEF Members
            <4>3. {w \in Works : parked'[w] = x} = {w \in Works : parked[w] = x}
                BY <3>2, <1>5, <1>6, <1>11
            <4>4. QED
                BY <4>1, <4>2, <4>3, <1>4 DEF ParksKept
        <3>3. QED
            BY <3>1, <3>2
    <2>2. ASSUME NEW x \in Waits PROVE directory'[x] = Charge(x)'
        <3>1. CASE x \in X
            <4>1. pages'[x] = <<>>
                BY <3>1, <1>2, <1>5
            <4>2. Members(x)' = {}
                BY <4>1 DEF Members, Range
            <4>3. Charge(x)' = NoCharge
                BY <4>1, <4>2, FS_EmptySet DEF Charge, NoCharge
            <4>4. QED
                BY <4>3, <3>1, <1>18
        <3>2. CASE x \notin X
            <4>1. pages'[x] = pages[x]
                BY <3>2, <1>2, <1>5
            <4>2. Charge(x)' = Charge(x)
                BY <4>1 DEF Members, Charge
            <4>3. QED
                BY <4>2, <3>2, <1>4, <1>18 DEF ParksKept
        <3>3. QED
            BY <3>1, <3>2
    <2>3. WakeItems(directory)' <= MaxWake
        <3>1. \A x \in Waits : SourceItems(directory'[x]) <= SourceItems(directory[x])
            <4> SUFFICES ASSUME NEW x \in Waits PROVE SourceItems(directory'[x]) <= SourceItems(directory[x])
                OBVIOUS
            <4>1. SourceItems(NoCharge) = 0
                BY DEF SourceItems, NoCharge
            <4>2. SourceItems(directory[x]) \in Nat
                BY <1>19, SourceItemsType
            <4>3. QED
                BY <4>1, <4>2, <1>18
        <3>2. WakeItems(directory') <= WakeItems(directory)
            BY <3>1, <1>19, WakeMonotone
        <3>3. WakeItems(directory) <= MaxWake /\ MaxWake \in Nat
            BY <1>4, PolicyAssumption DEF ParksKept
        <3>4. WakeItems(directory) \in Nat /\ WakeItems(directory') \in Nat
            BY <1>19, WakeType
        <3>5. QED
            BY <3>2, <3>3, <3>4
    <2>4. QED
        BY <2>1, <2>2, <2>3 DEF ParksKept
<1>25. CountsKept'
    BY <1>3, <1>12, <1>17, CountsFrame
<1>26. FrontierKept'
    <2>1. Frontier' = Frontier
        BY <1>2, <1>9 DEF Frontier
    <2>2. QED
        BY <2>1, <1>4 DEF FrontierKept
<1>27. ColdTyped' /\ LeaseBacksClaim'
    BY <1>3, LeaseFrame DEF Inv, ColdTyped
<1>28. QED
    BY <1>14, <1>20, <1>21, <1>22, <1>23, <1>24, <1>25, <1>26, <1>27 DEF Inv
-----------------------------------------------------------------------------
(* Regions are split or merged.                                            *)

LEMMA MigrateRegionStep ==
    ASSUME Inv, NEW S \in SUBSET Regions, NEW T \in SUBSET Regions, MigrateRegion(S, T)
    PROVE  Inv'
<1>1. /\ S \subseteq activeRegions
      /\ \A r \in S : Migratable(r)
      /\ \A r \in T : region[r] = NoRegion
      /\ activeRegions' = (activeRegions \ S) \cup T /\ lastRegion' = CursorWithout(S)
      /\ counts' = [counts EXCEPT !.regions = @ + Cardinality(T),
                                  !.activeRegions = @ - Cardinality(S) + Cardinality(T)]
    BY DEF MigrateRegion
<1>2. UNCHANGED <<work, occ, ready, since, sequence, lastRun, run, active, parked, pages, directory, cert, cold,
                  index, leases, clock, applied, consumed>>
    BY DEF MigrateRegion, frontierVars, parkVars, archiveVars, leaseVars, waitVars
<1>3. PICK share \in [Remaining(S) -> T] :
          region' = [r \in Regions |->
              CASE r \in S -> Retired(r)
                [] r \in T -> NewRegion({w \in DOMAIN share : share[w] = r})
                [] OTHER   -> region[r]]
    BY DEF MigrateRegion
<1>4. TypeOK /\ RegionsKept /\ LeavesKept /\ OccKept /\ CountsKept /\ SourceKept
    BY DEF Inv
<1>5. \A r \in T : region[r].life = "Absent" /\ region[r].hotWork = 0 /\ region[r].hotOcc = 0
    BY <1>1 DEF NoRegion
<1>6. \A r \in S : region[r].life = "Active" /\ ~region[r].done /\ ~region[r].cert
    BY <1>1 DEF Migratable
<1>7. \A r \in S : r \notin T
    BY <1>5, <1>6
<1>8. \A r \in S : region'[r] = [region[r] EXCEPT !.life = "Retired"]
    BY <1>3, <1>7 DEF Retired
<1>9. \A r \in T : region'[r] = NewRegion({w \in Remaining(S) : share[w] = r})
    BY <1>3, <1>7
<1>10. \A r \in Regions : r \notin S /\ r \notin T => region'[r] = region[r]
    BY <1>3
<1>11. \A r \in Regions : region[r] \in RegionLeaf
    BY <1>4, LeafTypes
<1>12. Remaining(S) \subseteq Works
    BY <1>11 DEF Remaining, RegionLeaf
<1>13. \A r \in S : /\ region'[r] \in RegionLeaf /\ region'[r].life = "Retired" /\ region'[r].done = region[r].done
                    /\ region'[r].cert = region[r].cert /\ region'[r].hotWork = region[r].hotWork
                    /\ region'[r].hotOcc = region[r].hotOcc
    <2> SUFFICES ASSUME NEW r \in S
                 PROVE  /\ region'[r] \in RegionLeaf /\ region'[r].life = "Retired" /\ region'[r].done = region[r].done
                        /\ region'[r].cert = region[r].cert /\ region'[r].hotWork = region[r].hotWork
                        /\ region'[r].hotOcc = region[r].hotOcc
        OBVIOUS
    <2>1. region[r] \in RegionLeaf /\ region'[r] = [region[r] EXCEPT !.life = "Retired"]
        BY <1>8, <1>11
    <2>2. QED
        BY <2>1 DEF RegionLeaf
<1>14. \A r \in T : /\ region'[r] \in RegionLeaf /\ region'[r].life = "Active" /\ ~region'[r].done /\ ~region'[r].cert
                    /\ region'[r].rest = {w \in Remaining(S) : share[w] = r}
                    /\ region'[r].hotWork = 0 /\ region'[r].hotOcc = 0
    <2> SUFFICES ASSUME NEW r \in T
                 PROVE  /\ region'[r] \in RegionLeaf /\ region'[r].life = "Active" /\ ~region'[r].done /\ ~region'[r].cert
                        /\ region'[r].rest = {w \in Remaining(S) : share[w] = r}
                        /\ region'[r].hotWork = 0 /\ region'[r].hotOcc = 0
        OBVIOUS
    <2> DEFINE rest == {w \in Remaining(S) : share[w] = r}
    <2>1. region'[r] = NewRegion(rest) /\ rest \in SUBSET Works
        BY <1>9, <1>12
    <2> HIDE DEF rest
    <2>2. /\ NewRegion(rest) \in RegionLeaf /\ NewRegion(rest).life = "Active" /\ ~NewRegion(rest).done
          /\ ~NewRegion(rest).cert /\ NewRegion(rest).rest = rest /\ NewRegion(rest).hotWork = 0
          /\ NewRegion(rest).hotOcc = 0
        BY <2>1 DEF RegionLeaf, NewRegion, NoRegion
    <2>3. QED
        BY <2>1, <2>2 DEF rest
<1>15. region' \in [Regions -> RegionLeaf]
    <2>1. \A r \in Regions : region'[r] \in RegionLeaf
        BY <1>10, <1>11, <1>13, <1>14
    <2>2. region' = [r \in Regions |-> region'[r]]
        BY <1>3
    <2>3. QED
        BY <2>1, <2>2
<1>16. /\ IsFiniteSet(S) /\ IsFiniteSet(T) /\ Cardinality(S) \in Nat /\ Cardinality(T) \in Nat
       /\ IsFiniteSet(activeRegions) /\ Cardinality(activeRegions) \in Nat
    BY <1>4, RegionsCounted DEF TypeOK
<1>17. /\ Cardinality(activeRegions') = Cardinality(activeRegions) - Cardinality(S) + Cardinality(T)
       /\ Cardinality(activeRegions') \in Nat
    <2>1. activeRegions \cap T = {}
        BY <1>4, <1>5 DEF RegionsKept
    <2>2. IsFiniteSet(activeRegions \ S) /\ Cardinality(activeRegions \ S) = Cardinality(activeRegions) - Cardinality(S)
        BY <1>1, <1>16, SeveralLess
    <2>3. /\ IsFiniteSet((activeRegions \ S) \cup T)
          /\ Cardinality((activeRegions \ S) \cup T) = Cardinality(activeRegions \ S) + Cardinality(T)
        BY <2>1, <2>2, <1>16, SeveralMore
    <2>4. Cardinality((activeRegions \ S) \cup T) \in Nat
        BY <2>3, FS_CardinalityType
    <2>5. QED
        BY <2>2, <2>3, <2>4, <1>1, <1>16
<1>18. /\ counts' \in [regions: Nat, activeRegions: Nat, parked: Nat, work: Nat, occ: Nat, certs: Nat]
       /\ counts'.activeRegions = Cardinality(activeRegions') /\ counts'.regions = counts.regions + Cardinality(T)
       /\ counts'.certs = counts.certs /\ counts'.parked = counts.parked /\ counts'.work = counts.work
       /\ counts'.occ = counts.occ
    <2>1. counts \in [regions: Nat, activeRegions: Nat, parked: Nat, work: Nat, occ: Nat, certs: Nat]
        BY <1>4 DEF TypeOK
    <2>2. counts.regions + Cardinality(T) \in Nat
        BY <2>1, <1>16
    <2>3. counts.activeRegions - Cardinality(S) + Cardinality(T) = Cardinality(activeRegions')
        BY <1>4, <1>17 DEF CountsKept
    <2>4. QED
        BY <2>1, <2>2, <2>3, <1>1, <1>17
<1>19. SameHomes /\ SameOccs
    BY <1>2 DEF SameHomes, SameOccs, Hot
<1>20. activeRegions' = {r \in Regions : region'[r].life = "Active" /\ ~region'[r].done}
    <2>1. activeRegions = {r \in Regions : region[r].life = "Active" /\ ~region[r].done}
        BY <1>4 DEF RegionsKept
    <2>2. ASSUME NEW r \in Regions
          PROVE  r \in (activeRegions \ S) \cup T <=> region'[r].life = "Active" /\ ~region'[r].done
        <3>1. CASE r \in S
            BY <3>1, <1>7, <1>13
        <3>2. CASE r \in T
            BY <3>2, <1>14
        <3>3. CASE r \notin S /\ r \notin T
            BY <3>3, <2>1, <1>10
        <3>4. QED
            BY <3>1, <3>2, <3>3
    <2>3. (activeRegions \ S) \cup T \subseteq Regions
        BY <2>1
    <2>4. QED
        BY <2>2, <2>3, <1>1
<1>21. TypeOK'
    <2>1. activeRegions' \subseteq Regions
        BY <1>20
    <2>2. lastRegion' \in Regions \cup {None}
        BY <1>1, <1>4 DEF TypeOK, CursorWithout
    <2>3. QED
        BY <2>1, <2>2, <1>2, <1>4, <1>15, <1>18 DEF TypeOK, RegionLeaf
<1>22. RegionsKept'
    <2>1. lastRegion' \in activeRegions' \cup {None}
        BY <1>1, <1>4 DEF RegionsKept, CursorWithout
    <2>2. \A r \in Regions : r \in S \/ r \in T => cert[r] = "None"
        <3>1. \A r \in Regions : r \in S \/ r \in T => ~Closed(r)
            BY <1>5, <1>6 DEF Closed
        <3>2. QED
            BY <3>1, <1>4 DEF RegionsKept
    <2>3. \A r \in Regions : HotWork(r)' = HotWork(r)
        BY <1>19, HotFrame
    <2>4. ASSUME NEW r \in Regions
          PROVE  (region'[r].cert => cert'[r] # "None") /\ (cert'[r] # "None" => Closed(r)' /\ HotWork(r)' = {})
        <3>1. CASE r \in S \/ r \in T
            BY <3>1, <2>2, <1>2, <1>6, <1>13, <1>14
        <3>2. CASE r \notin S /\ r \notin T
            BY <3>2, <2>3, <1>2, <1>4, <1>10 DEF RegionsKept, Closed
        <3>3. QED
            BY <3>1, <3>2
    <2>5. QED
        BY <2>1, <2>4, <1>20 DEF RegionsKept
<1>23. LeavesKept' /\ OccKept'
    <2>1. \A r \in Regions : region[r].life # "Absent" => region'[r].life # "Absent"
        BY <1>10, <1>13, <1>14
    <2>2. QED
        BY <2>1, <1>2, <1>4, LeavesFrame, OccsFrame
<1>24. QueuesKept' /\ ParksKept' /\ LeaseBacksClaim' /\ ColdTyped' /\ FrontierKept'
    BY <1>2, QueuesFrame, ParksFrame, LeaseFrame DEF Inv, ColdTyped, FrontierKept, Frontier
<1>25. CountsKept'
    <2>1. Present' = Present \cup T /\ Present \cap T = {} /\ Present \in SUBSET Regions
        <3>1. ASSUME NEW r \in Regions PROVE region'[r].life # "Absent" <=> region[r].life # "Absent" \/ r \in T
            BY <1>6, <1>10, <1>13, <1>14
        <3>2. QED
            BY <3>1, <1>5 DEF Present
    <2>2. Cardinality(Present') = Cardinality(Present) + Cardinality(T)
        BY <2>1, <1>16, RegionsCounted, SeveralMore
    <2>3. Certified' = Certified /\ ParkedSet' = ParkedSet
        BY <1>2 DEF Certified, ParkedSet
    <2>4. \A r \in Regions : region'[r].hotWork = region[r].hotWork /\ region'[r].hotOcc = region[r].hotOcc
        BY <1>5, <1>10, <1>13, <1>14
    <2>5. QED
        BY <2>2, <2>3, <2>4, <1>4, <1>18, <1>19, HotFrame, OccFrame DEF CountsKept
<1>26. SourceKept'
    <2>1. \A r \in S, w \in Works : ~Holds(r, w)'
        BY <1>13 DEF Holds
    <2>2. \A r \in T, w \in Works : Holds(r, w)' <=> w \in Remaining(S) /\ share[w] = r
        BY <1>14 DEF Holds
    <2>3. \A r \in Regions, w \in Works : r \notin S /\ r \notin T => (Holds(r, w)' <=> Holds(r, w))
        BY <1>10 DEF Holds
    <2>4. \A w \in Works : w \in Remaining(S) <=> \E r \in S : Holds(r, w)
        BY <1>6 DEF Remaining, Holds
    <2>5. \A r \in T, w \in Works : ~Holds(r, w)
        BY <1>5 DEF Holds
    <2>6. \A w \in Works : (Hot(w)' <=> Hot(w)) /\ index'[w] = index[w]
        BY <1>2 DEF Hot
    <2>7. ASSUME NEW w \in Works, NEW r \in Regions, Holds(r, w)'
          PROVE  ~Hot(w)' /\ index'[w] = 0 /\ \A q \in Regions : Holds(q, w)' => q = r
        <3>1. r \notin S
            BY <2>1, <2>7
        <3>2. CASE r \in T
            <4>1. w \in Remaining(S) /\ share[w] = r
                BY <3>2, <2>2, <2>7
            <4>2. PICK p \in S : Holds(p, w)
                BY <4>1, <2>4
            <4>3. ~Hot(w) /\ index[w] = 0 /\ \A q \in Regions : Holds(q, w) => q = p
                BY <4>2, <1>4 DEF SourceKept
            <4>4. ASSUME NEW q \in Regions, Holds(q, w)' PROVE q = r
                <5>1. q \notin S
                    BY <4>4, <2>1
                <5>2. CASE q \in T
                    BY <5>2, <4>1, <4>4, <2>2
                <5>3. CASE q \notin T
                    BY <5>1, <5>3, <4>2, <4>3, <4>4, <2>3
                <5>4. QED
                    BY <5>2, <5>3
            <4>5. QED
                BY <4>3, <4>4, <2>6
        <3>3. CASE r \notin T
            <4>1. Holds(r, w)
                BY <3>1, <3>3, <2>3, <2>7
            <4>2. ~Hot(w) /\ index[w] = 0 /\ \A q \in Regions : Holds(q, w) => q = r
                BY <4>1, <1>4 DEF SourceKept
            <4>3. ASSUME NEW q \in Regions, Holds(q, w)' PROVE q = r
                <5>1. q \notin S
                    BY <4>3, <2>1
                <5>2. CASE q \in T
                    <6>1. PICK p \in S : Holds(p, w)
                        BY <5>2, <4>3, <2>2, <2>4
                    <6>2. QED
                        BY <6>1, <4>2, <3>1
                <5>3. CASE q \notin T
                    BY <5>1, <5>3, <4>2, <4>3, <2>3
                <5>4. QED
                    BY <5>2, <5>3
            <4>4. QED
                BY <4>2, <4>3, <2>6
        <3>4. QED
            BY <3>2, <3>3
    <2>8. ASSUME NEW w \in UNION Range(Source)
          PROVE  (\E r \in Regions : Holds(r, w)') \/ Hot(w)' \/ index'[w] # 0
        <3>1. w \in Works
            BY IdentityAssumption DEF Range
        <3>2. (\E r \in Regions : Holds(r, w)) \/ Hot(w) \/ index[w] # 0
            BY <1>4 DEF SourceKept
        <3>3. ASSUME NEW r \in Regions, Holds(r, w) PROVE \E q \in Regions : Holds(q, w)'
            <4>1. CASE r \in S
                <5>1. w \in Remaining(S)
                    BY <3>1, <3>3, <4>1, <2>4
                <5>2. share[w] \in T /\ share[w] \in Regions
                    BY <5>1
                <5>3. QED
                    BY <3>1, <5>1, <5>2, <2>2
            <4>2. CASE r \notin S
                BY <3>1, <3>3, <4>2, <2>3, <2>5
            <4>3. QED
                BY <4>1, <4>2
        <3>4. QED
            BY <3>1, <3>2, <3>3, <2>6
    <2>9. QED
        BY <2>7, <2>8 DEF SourceKept
<1>27. QED
    BY <1>21, <1>22, <1>23, <1>24, <1>25, <1>26 DEF Inv

-----------------------------------------------------------------------------
(* A closed region is compacted.                                           *)

LEMMA CompactedRegion ==
    ASSUME NEW c \in RegionLeaf
    PROVE  /\ [c EXCEPT !.hotWork = 0, !.hotOcc = 0, !.cert = TRUE]
              = [life |-> c.life, rest |-> c.rest, done |-> c.done, hotWork |-> 0, hotOcc |-> 0, cert |-> TRUE]
           /\ [c EXCEPT !.hotWork = 0, !.hotOcc = 0, !.cert = TRUE] \in RegionLeaf
<1> DEFINE d == [c EXCEPT !.hotWork = 0, !.hotOcc = 0, !.cert = TRUE]
<1>1. c = [life |-> c.life, rest |-> c.rest, done |-> c.done, hotWork |-> c.hotWork, hotOcc |-> c.hotOcc,
           cert |-> c.cert]
    BY DEF RegionLeaf
<1>2. d = [life |-> c.life, rest |-> c.rest, done |-> c.done, hotWork |-> 0, hotOcc |-> 0, cert |-> TRUE]
    <2> DEFINE m == [c EXCEPT !.hotWork = 0]
               n == [m EXCEPT !.hotOcc = 0]
    <2>1. m = [life |-> c.life, rest |-> c.rest, done |-> c.done, hotWork |-> 0, hotOcc |-> c.hotOcc,
               cert |-> c.cert]
        BY <1>1
    <2>2. d = [n EXCEPT !.cert = TRUE]
        OBVIOUS
    <2> HIDE DEF m, d
    <2>3. n = [life |-> c.life, rest |-> c.rest, done |-> c.done, hotWork |-> 0, hotOcc |-> 0, cert |-> c.cert]
        BY <2>1
    <2> HIDE DEF n
    <2>4. QED
        BY <2>2, <2>3
<1>3. d \in RegionLeaf
    BY <1>2 DEF RegionLeaf
<1>4. QED
    BY <1>2, <1>3

LEMMA CompactStep ==
    ASSUME Inv, NEW r \in Regions, Compact(r)
    PROVE  Inv'
<1>1. TypeOK /\ ColdTyped /\ RegionsKept /\ LeavesKept /\ OccKept /\ CountsKept /\ SourceKept
    BY DEF Inv
<1>2. PICK gone \in SUBSET Works : gone = HotWork(r)
    BY DEF HotWork
<1>3. /\ cold' = [w \in Works |-> IF w \in gone THEN occ[w] ELSE cold[w]]
      /\ index' = [w \in Works |-> IF w \in gone THEN work[w].epoch ELSE index[w]]
      /\ occ' = [w \in Works |-> IF w \in gone THEN [e \in Epochs |-> NoOcc] ELSE occ[w]]
      /\ work' = [w \in Works |-> IF w \in gone THEN NoWork ELSE work[w]]
    BY <1>2 DEF Compact
<1>4. /\ region' = [region EXCEPT ![r].hotWork = 0, ![r].hotOcc = 0, ![r].cert = TRUE]
      /\ cert' = [cert EXCEPT ![r] = "Active"]
      /\ counts' = [counts EXCEPT !.work = @ - region[r].hotWork, !.occ = @ - region[r].hotOcc,
                                  !.certs = @ + 1]
      /\ UNCHANGED <<activeRegions, lastRegion, ready, since, sequence, lastRun, run, active, parked, pages,
                     directory, leases, clock, applied, consumed>>
    BY DEF Compact, frontierVars, parkVars, leaseVars, waitVars
<1>5. /\ Closed(r) /\ ~region[r].cert /\ gone # {}
      /\ \A w \in gone : work[w].place = "Terminal" /\ work[w].region = r /\ Hot(w)
      /\ \A w \in Works : Hot(w) /\ work[w].region = r => w \in gone
      /\ \A we \in HotOcc(r) : occ[we[1]][we[2]].state \in Final
    BY <1>2 DEF Compact, Compactable, ArchivableOcc, HotWork
<1>6. cert[r] = "None"
    BY <1>1, <1>2, <1>5 DEF RegionsKept
<1>7. \A w \in gone : work[w].epoch \in Epochs /\ index[w] = 0
    BY <1>1, <1>5 DEF LeavesKept, Homed
<1>8. \A w \in gone, e \in Epochs : occ[w][e] # NoOcc => occ[w][e].region = r
    BY <1>1, <1>5, <1>7 DEF OccKept
<1>9. \A w \in Works, e \in Epochs : occ[w][e].region = r => w \in gone /\ occ[w][e] # NoOcc
    <2> SUFFICES ASSUME NEW w \in Works, NEW e \in Epochs, occ[w][e].region = r
                 PROVE  w \in gone /\ occ[w][e] # NoOcc
        OBVIOUS
    <2>1. occ[w][e] # NoOcc
        BY IdentityAssumption DEF NoOcc, None
    <2>2. CASE Hot(w) /\ occ[w][e].region = work[w].region
        BY <2>1, <2>2, <1>5
    <2>3. CASE cold[w][e] = occ[w][e]
        BY <2>1, <2>3, <1>1, <1>6 DEF OccKept
    <2>4. QED
        BY <2>1, <2>2, <2>3, <1>1 DEF OccKept
<1>10. /\ \A w \in gone : /\ cold'[w] = occ[w] /\ index'[w] = work[w].epoch /\ index'[w] # 0
                          /\ work'[w] = NoWork /\ ~Hot(w)'
       /\ \A w \in gone, e \in Epochs : occ'[w][e] = NoOcc
    BY <1>3, <1>7 DEF Hot, NoWork, Epochs
<1>11. \A w \in Works : w \notin gone => /\ cold'[w] = cold[w] /\ index'[w] = index[w] /\ work'[w] = work[w]
                                          /\ occ'[w] = occ[w] /\ (Hot(w)' <=> Hot(w))
    BY <1>3 DEF Hot
<1>12. /\ region' \in [Regions -> RegionLeaf]
       /\ region'[r] = [life |-> region[r].life, rest |-> region[r].rest, done |-> region[r].done,
                        hotWork |-> 0, hotOcc |-> 0, cert |-> TRUE]
       /\ \A q \in Regions : q # r => region'[q] = region[q]
    <2> DEFINE d == [region[r] EXCEPT !.hotWork = 0, !.hotOcc = 0, !.cert = TRUE]
    <2>1. region[r] \in RegionLeaf /\ region \in [Regions -> RegionLeaf]
        BY <1>1, LeafTypes
    <2>2. region' = [region EXCEPT ![r] = d]
        BY <1>4, <2>1
    <2>3. /\ d \in RegionLeaf
          /\ d = [life |-> region[r].life, rest |-> region[r].rest, done |-> region[r].done,
                  hotWork |-> 0, hotOcc |-> 0, cert |-> TRUE]
        BY <2>1, CompactedRegion
    <2> HIDE DEF d
    <2>4. QED
        BY <2>1, <2>2, <2>3, LeafReplaced
<1>13. \A q \in Regions : region'[q].life = region[q].life /\ region'[q].rest = region[q].rest
                          /\ region'[q].done = region[q].done
    BY <1>12
<1>14. cert'[r] = "Active" /\ (\A q \in Regions : q # r => cert'[q] = cert[q])
       /\ cert' \in [Regions -> {"None", "Active", "Retired"}]
    BY <1>1, <1>4 DEF TypeOK
<1>15. ActiveWorks' = ActiveWorks /\ \A w \in ActiveWorks : w \notin gone
    BY <1>1, <1>4, <1>5 DEF ActiveWorks, LeavesKept
<1>16. HotSet' = HotSet \ gone /\ gone \subseteq HotSet
    BY <1>5, <1>10, <1>11 DEF HotSet
<1>17. \A q \in Regions : HotWork(q)' = IF q = r THEN {} ELSE HotWork(q)
    <2>1. ASSUME NEW q \in Regions, NEW w \in Works
          PROVE  Hot(w)' /\ work'[w].region = q <=> q # r /\ Hot(w) /\ work[w].region = q
        <3>1. CASE w \in gone
            BY <3>1, <1>5, <1>10
        <3>2. CASE w \notin gone
            BY <3>2, <1>5, <1>11
        <3>3. QED
            BY <3>1, <3>2
    <2>2. QED
        BY <2>1 DEF HotWork
<1>18. OccSet' = OccSet \ HotOcc(r) /\ HotOcc(r) \subseteq OccSet
    <2>1. ASSUME NEW w \in Works, NEW e \in Epochs
          PROVE  /\ occ'[w][e] # NoOcc <=> occ[w][e] # NoOcc /\ occ[w][e].region # r
                 /\ occ[w][e].region = r => occ[w][e] # NoOcc
        <3>1. CASE w \in gone
            BY <3>1, <1>8, <1>9, <1>10
        <3>2. CASE w \notin gone
            BY <3>2, <1>9, <1>11
        <3>3. QED
            BY <3>1, <3>2
    <2>2. QED
        BY <2>1 DEF OccSet, HotOcc
<1>19. \A q \in Regions : HotOcc(q)' = IF q = r THEN {} ELSE HotOcc(q)
    <2>1. ASSUME NEW q \in Regions, NEW w \in Works, NEW e \in Epochs
          PROVE  occ'[w][e].region = q <=> q # r /\ occ[w][e].region = q
        <3>1. CASE w \in gone
            <4>1. occ'[w][e].region = None /\ None \notin Regions
                BY <3>1, <1>10, IdentityAssumption DEF NoOcc, None
            <4>2. CASE occ[w][e] = NoOcc
                BY <4>1, <4>2 DEF NoOcc
            <4>3. CASE occ[w][e] # NoOcc
                BY <4>1, <4>3, <3>1, <1>8
            <4>4. QED
                BY <4>2, <4>3
        <3>2. CASE w \notin gone
            BY <3>2, <1>9, <1>11
        <3>3. QED
            BY <3>1, <3>2
    <2>2. QED
        BY <2>1 DEF HotOcc
<1>20. ColdTyped'
    <2>1. ASSUME NEW w \in Works PROVE cold'[w] \in [Epochs -> OccLeaf]
        BY <1>1, <1>10, <1>11, LeafTypes DEF ColdTyped
    <2>2. cold' = [w \in Works |-> cold'[w]]
        BY <1>3
    <2>3. QED
        BY <2>1, <2>2 DEF ColdTyped
<1>21. /\ counts' \in [regions: Nat, activeRegions: Nat, parked: Nat, work: Nat, occ: Nat, certs: Nat]
       /\ counts'.work = Cardinality(HotSet') /\ counts'.occ = Cardinality(OccSet')
       /\ counts'.certs = counts.certs + 1 /\ counts'.regions = counts.regions
       /\ counts'.activeRegions = counts.activeRegions /\ counts'.parked = counts.parked
    <2>1. counts \in [regions: Nat, activeRegions: Nat, parked: Nat, work: Nat, occ: Nat, certs: Nat]
        BY <1>1 DEF TypeOK
    <2>2. HotSet \in SUBSET Works /\ OccSet \in SUBSET (Works \X Epochs)
        BY DEF HotSet, OccSet
    <2>3. counts.work - region[r].hotWork = Cardinality(HotSet') /\ Cardinality(HotSet') \in Nat
        <3>1. Cardinality(HotSet \ gone) = Cardinality(HotSet) - Cardinality(gone) /\ IsFiniteSet(HotSet \ gone)
            BY <1>16, <2>2, WorksCounted, SeveralLess
        <3>2. QED
            BY <3>1, <1>1, <1>2, <1>16, FS_CardinalityType DEF CountsKept
    <2>4. counts.occ - region[r].hotOcc = Cardinality(OccSet') /\ Cardinality(OccSet') \in Nat
        <3>1. /\ Cardinality(OccSet \ HotOcc(r)) = Cardinality(OccSet) - Cardinality(HotOcc(r))
              /\ IsFiniteSet(OccSet \ HotOcc(r))
            BY <1>18, <2>2, PairsCounted, SeveralLess
        <3>2. QED
            BY <3>1, <1>1, <1>18, FS_CardinalityType DEF CountsKept
    <2>5. counts' = [regions |-> counts.regions, activeRegions |-> counts.activeRegions, parked |-> counts.parked,
                     work |-> counts.work - region[r].hotWork, occ |-> counts.occ - region[r].hotOcc,
                     certs |-> counts.certs + 1]
        <3> DEFINE a == counts.work - region[r].hotWork
                   b == counts.occ - region[r].hotOcc
                   m == [counts EXCEPT !.work = a]
                   n == [m EXCEPT !.occ = b]
        <3>1. counts' = [n EXCEPT !.certs = counts.certs + 1]
            BY <1>4, <2>1
        <3> HIDE DEF a, b
        <3>2. m = [regions |-> counts.regions, activeRegions |-> counts.activeRegions, parked |-> counts.parked,
                   work |-> a, occ |-> counts.occ, certs |-> counts.certs]
            BY <2>1
        <3> HIDE DEF m
        <3>3. n = [regions |-> counts.regions, activeRegions |-> counts.activeRegions, parked |-> counts.parked,
                   work |-> a, occ |-> b, certs |-> counts.certs]
            BY <3>2
        <3> HIDE DEF n
        <3>4. counts' = [regions |-> counts.regions, activeRegions |-> counts.activeRegions, parked |-> counts.parked,
                         work |-> a, occ |-> b, certs |-> counts.certs + 1]
            BY <3>1, <3>3
        <3>5. QED
            BY <3>4 DEF a, b
    <2>6. QED
        BY <2>1, <2>3, <2>4, <2>5
<1>22. TypeOK'
    <2>1. work' \in [Works -> WorkLeaf]
        <3>1. NoWork \in WorkLeaf
            BY PolicyAssumption DEF NoWork, WorkLeaf
        <3>2. QED
            BY <3>1, <1>1, <1>3, LeafTypes
    <2>2. occ' \in [Works -> [Epochs -> OccLeaf]]
        <3>1. NoOcc \in OccLeaf
            BY DEF NoOcc, OccLeaf
        <3>2. [e \in Epochs |-> NoOcc] \in [Epochs -> OccLeaf]
            BY <3>1
        <3>3. QED
            BY <3>2, <1>1, <1>3, LeafTypes
    <2>3. index' \in [Works -> 0..MaxEpoch]
        <3>1. \A w \in Works : work[w].epoch \in 0..MaxEpoch /\ index[w] \in 0..MaxEpoch
            BY <1>1 DEF TypeOK
        <3>2. QED
            BY <3>1, <1>3
    <2>4. DOMAIN cold' = Works
        BY <1>3
    <2>5. QED
        BY <2>1, <2>2, <2>3, <2>4, <1>1, <1>4, <1>12, <1>14, <1>21 DEF TypeOK, RegionLeaf, WorkLeaf, OccLeaf
<1>23. RegionsKept'
    <2>1. activeRegions' = {q \in Regions : region'[q].life = "Active" /\ ~region'[q].done}
        BY <1>1, <1>4, <1>13, ZenonT(30) DEF RegionsKept
    <2>2. lastRegion' \in activeRegions' \cup {None}
        BY <1>1, <1>4 DEF RegionsKept
    <2>3. \A q \in Regions : Closed(q)' <=> Closed(q)
        BY <1>13 DEF Closed
    <2>4. ASSUME NEW q \in Regions
          PROVE  (region'[q].cert => cert'[q] # "None") /\ (cert'[q] # "None" => Closed(q)' /\ HotWork(q)' = {})
        <3>1. CASE q = r
            BY <3>1, <2>3, <1>5, <1>14, <1>17
        <3>2. CASE q # r
            BY <3>2, <2>3, <1>1, <1>12, <1>14, <1>17 DEF RegionsKept
        <3>3. QED
            BY <3>1, <3>2
    <2>5. QED
        BY <2>1, <2>2, <2>4 DEF RegionsKept
<1>24. LeavesKept'
    <2>1. ASSUME NEW w \in gone
          PROVE  /\ ~Hot(w)' /\ work'[w].place = "Absent" /\ w \notin ActiveWorks' /\ parked'[w] = NoOwner
        <3>1. parked[w] = NoOwner
            BY <1>1, <1>5 DEF LeavesKept
        <3>2. QED
            BY <3>1, <1>4, <1>10, <1>15 DEF NoWork
    <2>2. ASSUME NEW w \in Works, w \notin gone
          PROVE  /\ Hot(w)' => Homed(w)'
                 /\ work'[w].place = "Active" <=> w \in ActiveWorks'
                 /\ w \in ActiveWorks' => LeavesAgree(w)' /\ active'[w].owner \in Owners /\ active'[w].slot \in Slots
                 /\ work'[w].place \in {"Active", "Terminal"} => work'[w].epoch \in Epochs
                 /\ work'[w].place = "Terminal" => occ'[w][work'[w].epoch].state \in Final
                 /\ work'[w].place = "Parked" <=> parked'[w] # NoOwner
        <3>1. /\ work'[w] = work[w] /\ occ'[w] = occ[w] /\ index'[w] = index[w] /\ active'[w] = active[w]
              /\ parked'[w] = parked[w] /\ (Hot(w)' <=> Hot(w)) /\ ActiveWorks' = ActiveWorks
            BY <2>2, <1>4, <1>11, <1>15
        <3>2. Homed(w) => Homed(w)'
            BY <3>1, <1>13 DEF Homed
        <3>3. LeavesAgree(w) => LeavesAgree(w)'
            BY <3>1 DEF LeavesAgree
        <3>4. QED
            BY <3>1, <3>2, <3>3, <1>1 DEF LeavesKept
    <2>3. QED
        BY <2>1, <2>2 DEF LeavesKept
<1>25. OccKept'
    <2>1. ASSUME NEW w \in gone, NEW e \in Epochs
          PROVE  /\ occ'[w][e] = NoOcc
                 /\ cold'[w][e] # NoOcc => /\ index'[w] # 0 /\ cold'[w][e].state \in Final
                                           /\ cold'[w][e].region = r /\ cert'[r] # "None"
        <3>1. occ[w][e] # NoOcc => <<w, e>> \in HotOcc(r)
            BY <1>8 DEF HotOcc
        <3>2. occ[w][e] # NoOcc => occ[w][e].state \in Final
            BY <3>1, <1>5
        <3>3. QED
            BY <3>2, <1>8, <1>10, <1>14
    <2>2. ASSUME NEW w \in Works, w \notin gone, NEW e \in Epochs
          PROVE  /\ occ'[w][e] = occ[w][e] /\ cold'[w][e] = cold[w][e] /\ index'[w] = index[w]
                 /\ (Hot(w)' <=> Hot(w)) /\ work'[w] = work[w] /\ active'[w] = active[w]
                 /\ ActiveWorks' = ActiveWorks
        BY <2>2, <1>4, <1>11, <1>15
    <2>3. \A q \in Regions : cert[q] # "None" => cert'[q] # "None"
        BY <1>14
    <2>4. NoOcc.state = "Absent"
        BY DEF NoOcc
    <2>5. ASSUME NEW w \in Works, NEW e \in Epochs
          PROVE  /\ occ'[w][e] # NoOcc => /\ occ'[w][e].state # "Absent" /\ occ'[w][e].region \in Regions
                                          /\ \/ Hot(w)' /\ occ'[w][e].region = work'[w].region
                                             \/ cold'[w][e] = occ'[w][e]
                 /\ occ'[w][e].state = "Running" => w \in ActiveWorks' /\ active'[w].epoch = e
                 /\ cold'[w][e] # NoOcc => /\ index'[w] # 0 /\ cold'[w][e].state \in Final
                                           /\ cold'[w][e].region \in Regions /\ cert'[cold'[w][e].region] # "None"
                                           /\ occ'[w][e] \in {NoOcc, cold'[w][e]}
        <3>1. CASE w \in gone
            BY <3>1, <2>1, <2>4
        <3>2. CASE w \notin gone
            BY <3>2, <2>2, <2>3, <1>1 DEF OccKept
        <3>3. QED
            BY <3>1, <3>2
    <2>6. QED
        BY <2>5 DEF OccKept
<1>26. QueuesKept'
    <2>1. \A w \in Works : work'[w].place = "Ready" <=> work[w].place = "Ready"
        BY <1>5, <1>10, <1>11 DEF NoWork
    <2>2. \A w \in Works : work[w].place = "Ready" => RunOfWork(w)' = RunOfWork(w)
        BY <1>5, <1>11 DEF RunOfWork
    <2>3. \A q \in Runs : \A w \in Range(ready[q]) : w \in Works
        BY <1>1, QueueDomain DEF TypeOK, Range
    <2>4. QueuesKept
        BY DEF Inv
    <2>5. ASSUME NEW q \in Runs
          PROVE  /\ IsInjective(ready'[q])
                 /\ \A w \in Range(ready'[q]) : work'[w].place = "Ready" /\ RunOfWork(w)' = q
        BY <2>1, <2>2, <2>3, <2>4, <1>4 DEF QueuesKept
    <2>6. ASSUME NEW w \in Works, work'[w].place = "Ready"
          PROVE  w \in Range(ready'[RunOfWork(w)']) /\ since'[w] \in 0..sequence'
        BY <2>1, <2>2, <2>4, <2>6, <1>4 DEF QueuesKept
    <2>7. QED
        BY <2>5, <2>6 DEF QueuesKept
<1>27. ParksKept' /\ LeaseBacksClaim'
    BY <1>4, ParksFrame, LeaseFrame DEF Inv
<1>28. FrontierKept'
    <2>1. Frontier' = Frontier
        BY <1>5, <1>10, <1>11 DEF Frontier, NoWork
    <2>2. QED
        BY <2>1 DEF Inv, FrontierKept
<1>29. CountsKept'
    <2>1. Present' = Present /\ ParkedSet' = ParkedSet
        BY <1>4, <1>13 DEF Present, ParkedSet
    <2>2. Certified' = Certified \cup {r} /\ r \notin Certified /\ Certified \in SUBSET Regions
        BY <1>6, <1>14 DEF Certified
    <2>3. Cardinality(Certified') = Cardinality(Certified) + 1
        BY <2>2, RegionsCounted, OneMore
    <2>4. ASSUME NEW q \in Regions
          PROVE  region'[q].hotWork = Cardinality(HotWork(q)') /\ region'[q].hotOcc = Cardinality(HotOcc(q)')
        <3>1. CASE q = r
            BY <3>1, <1>12, <1>17, <1>19, FS_EmptySet, SMTT(30)
        <3>2. CASE q # r
            BY <3>2, <1>1, <1>12, <1>17, <1>19 DEF CountsKept
        <3>3. QED
            BY <3>1, <3>2
    <2>5. QED
        BY <2>1, <2>3, <2>4, <1>1, <1>4, <1>21 DEF CountsKept
<1>30. SourceKept'
    <2>1. \A q \in Regions, w \in Works : Holds(q, w)' <=> Holds(q, w)
        BY <1>13 DEF Holds
    <2>2. ASSUME NEW w \in Works, NEW q \in Regions, Holds(q, w)'
          PROVE  ~Hot(w)' /\ index'[w] = 0 /\ \A p \in Regions : Holds(p, w)' => p = q
        <3>1. ~Hot(w) /\ index[w] = 0 /\ \A p \in Regions : Holds(p, w) => p = q
            BY <2>1, <2>2, <1>1 DEF SourceKept
        <3>2. w \notin gone
            BY <3>1, <1>5
        <3>3. QED
            BY <3>1, <3>2, <2>1, <1>11
    <2>3. ASSUME NEW w \in UNION Range(Source)
          PROVE  (\E q \in Regions : Holds(q, w)') \/ Hot(w)' \/ index'[w] # 0
        <3>1. w \in Works
            BY IdentityAssumption DEF Range
        <3>2. CASE w \in gone
            BY <3>2, <1>10
        <3>3. CASE w \notin gone
            BY <3>1, <3>3, <2>1, <1>1, <1>11 DEF SourceKept
        <3>4. QED
            BY <3>2, <3>3
    <2>4. QED
        BY <2>2, <2>3 DEF SourceKept
<1>31. QED
    BY <1>20, <1>22, <1>23, <1>24, <1>25, <1>26, <1>27, <1>28, <1>29, <1>30 DEF Inv

-----------------------------------------------------------------------------
(* Archived occurrences are brought back.                                  *)

LEMMA RehydrateStep ==
    ASSUME Inv, NEW r \in Regions, NEW S \in SUBSET Archived(r), Rehydrate(r, S)
    PROVE  Inv'
<1>1. TypeOK /\ ColdTyped /\ RegionsKept /\ LeavesKept /\ OccKept /\ CountsKept /\ SourceKept
    BY DEF Inv
<1>2. PICK back \in SUBSET (Works \X Epochs) : back = Inserted(S)
    BY DEF Inserted, Archived
<1>3. /\ occ' = [w \in Works |-> [e \in Epochs |-> IF <<w, e>> \in back THEN cold[w][e] ELSE occ[w][e]]]
      /\ region' = [region EXCEPT ![r].hotOcc = @ + Cardinality(back)]
      /\ counts' = [counts EXCEPT !.occ = @ + Cardinality(back)]
      /\ UNCHANGED <<activeRegions, lastRegion, work, ready, since, sequence, lastRun, run, active, parked, pages,
                     directory, cert, cold, index, leases, clock, applied, consumed>>
    BY <1>2 DEF Rehydrate, frontierVars, parkVars, archiveVars, leaseVars, waitVars
<1>4. \A w \in Works, e \in Epochs :
          <<w, e>> \in back => occ[w][e] = NoOcc /\ cold[w][e].region = r /\ cold[w][e] # NoOcc
    <2>1. \A w \in Works, e \in Epochs : <<w, e>> \in back => occ[w][e] = NoOcc /\ cold[w][e].region = r
        BY <1>2 DEF Inserted, Archived
    <2>2. NoOcc.region = None /\ r # None
        BY IdentityAssumption DEF NoOcc, None
    <2>3. QED
        BY <2>1, <2>2
<1>5. \A w \in Works, e \in Epochs : occ'[w][e] = IF <<w, e>> \in back THEN cold[w][e] ELSE occ[w][e]
    BY <1>3
<1>6. \A w \in Works, e \in Epochs : occ[w][e] # NoOcc => occ'[w][e] = occ[w][e]
    BY <1>4, <1>5
<1>7. IsFiniteSet(back) /\ Cardinality(back) \in Nat
    BY PairsCounted
<1>8. OccSet' = OccSet \cup back /\ OccSet \cap back = {} /\ OccSet \in SUBSET (Works \X Epochs)
    <2>1. ASSUME NEW w \in Works, NEW e \in Epochs
          PROVE  /\ occ'[w][e] # NoOcc <=> occ[w][e] # NoOcc \/ <<w, e>> \in back
                 /\ <<w, e>> \in back => occ[w][e] = NoOcc
        BY <1>4, <1>5
    <2>2. QED
        BY <2>1 DEF OccSet
<1>9. /\ HotOcc(r)' = HotOcc(r) \cup back /\ HotOcc(r) \cap back = {} /\ HotOcc(r) \in SUBSET (Works \X Epochs)
      /\ \A q \in Regions : q # r => HotOcc(q)' = HotOcc(q)
    <2>1. NoOcc.region = None /\ None \notin Regions
        BY IdentityAssumption DEF NoOcc, None
    <2>2. ASSUME NEW q \in Regions, NEW w \in Works, NEW e \in Epochs
          PROVE  /\ occ'[w][e].region = q <=> occ[w][e].region = q \/ (<<w, e>> \in back /\ q = r)
                 /\ <<w, e>> \in back => occ[w][e].region # q
        BY <2>1, <1>4, <1>5
    <2>3. QED
        BY <2>2 DEF HotOcc
<1>10. /\ Cardinality(OccSet') = Cardinality(OccSet) + Cardinality(back)
       /\ Cardinality(HotOcc(r)') = Cardinality(HotOcc(r)) + Cardinality(back)
    BY <1>7, <1>8, <1>9, PairsCounted, SeveralMore
<1>11. /\ region' \in [Regions -> RegionLeaf]
       /\ region'[r] = [life |-> region[r].life, rest |-> region[r].rest, done |-> region[r].done,
                        hotWork |-> region[r].hotWork, hotOcc |-> region[r].hotOcc + Cardinality(back),
                        cert |-> region[r].cert]
       /\ \A q \in Regions : q # r => region'[q] = region[q]
    <2> DEFINE n == region[r].hotOcc + Cardinality(back)
               d == [region[r] EXCEPT !.hotOcc = n]
    <2>1. region[r] \in RegionLeaf /\ region \in [Regions -> RegionLeaf]
        BY <1>1, LeafTypes
    <2>2. region' = [region EXCEPT ![r] = d]
        BY <1>3, <2>1
    <2>3. n \in Nat
        BY <2>1, <1>7 DEF RegionLeaf
    <2> HIDE DEF n
    <2>4. /\ d \in RegionLeaf
          /\ d = [life |-> region[r].life, rest |-> region[r].rest, done |-> region[r].done,
                  hotWork |-> region[r].hotWork, hotOcc |-> n, cert |-> region[r].cert]
        BY <2>1, <2>3 DEF RegionLeaf
    <2> HIDE DEF d
    <2>5. QED
        BY <2>1, <2>2, <2>4, LeafReplaced DEF n
<1>12. \A q \in Regions : /\ region'[q].life = region[q].life /\ region'[q].rest = region[q].rest
                          /\ region'[q].done = region[q].done /\ region'[q].cert = region[q].cert
                          /\ region'[q].hotWork = region[q].hotWork
    BY <1>11
<1>13. /\ counts' \in [regions: Nat, activeRegions: Nat, parked: Nat, work: Nat, occ: Nat, certs: Nat]
       /\ counts'.occ = counts.occ + Cardinality(back) /\ counts'.work = counts.work
       /\ counts'.certs = counts.certs /\ counts'.regions = counts.regions
       /\ counts'.activeRegions = counts.activeRegions /\ counts'.parked = counts.parked
    <2>1. counts \in [regions: Nat, activeRegions: Nat, parked: Nat, work: Nat, occ: Nat, certs: Nat]
        BY <1>1 DEF TypeOK
    <2>2. counts.occ + Cardinality(back) \in Nat
        BY <2>1, <1>7
    <2>3. QED
        BY <2>1, <2>2, <1>3
<1>14. SameHomes
    BY <1>3 DEF SameHomes, Hot
<1>15. TypeOK'
    <2>1. occ' \in [Works -> [Epochs -> OccLeaf]]
        <3>1. ASSUME NEW w \in Works, NEW e \in Epochs
              PROVE  (IF <<w, e>> \in back THEN cold[w][e] ELSE occ[w][e]) \in OccLeaf
            BY <1>1, LeafTypes DEF ColdTyped
        <3>2. QED
            BY <3>1, <1>3
    <2>2. QED
        BY <2>1, <1>1, <1>3, <1>11, <1>13 DEF TypeOK, RegionLeaf, OccLeaf
<1>16. RegionsKept' /\ SourceKept'
    BY <1>1, <1>3, <1>12, <1>14, RegionsFrame, SourceFrame DEF SameHomes
<1>17. LeavesKept'
    <2>1. ActiveWorks' = ActiveWorks
        BY <1>3 DEF ActiveWorks
    <2>2. \A w \in Works : (Hot(w)' <=> Hot(w)) /\ (Homed(w) => Homed(w)')
        BY <1>3, <1>12 DEF Hot, Homed
    <2>3. NoOcc.state = "Absent"
        BY DEF NoOcc
    <2>4. ASSUME NEW w \in Works, w \in ActiveWorks, LeavesAgree(w), active[w].epoch \in Epochs PROVE LeavesAgree(w)'
        <3>1. occ'[w][active[w].epoch] = occ[w][active[w].epoch]
            BY <2>3, <2>4, <1>6 DEF LeavesAgree
        <3>2. QED
            BY <3>1, <2>4, <1>3 DEF LeavesAgree
    <2>5. ASSUME NEW w \in Works, w \in ActiveWorks
          PROVE  LeavesAgree(w) /\ active[w].epoch \in Epochs /\ active[w].owner \in Owners /\ active[w].slot \in Slots
        BY <2>5, <1>1 DEF LeavesKept, LeavesAgree
    <2>6. ASSUME NEW w \in Works, work[w].place = "Terminal" PROVE occ'[w][work[w].epoch].state \in Final
        <3>1. work[w].epoch \in Epochs /\ occ[w][work[w].epoch].state \in Final
            BY <2>6, <1>1 DEF LeavesKept
        <3>2. occ[w][work[w].epoch] # NoOcc
            BY <3>1, <2>3 DEF Final
        <3>3. QED
            BY <3>1, <3>2, <1>6
    <2>7. ASSUME NEW w \in Works
          PROVE  /\ Hot(w)' => Homed(w)'
                 /\ work'[w].place = "Active" <=> w \in ActiveWorks'
                 /\ w \in ActiveWorks' => LeavesAgree(w)' /\ active'[w].owner \in Owners /\ active'[w].slot \in Slots
                 /\ work'[w].place \in {"Active", "Terminal"} => work'[w].epoch \in Epochs
                 /\ work'[w].place = "Terminal" => occ'[w][work'[w].epoch].state \in Final
                 /\ work'[w].place = "Parked" <=> parked'[w] # NoOwner
        <3>1. w \in ActiveWorks' => LeavesAgree(w)' /\ active'[w].owner \in Owners /\ active'[w].slot \in Slots
            BY <2>1, <2>4, <2>5, <1>3
        <3>2. work'[w].place = "Terminal" => occ'[w][work'[w].epoch].state \in Final
            BY <2>6, <1>3
        <3>3. QED
            BY <3>1, <3>2, <2>1, <2>2, <1>1, <1>3 DEF LeavesKept
    <2>8. QED
        BY <2>7 DEF LeavesKept
<1>18. OccKept'
    <2>1. ASSUME NEW w \in Works, NEW e \in Epochs
          PROVE  /\ occ'[w][e] # NoOcc => /\ occ'[w][e].state # "Absent" /\ occ'[w][e].region \in Regions
                                          /\ \/ Hot(w)' /\ occ'[w][e].region = work'[w].region
                                             \/ cold'[w][e] = occ'[w][e]
                 /\ occ'[w][e].state = "Running" => w \in ActiveWorks' /\ active'[w].epoch = e
                 /\ cold'[w][e] # NoOcc => /\ index'[w] # 0 /\ cold'[w][e].state \in Final
                                           /\ cold'[w][e].region \in Regions /\ cert'[cold'[w][e].region] # "None"
                                           /\ occ'[w][e] \in {NoOcc, cold'[w][e]}
        <3>1. cold'[w][e] = cold[w][e] /\ index' = index /\ cert' = cert /\ work' = work /\ active' = active
              /\ (Hot(w)' <=> Hot(w)) /\ ActiveWorks' = ActiveWorks
            BY <1>3 DEF Hot, ActiveWorks
        <3>2. CASE <<w, e>> \in back
            <4>1. occ'[w][e] = cold[w][e] /\ cold[w][e] # NoOcc
                BY <3>2, <1>4, <1>5
            <4>2. /\ index[w] # 0 /\ cold[w][e].state \in Final /\ cold[w][e].region \in Regions
                  /\ cert[cold[w][e].region] # "None"
                BY <4>1, <1>1 DEF OccKept
            <4>3. cold[w][e].state \notin {"Absent", "Running"}
                BY <4>2 DEF Final
            <4>4. QED
                BY <3>1, <4>1, <4>2, <4>3
        <3>3. CASE <<w, e>> \notin back
            <4>1. occ'[w][e] = occ[w][e]
                BY <3>3, <1>5
            <4>2. QED
                BY <4>1, <3>1, <1>1 DEF OccKept
        <3>4. QED
            BY <3>2, <3>3
    <2>2. QED
        BY <2>1 DEF OccKept
<1>19. QueuesKept' /\ ParksKept' /\ LeaseBacksClaim' /\ ColdTyped' /\ FrontierKept'
    BY <1>3, QueuesFrame, ParksFrame, LeaseFrame DEF Inv, ColdTyped, FrontierKept, Frontier
<1>20. CountsKept'
    <2>1. Present' = Present /\ Certified' = Certified /\ ParkedSet' = ParkedSet
        BY <1>3, <1>12 DEF Present, Certified, ParkedSet
    <2>2. HotSet' = HotSet /\ \A q \in Regions : HotWork(q)' = HotWork(q)
        BY <1>14, HotFrame
    <2>3. ASSUME NEW q \in Regions
          PROVE  region'[q].hotWork = Cardinality(HotWork(q)') /\ region'[q].hotOcc = Cardinality(HotOcc(q)')
        <3>1. CASE q = r
            BY <3>1, <2>2, <1>1, <1>10, <1>11 DEF CountsKept
        <3>2. CASE q # r
            BY <3>2, <2>2, <1>1, <1>9, <1>11 DEF CountsKept
        <3>3. QED
            BY <3>1, <3>2
    <2>4. QED
        BY <2>1, <2>2, <2>3, <1>1, <1>3, <1>10, <1>13 DEF CountsKept
<1>21. QED
    BY <1>15, <1>16, <1>17, <1>18, <1>19, <1>20 DEF Inv

-----------------------------------------------------------------------------
(* Every command keeps the invariant.                                      *)

LEMMA DispositionStep ==
    ASSUME Inv, NEW w \in Works, Resolve(w) \/ Recover(w)
    PROVE  Inv'
<1>1. Fenced(w)
    BY DEF Resolve, Recover
<1>2. ASSUME NEW verdict \in Verdicts, End(w, verdict) PROVE Inv'
    BY <1>1, <1>2, EndStep
<1>3. ASSUME Retry(w) PROVE Inv'
    BY <1>1, <1>3, RetryStep
<1>4. ASSUME NEW x \in Reasons, RetryParked(w, x) \/ ParkOn(w, x) PROVE Inv'
    BY <1>1, <1>4, ParkStep
<1>5. CASE Resolve(w)
    BY <1>2, <1>3, <1>4, <1>5 DEF Resolve
<1>6. CASE Recover(w)
    BY <1>2, <1>3, <1>4, <1>6 DEF Recover
<1>7. QED
    BY <1>5, <1>6

LEMMA NextInv == Inv /\ [Next]_vars => Inv'
<1> SUFFICES ASSUME Inv, [Next]_vars PROVE Inv'
    OBVIOUS
<1>1. CASE \E r \in Regions : Materialize(r) \/ Compact(r) \/ RetireArchive(r)
    BY <1>1, MaterializeStep, CompactStep, RetireArchiveStep
<1>2. CASE \E r \in Regions : \E S \in SUBSET Archived(r) : Rehydrate(r, S)
    BY <1>2, RehydrateStep
<1>3. CASE \E S, T \in SUBSET Regions : MigrateRegion(S, T)
    BY <1>3, MigrateRegionStep
<1>4. CASE \E o \in Owners, s \in Slots, caps \in Offers : Claim(o, s, caps)
    BY <1>4, ClaimStep
<1>11. CASE \E o \in Owners, s \in Slots : ForeignClaim(o, s)
    BY <1>11, ForeignClaimStep
<1>5. CASE \E w \in Works : RenewLease(w) \/ Resolve(w) \/ Recover(w)
    BY <1>5, RenewLeaseStep, DispositionStep
<1>6. CASE \E q \in Runs, weight \in Weights : SetRunWeight(q, weight)
    BY <1>6, SetRunWeightStep
<1>7. CASE \E s \in Slots : Observe(s)
    BY <1>7, ObserveStep
<1>8. CASE \E a \in Activations : AdmitActivation(a) \/ ActivateWait(a)
    BY <1>8, AdmitActivationStep, ActivateWaitStep
<1>9. CASE UNCHANGED vars
    <2>1. UNCHANGED <<region, activeRegions, lastRegion, work, occ, ready, since, sequence, lastRun, run, active,
                      parked, pages, directory, counts, cert, cold, index, leases, clock, applied, consumed>>
        BY <1>9 DEF vars, regionVars, frontierVars, parkVars, archiveVars, leaseVars, waitVars
    <2>2. TypeOK'
        BY <2>1 DEF Inv, TypeOK
    <2>3. QED
        BY <2>1, <2>2, QuietStep
<1>10. QED
    BY <1>1, <1>2, <1>3, <1>4, <1>5, <1>6, <1>7, <1>8, <1>9, <1>11 DEF Next

(* What every reachable state of the scheduler satisfies.                  *)
LEMMA InvHolds == Spec => []Inv
BY InitInv, NextInv, PTL DEF Spec

-----------------------------------------------------------------------------
(* What follows for the properties.                                        *)

(* However the claims of this and other schedulers, renewals and expiries  *)
(* interleave, a claim holds the exact lease of its slot or has a later    *)
(* fence before it, and no two works share a slot: claim, renew, resolve   *)
(* and recover.                                                            *)
THEOREM LeaseFencesClaim == Spec => []LeaseBacksClaim
<1>1. Inv => LeaseBacksClaim
    BY DEF Inv
<1>2. QED
    BY <1>1, InvHolds, PTL

(* What a step may do to a claim whose lease was handed on.                *)
KeptFenced(w) ==
    /\ active'[w] = active[w] /\ Overtaken(w)'
    /\ occ'[w][active[w].epoch] = occ[w][active[w].epoch]

LEMMA OvertakenKept ==
    ASSUME Inv, [Next]_vars, NEW w \in ActiveWorks, Overtaken(w)
    PROVE  KeptFenced(w)
<1> DEFINE e == active[w].epoch
           s == active[w].slot
<1>1. /\ w \in Works /\ s \in Slots /\ e \in Epochs /\ work[w].place = "Active"
      /\ occ[w][e].state = "Running"
    BY DEF Inv, LeavesKept, LeavesAgree, ActiveWorks
<1>2. /\ active[w].lease \in Nat /\ leases[s].epoch \in Nat /\ occ \in [Works -> [Epochs -> OccLeaf]]
      /\ DOMAIN leases = Slots /\ DOMAIN active = Works
    BY <1>1, LeafTypes DEF Inv, TypeOK
<1>3. ~LeaseHeld(w)
    BY <1>2 DEF LeaseHeld, Overtaken
<1>4. ASSUME UNCHANGED <<active, leases, occ>> PROVE KeptFenced(w)
    BY <1>4 DEF KeptFenced, Overtaken
<1>5. ASSUME NEW r \in Regions, Materialize(r) \/ RetireArchive(r) PROVE KeptFenced(w)
    BY <1>4, <1>5 DEF Materialize, RetireArchive, leaseVars
<1>6. ASSUME NEW S, NEW T, MigrateRegion(S, T) PROVE KeptFenced(w)
    BY <1>4, <1>6 DEF MigrateRegion, leaseVars
<1>7. ASSUME NEW q, NEW weight, SetRunWeight(q, weight) PROVE KeptFenced(w)
    BY <1>4, <1>7 DEF SetRunWeight, leaseVars
<1>8. ASSUME NEW t, Observe(t) PROVE KeptFenced(w)
    BY <1>4, <1>8 DEF Observe
<1>9. ASSUME NEW a, AdmitActivation(a) \/ ActivateWait(a) PROVE KeptFenced(w)
    BY <1>4, <1>9 DEF AdmitActivation, ActivateWait, leaseVars
<1>10. ASSUME NEW r \in Regions, Compact(r) PROVE KeptFenced(w)
    <2>1. UNCHANGED <<active, leases>> /\ w \notin HotWork(r)
        BY <1>10 DEF Compact, Compactable, leaseVars
    <2>2. occ'[w] = occ[w]
        BY <2>1, <1>1, <1>10 DEF Compact
    <2>3. QED
        BY <2>1, <2>2 DEF KeptFenced, Overtaken
<1>11. ASSUME NEW r \in Regions, NEW S \in SUBSET Archived(r), Rehydrate(r, S) PROVE KeptFenced(w)
    <2>1. UNCHANGED <<active, leases>> /\ <<w, e>> \notin Inserted(S)
        BY <1>1, <1>11 DEF Rehydrate, leaseVars, Inserted, NoOcc
    <2>2. occ'[w][e] = occ[w][e]
        BY <2>1, <1>1, <1>11 DEF Rehydrate
    <2>3. QED
        BY <2>1, <2>2 DEF KeptFenced, Overtaken
<1>12. ASSUME NEW o, NEW t, NEW caps, Claim(o, t, caps) PROVE KeptFenced(w)
    <2>1. PICK v, f, c, g, l : /\ work[v].place = "Ready" /\ active' = [active EXCEPT ![v] = c]
                               /\ occ' = [occ EXCEPT ![v][f] = g] /\ leases' = [leases EXCEPT ![t] = l]
        BY <1>12 DEF Claim
    <2>2. w # v /\ s # t
        BY <2>1, <1>1, <1>12 DEF Claim, SlotFree
    <2>3. active'[w] = active[w] /\ occ'[w] = occ[w] /\ leases'[s] = leases[s]
        BY <2>1, <2>2, <1>1, <1>2
    <2>4. QED
        BY <2>3 DEF KeptFenced, Overtaken
<1>13. ASSUME NEW o, NEW t, ForeignClaim(o, t) PROVE KeptFenced(w)
    <2>1. UNCHANGED <<active, occ>> /\ leases' = [leases EXCEPT ![t] = NextLease(t, o)]
        BY <1>13 DEF ForeignClaim
    <2>2. leases'[s].epoch \in {leases[s].epoch, leases[s].epoch + 1}
        <3>1. CASE s = t
            BY <3>1, <2>1, <1>1, <1>2 DEF NextLease
        <3>2. CASE s # t
            BY <3>2, <2>1, <1>1, <1>2
        <3>3. QED
            BY <3>1, <3>2
    <2>3. active[w].lease < leases'[s].epoch
        BY <2>2, <1>2 DEF Overtaken
    <2>4. QED
        BY <2>1, <2>3 DEF KeptFenced, Overtaken
<1>14. ASSUME NEW v \in Works, RenewLease(v) PROVE KeptFenced(w)
    <2>1. v # w /\ active[v].slot # s
        BY <1>3, <1>14 DEF RenewLease, Inv, LeaseBacksClaim
    <2>2. PICK a, b, f, g, l : /\ active' = [active EXCEPT ![v].lease = a, ![v].expires = b]
                               /\ occ' = [occ EXCEPT ![v][f].lease = g]
                               /\ leases' = [leases EXCEPT ![active[v].slot] = l]
        BY <1>14 DEF RenewLease
    <2>3. active'[w] = active[w] /\ occ'[w] = occ[w] /\ leases'[s] = leases[s]
        BY <2>1, <2>2, <1>1, <1>2
    <2>4. QED
        BY <2>3 DEF KeptFenced, Overtaken
<1>15. ASSUME NEW v \in Works, Resolve(v) \/ Recover(v) PROVE KeptFenced(w)
    <2>1. v # w
        BY <1>3, <1>15 DEF Resolve, Recover, Fenced
    <2>2. \E state, place : Disposed(v, state, place)
        BY <1>15 DEF Resolve, Recover, End, Retry, RetryParked, ParkOn
    <2>3. PICK f, g : /\ active' = [active EXCEPT ![v] = NoClaim] /\ UNCHANGED leases
                      /\ occ' = [occ EXCEPT ![v][f].state = g]
        BY <2>2 DEF Disposed, leaseVars
    <2>4. active'[w] = active[w] /\ occ'[w] = occ[w]
        BY <2>1, <2>3, <1>1, <1>2
    <2>5. QED
        BY <2>3, <2>4 DEF KeptFenced, Overtaken
<1>16. CASE UNCHANGED vars
    BY <1>4, <1>16 DEF vars, leaseVars
<1>17. CASE Next
    BY <1>17, <1>5, <1>6, <1>7, <1>8, <1>9, <1>10, <1>11, <1>12, <1>13, <1>14, <1>15 DEF Next
<1>18. QED
    BY <1>16, <1>17

(* Whoever takes the slot of an active claim, the old worker is fenced for *)
(* good: load_virtual_coordination_lease refuses its renewal, result and   *)
(* recovery, and no later command gives it the lease back.                 *)
THEOREM OvertakenStaysFenced == Spec => OvertakenFenced
<1>1. Inv /\ [Next]_vars => [\A w \in ActiveWorks : Overtaken(w) => KeptFenced(w)]_vars
    BY OvertakenKept
<1>2. QED
    BY <1>1, InvHolds, PTL DEF Spec, OvertakenFenced, KeptFenced

(* The batched settlement of deficits is that of a cyclic scan, for every  *)
(* set of offered capabilities and every policy and weights whose quanta   *)
(* are in the exact range (virtual_run_quantum refuses the others).        *)
THEOREM SettlementIsScan == Spec => []ScanSettled
<1>1. Inv => ScanSettled
    BY ScanIsSettled DEF Inv
<1>2. QED
    BY <1>1, InvHolds, PTL

LEMMA RotationFollows == Inv => RotationAlive
<1> SUFFICES ASSUME Inv PROVE RotationAlive
    OBVIOUS
<1>1. RegionsKept /\ activeRegions \subseteq Regions
    BY DEF Inv, TypeOK
<1>2. ASSUME activeRegions # {} PROVE NextRegion \in activeRegions
    <2> DEFINE after == {r \in activeRegions : r > lastRegion}
    <2>1. activeRegions \subseteq Nat /\ after \subseteq Nat /\ after \subseteq activeRegions
        BY <1>1, IdentityAssumption
    <2> HIDE DEF after
    <2>2. Min(activeRegions) \in activeRegions
        BY <1>2, <2>1, MinFacts
    <2>3. after # {} => Min(after) \in after
        BY <2>1, MinFacts
    <2>4. NextRegion = IF after # {} THEN Min(after) ELSE Min(activeRegions)
        BY DEF NextRegion, after
    <2>5. QED
        BY <2>1, <2>2, <2>3, <2>4
<1>3. \A r \in activeRegions : Migratable(r)
    <2> SUFFICES ASSUME NEW r \in activeRegions PROVE Migratable(r)
        OBVIOUS
    <2>1. r \in Regions /\ region[r].life = "Active" /\ ~region[r].done
        BY <1>1 DEF RegionsKept
    <2>2. ~Closed(r)
        BY <2>1 DEF Closed
    <2>3. ~region[r].cert
        BY <1>1, <2>1, <2>2 DEF RegionsKept
    <2>4. QED
        BY <2>1, <2>3 DEF Migratable
<1>4. QED
    BY <1>1, <1>2, <1>3 DEF RotationAlive, RegionsKept

(* Paging, completion, migration and compaction never leave the rotation   *)
(* cursor on a region that is no longer indexed, and the region selected   *)
(* next can be read: select_materialization_region.                        *)
THEOREM RotationStaysAlive == Spec => []RotationAlive
BY RotationFollows, InvHolds, PTL

LEMMA ConservationFollows == Inv => WorkConserved
<1> SUFFICES ASSUME Inv, NEW w \in UNION Range(Source)
             PROVE  Cardinality({r \in Regions : region[r].life = "Active" /\ w \in region[r].rest})
                      + (IF Hot(w) THEN 1 ELSE 0) + (IF index[w] # 0 THEN 1 ELSE 0) = 1
    BY DEF WorkConserved
<1> DEFINE H == {r \in Regions : region[r].life = "Active" /\ w \in region[r].rest}
<1>1. w \in Works
    BY IdentityAssumption DEF Range
<1>2. H = {r \in Regions : Holds(r, w)}
    BY DEF Holds
<1> HIDE DEF H
<1>3. SourceKept /\ LeavesKept
    BY DEF Inv
<1>4. Hot(w) => index[w] = 0
    BY <1>1, <1>3 DEF LeavesKept, Homed
<1>5. CASE \E r \in Regions : Holds(r, w)
    <2>1. PICK r \in Regions : Holds(r, w)
        BY <1>5
    <2>2. ~Hot(w) /\ index[w] = 0 /\ \A q \in Regions : Holds(q, w) => q = r
        BY <1>1, <1>3, <2>1 DEF SourceKept
    <2>3. H = {r}
        BY <1>2, <2>1, <2>2
    <2>4. Cardinality(H) = 1
        BY <2>3, FS_Singleton
    <2>5. QED
        BY <2>2, <2>4 DEF H
<1>6. CASE ~\E r \in Regions : Holds(r, w)
    <2>1. Cardinality(H) = 0
        BY <1>2, <1>6, FS_EmptySet
    <2>2. Hot(w) \/ index[w] # 0
        BY <1>3, <1>6 DEF SourceKept
    <2>3. QED
        BY <2>1, <2>2, <1>4 DEF H
<1>7. QED
    BY <1>5, <1>6

(* No work of the source is lost or read twice, however its region is      *)
(* paged, split, merged, compacted and retired.                            *)
THEOREM NoWorkLost == Spec => []WorkConserved
BY ConservationFollows, InvHolds, PTL

-----------------------------------------------------------------------------
(* Counts, placements and the index of parked work.                        *)

LEMMA CountsFollow == Inv => CountsExact
<1> SUFFICES ASSUME Inv PROVE CountsExact
    OBVIOUS
<1>1. Materialized <= MaxMaterialized
    BY FrontierCounted DEF Inv, FrontierKept
<1>2. CountsKept /\ RegionsKept
    BY DEF Inv
<1>3. QED
    BY <1>1, <1>2 DEF CountsExact, CountsKept, RegionsKept, Present, Certified, HotSet, ParkedSet, OccSet

LEMMA QueueShort ==
    ASSUME Inv, NEW q \in Runs, NEW i \in DOMAIN ready[q]
    PROVE  i \in 1..Cardinality(Works)
<1> DEFINE s == ready[q]
<1>1. s \in Seq(Works) /\ IsInjective(s)
    BY DEF Inv, TypeOK, QueuesKept
<1>2. DOMAIN s = 1..Len(s) /\ Len(s) \in Nat
    BY <1>1, QueueDomain
<1>3. s \in [1..Len(s) -> Works]
    BY <1>1, <1>2, QueueDomain
<1>4. s \in Injection(1..Len(s), Works)
    BY <1>1, <1>2, <1>3 DEF Injection
<1>5. Cardinality(1..Len(s)) <= Cardinality(Works)
    BY <1>4, FiniteAssumption, FS_Injection
<1> HIDE DEF s
<1>6. Cardinality(1..Len(s)) = Len(s) /\ Cardinality(Works) \in Nat
    <2>1. Cardinality(1..Len(s)) = IF 1 > Len(s) THEN 0 ELSE Len(s) - 1 + 1
        BY <1>2, FS_Interval
    <2>2. Cardinality(Works) \in Nat
        BY WorksCounted
    <2>3. QED
        BY <1>2, <2>1, <2>2
<1>7. ASSUME NEW j \in 1..Len(s) PROVE j \in 1..Cardinality(Works)
    BY <1>2, <1>5, <1>6
<1>8. QED
    BY <1>2, <1>7 DEF s

LEMMA PlacesFollow == Inv => PlacedOnce
<1> SUFFICES ASSUME Inv, NEW w \in Works
             PROVE  /\ (work[w].place = "Ready") <=>
                          \E q \in Runs, i \in 1..Cardinality(Works) : i \in DOMAIN ready[q] /\ ready[q][i] = w
                    /\ work[w].place = "Ready" =>
                          /\ Cardinality({qi \in Runs \X (1..Cardinality(Works)) :
                                 qi[2] \in DOMAIN ready[qi[1]] /\ ready[qi[1]][qi[2]] = w}) = 1
                          /\ w \in Range(ready[RunOfWork(w)]) /\ since[w] \in 0..sequence
                    /\ work[w].place = "Active" <=> w \in ActiveWorks
                    /\ w \in ActiveWorks => LeavesAgree(w)
                    /\ \A e \in Epochs : occ[w][e].state = "Running" => w \in ActiveWorks /\ active[w].epoch = e
                    /\ work[w].place = "Parked" <=> parked[w] # NoOwner
                    /\ work[w].place = "Terminal" => occ[w][work[w].epoch].state \in Final
    BY DEF PlacedOnce
<1>1. TypeOK /\ LeavesKept /\ OccKept /\ QueuesKept
    BY DEF Inv
<1>2. ASSUME NEW q \in Runs, NEW i \in DOMAIN ready[q], ready[q][i] = w
      PROVE  work[w].place = "Ready" /\ RunOfWork(w) = q
    BY <1>1, <1>2 DEF QueuesKept, Range
<1>3. ASSUME work[w].place = "Ready"
      PROVE  /\ w \in Range(ready[RunOfWork(w)]) /\ since[w] \in 0..sequence /\ RunOfWork(w) \in Runs
             /\ \E i \in 1..Cardinality(Works) : i \in DOMAIN ready[RunOfWork(w)] /\ ready[RunOfWork(w)][i] = w
    <2>1. RunOfWork(w) \in Runs
        BY <1>1, <1>3, IdentityAssumption DEF LeavesKept, Hot, Homed, RunOfWork
    <2>2. w \in Range(ready[RunOfWork(w)]) /\ since[w] \in 0..sequence
        BY <1>1, <1>3 DEF QueuesKept
    <2>3. PICK i \in DOMAIN ready[RunOfWork(w)] : ready[RunOfWork(w)][i] = w
        BY <2>2 DEF Range
    <2>4. i \in 1..Cardinality(Works)
        BY <2>1, QueueShort
    <2>5. QED
        BY <2>1, <2>2, <2>3, <2>4
<1>4. ASSUME work[w].place = "Ready"
      PROVE  Cardinality({qi \in Runs \X (1..Cardinality(Works)) :
                 qi[2] \in DOMAIN ready[qi[1]] /\ ready[qi[1]][qi[2]] = w}) = 1
    <2> DEFINE entries == {qi \in Runs \X (1..Cardinality(Works)) :
                               qi[2] \in DOMAIN ready[qi[1]] /\ ready[qi[1]][qi[2]] = w}
    <2>1. PICK p \in Runs : p = RunOfWork(w)
        BY <1>3, <1>4
    <2>2. PICK i \in 1..Cardinality(Works) : i \in DOMAIN ready[p] /\ ready[p][i] = w
        BY <1>3, <1>4, <2>1
    <2>3. <<p, i>> \in entries
        BY <2>2
    <2>4. ASSUME NEW q \in Runs, NEW j \in 1..Cardinality(Works), j \in DOMAIN ready[q], ready[q][j] = w
          PROVE  q = p /\ j = i
        <3>1. q = p
            BY <2>1, <2>4, <1>2
        <3>2. IsInjective(ready[p])
            BY <1>1 DEF QueuesKept
        <3>3. QED
            BY <3>1, <3>2, <2>2, <2>4 DEF IsInjective
    <2>5. \A qi \in entries : qi = <<p, i>>
        BY <2>4
    <2>6. entries = {<<p, i>>}
        BY <2>3, <2>5
    <2>7. QED
        BY <2>6, FS_Singleton
<1>5. (work[w].place = "Ready") <=>
          \E q \in Runs, i \in 1..Cardinality(Works) : i \in DOMAIN ready[q] /\ ready[q][i] = w
    BY <1>2, <1>3
<1>6. /\ work[w].place = "Active" <=> w \in ActiveWorks
      /\ w \in ActiveWorks => LeavesAgree(w)
      /\ work[w].place = "Parked" <=> parked[w] # NoOwner
      /\ work[w].place = "Terminal" => occ[w][work[w].epoch].state \in Final
    BY <1>1 DEF LeavesKept
<1>7. \A e \in Epochs : occ[w][e].state = "Running" => w \in ActiveWorks /\ active[w].epoch = e
    BY <1>1 DEF OccKept
<1>8. QED
    BY <1>3, <1>4, <1>5, <1>6, <1>7

LEMMA ParkIndexFollows == Inv => ParkIndexExact
<1> SUFFICES ASSUME Inv PROVE ParkIndexExact
    OBVIOUS
<1>1. ParksKept /\ pages \in [Reasons -> Seq(SUBSET Works)]
    BY DEF Inv, TypeOK
<1>2. ASSUME NEW x \in Reasons
      PROVE  FoldSeq(LAMBDA page, n : Cardinality(page) + n, 0, pages[x]) = Cardinality(Members(x))
    <2>1. pages[x] \in Seq(SUBSET Works) /\ Disjoint(pages[x], DOMAIN pages[x])
        BY <1>1 DEF ParksKept, Disjoint
    <2>2. QED
        BY <2>1, PagesSum DEF Members
<1>3. QED
    BY <1>1, <1>2 DEF ParkIndexExact, ParksKept

(* Everything the scheduler keeps beside the leaves agrees with them after *)
(* every command: the counts that compaction and materialisation trust,    *)
(* the one place a work is in, and the pages and charges of parked work;   *)
(* and the frontier never outgrows its bound.                              *)
THEOREM IndexesStayExact == Spec => []IndexesExact
<1>1. Inv => IndexesExact
    BY CountsFollow, PlacesFollow, ParkIndexFollows DEF IndexesExact, Inv
<1>2. QED
    BY <1>1, InvHolds, PTL

-----------------------------------------------------------------------------
(* Ended occurrences.                                                      *)

KeptOccurrence(w, e) ==
    /\ occ[w][e].state \notin {"Absent", "Running"} =>
          occ'[w][e] = occ[w][e] \/ (occ'[w][e] = NoOcc /\ cold'[w][e] = occ[w][e])
    /\ cold[w][e] # NoOcc => cold'[w][e] = cold[w][e] /\ occ'[w][e] \in {NoOcc, cold[w][e]}

(* A command that only touches one occurrence, absent or running, of a hot *)
(* work: a claim, a renewal or a disposition.                              *)
LEMMA OneOccurrence ==
    ASSUME Inv, UNCHANGED cold, NEW v, NEW f, v \in Works => Hot(v),
           occ[v][f].state \in {"Absent", "Running"},
           \A w \in Works, e \in Epochs : w # v \/ e # f => occ'[w][e] = occ[w][e]
    PROVE  \A w \in Works, e \in Epochs : KeptOccurrence(w, e)
<1> SUFFICES ASSUME NEW w \in Works, NEW e \in Epochs PROVE KeptOccurrence(w, e)
    OBVIOUS
<1>1. OccKept /\ LeavesKept
    BY DEF Inv
<1>2. CASE w = v /\ e = f
    <2>1. index[w] = 0
        BY <1>1, <1>2 DEF LeavesKept, Homed
    <2>2. cold[w][e] = NoOcc
        BY <2>1, <1>1 DEF OccKept
    <2>3. QED
        BY <2>2, <1>2 DEF KeptOccurrence
<1>3. CASE w # v \/ e # f
    BY <1>1, <1>3 DEF KeptOccurrence, OccKept
<1>4. QED
    BY <1>2, <1>3

LEMMA NoOccurrence ==
    ASSUME Inv, UNCHANGED <<occ, cold>>
    PROVE  \A w \in Works, e \in Epochs : KeptOccurrence(w, e)
BY DEF KeptOccurrence, Inv, OccKept

LEMMA OccurrencesKept ==
    ASSUME Inv, [Next]_vars
    PROVE  \A w \in Works, e \in Epochs : KeptOccurrence(w, e)
<1>1. occ \in [Works -> [Epochs -> OccLeaf]] /\ OccKept /\ LeavesKept
    BY LeafTypes DEF Inv
<1>2. ASSUME NEW v \in Works, v \in ActiveWorks, LeavesAgree(v)
      PROVE  Hot(v) /\ occ[v][active[v].epoch].state = "Running"
    BY <1>2 DEF LeavesAgree, Hot
<1>3. ASSUME NEW v \in Works, Fenced(v), NEW state, NEW place, Disposed(v, state, place)
      PROVE  \A w \in Works, e \in Epochs : KeptOccurrence(w, e)
    <2>1. Hot(v) /\ occ[v][active[v].epoch].state = "Running"
        BY <1>2, <1>3 DEF Fenced
    <2>2. UNCHANGED cold
        BY <1>3 DEF Disposed, archiveVars
    <2>3. \A w \in Works, e \in Epochs : w # v \/ e # active[v].epoch => occ'[w][e] = occ[w][e]
        BY <1>1, <1>3 DEF Disposed
    <2>4. QED
        BY <2>1, <2>2, <2>3, OneOccurrence
<1>4. ASSUME NEW v \in Works, Resolve(v) \/ Recover(v)
      PROVE  \A w \in Works, e \in Epochs : KeptOccurrence(w, e)
    <2>1. Fenced(v) /\ \E state, place : Disposed(v, state, place)
        BY <1>4 DEF Resolve, Recover, End, Retry, RetryParked, ParkOn
    <2>2. QED
        BY <2>1, <1>3
<1>5. ASSUME NEW v \in Works, RenewLease(v)
      PROVE  \A w \in Works, e \in Epochs : KeptOccurrence(w, e)
    <2>1. Hot(v) /\ occ[v][active[v].epoch].state = "Running"
        BY <1>2, <1>5 DEF RenewLease
    <2>2. UNCHANGED cold
        BY <1>5 DEF RenewLease, archiveVars
    <2>3. \A w \in Works, e \in Epochs : w # v \/ e # active[v].epoch => occ'[w][e] = occ[w][e]
        BY <1>1, <1>5 DEF RenewLease
    <2>4. QED
        BY <2>1, <2>2, <2>3, OneOccurrence
<1>6. ASSUME NEW o, NEW s, NEW caps, Claim(o, s, caps)
      PROVE  \A w \in Works, e \in Epochs : KeptOccurrence(w, e)
    <2>1. PICK v, f, c : /\ occ' = [occ EXCEPT ![v][f] = c] /\ work[v].place = "Ready" /\ occ[v][f] = NoOcc
        BY <1>6 DEF Claim
    <2>2. Hot(v) /\ occ[v][f].state = "Absent"
        BY <2>1 DEF Hot, NoOcc
    <2>3. UNCHANGED cold
        BY <1>6 DEF Claim, archiveVars
    <2>4. \A w \in Works, e \in Epochs : w # v \/ e # f => occ'[w][e] = occ[w][e]
        BY <1>1, <2>1
    <2>5. QED
        BY <2>2, <2>3, <2>4, OneOccurrence
<1>7. ASSUME NEW r \in Regions, Compact(r)
      PROVE  \A w \in Works, e \in Epochs : KeptOccurrence(w, e)
    <2> SUFFICES ASSUME NEW w \in Works, NEW e \in Epochs PROVE KeptOccurrence(w, e)
        OBVIOUS
    <2>1. /\ cold' = [v \in Works |-> IF v \in HotWork(r) THEN occ[v] ELSE cold[v]]
          /\ occ' = [v \in Works |-> IF v \in HotWork(r) THEN [f \in Epochs |-> NoOcc] ELSE occ[v]]
        BY <1>7 DEF Compact
    <2>2. CASE w \in HotWork(r)
        <3>1. cold[w][e] = NoOcc
            BY <2>2, <1>1 DEF HotWork, LeavesKept, Homed, OccKept
        <3>2. QED
            BY <3>1, <2>1, <2>2 DEF KeptOccurrence
    <2>3. CASE w \notin HotWork(r)
        BY <2>1, <2>3, <1>1 DEF KeptOccurrence, OccKept
    <2>4. QED
        BY <2>2, <2>3
<1>8. ASSUME NEW r \in Regions, NEW S \in SUBSET Archived(r), Rehydrate(r, S)
      PROVE  \A w \in Works, e \in Epochs : KeptOccurrence(w, e)
    <2> SUFFICES ASSUME NEW w \in Works, NEW e \in Epochs PROVE KeptOccurrence(w, e)
        OBVIOUS
    <2>1. occ'[w][e] = (IF <<w, e>> \in Inserted(S) THEN cold[w][e] ELSE occ[w][e]) /\ UNCHANGED cold
        BY <1>8 DEF Rehydrate, archiveVars
    <2>2. CASE <<w, e>> \in Inserted(S)
        <3>1. occ[w][e].state = "Absent"
            BY <2>2 DEF Inserted, NoOcc
        <3>2. QED
            BY <3>1, <2>1, <2>2 DEF KeptOccurrence
    <2>3. CASE <<w, e>> \notin Inserted(S)
        BY <2>1, <2>3, <1>1 DEF KeptOccurrence, OccKept
    <2>4. QED
        BY <2>2, <2>3
<1>9. ASSUME NEW r \in Regions, Materialize(r) \/ RetireArchive(r) PROVE UNCHANGED <<occ, cold>>
    BY <1>9 DEF Materialize, RetireArchive, archiveVars
<1>10. ASSUME NEW S, NEW T, MigrateRegion(S, T) PROVE UNCHANGED <<occ, cold>>
    BY <1>10 DEF MigrateRegion, archiveVars
<1>11. ASSUME NEW q, NEW weight, SetRunWeight(q, weight) PROVE UNCHANGED <<occ, cold>>
    BY <1>11 DEF SetRunWeight, archiveVars
<1>12. ASSUME NEW s, Observe(s) PROVE UNCHANGED <<occ, cold>>
    BY <1>12 DEF Observe, archiveVars
<1>16. ASSUME NEW o, NEW s, ForeignClaim(o, s) PROVE UNCHANGED <<occ, cold>>
    BY <1>16 DEF ForeignClaim, archiveVars
<1>13. ASSUME NEW a, AdmitActivation(a) \/ ActivateWait(a) PROVE UNCHANGED <<occ, cold>>
    BY <1>13 DEF AdmitActivation, ActivateWait, archiveVars
<1>14. ASSUME UNCHANGED vars PROVE UNCHANGED <<occ, cold>>
    BY <1>14 DEF vars, archiveVars
<1>15. QED
    <2>1. CASE UNCHANGED <<occ, cold>>
        BY <2>1, NoOccurrence
    <2>2. CASE Next
        BY <2>1, <2>2, <1>4, <1>5, <1>6, <1>7, <1>8, <1>9, <1>10, <1>11, <1>12, <1>13, <1>16 DEF Next
    <2>3. QED
        BY <2>1, <2>2, <1>14

(* No command changes a finished occurrence: compaction moves it to the    *)
(* archive as it is, rehydration brings back what was archived, and a      *)
(* later claim runs another epoch.                                         *)
THEOREM FinishedStaysFinished == Spec => OccurrenceFinal
<1>1. Inv /\ [Next]_vars => [\A w \in Works, e \in Epochs : KeptOccurrence(w, e)]_vars
    BY OccurrencesKept
<1>2. QED
    BY <1>1, InvHolds, PTL DEF Spec, OccurrenceFinal, KeptOccurrence

=============================================================================
