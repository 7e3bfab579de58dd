--------------------------- MODULE WaitSourcesProofs ---------------------------
(***************************************************************************)
(* Theorems of WaitSources, for any number of drivers, requests, Runs,     *)
(* Waits and activations: what a driver holds, what a producer was told    *)
(* and what the Store decided never disagree, and nothing decided is       *)
(* decided again.                                                          *)
(*                                                                         *)
(* The inductive invariant: Delivering says what each driver holds of the  *)
(* row it is working on, RowsDecided ties the rows to the receipts,        *)
(* Serving ties the HTTP requests and their waiters to the rows, Won says  *)
(* which receipt completed which Wait, and Parked that a Run has at most   *)
(* one pending Wait.                                                       *)
(***************************************************************************)
EXTENDS WaitSources, FiniteSetTheorems, TLAPS

(* What may complete an activation's Waits: select_source's page.          *)
GoodTargets(a, T) ==
    /\ T # {} /\ \A w \in T : w \in Waits /\ SourceOf[w] = Fires[a]
    /\ Cardinality(T \cap Once) <= 1

Holds(x) ==
    x.at \in {"Selected", "Received", "Admitted"} =>
        /\ x.activation \in Activations \ Direct /\ row[x.activation].stored
        /\ GoodTargets(x.activation, x.targets)
        /\ x.at # "Selected" => x.targets = row[x.activation].selected
        /\ x.at = "Admitted" => receipt[x.activation] # NoReceipt

Delivering == \A d \in Drivers : Holds(driver[d])

RowsDecided ==
    /\ \A a \in Activations \ Direct :
          /\ row[a].selected # {} => GoodTargets(a, row[a].selected) /\ row[a].stored
          /\ row[a].acked => receipt[a] # NoReceipt
          /\ receipt[a] # NoReceipt =>
                /\ row[a].selected # {} /\ receipt[a].targets = row[a].selected
                /\ receipt[a].value = row[a].value
    /\ \A av \in accepted : row[av[1]].acked /\ row[av[1]].value = av[2]

Serving ==
    /\ \A h \in Handlers : handler[h].at # "Idle" =>
          /\ handler[h].activation \in SignalRows /\ handler[h].value \in Values
          /\ row[handler[h].activation].stored
          /\ row[handler[h].activation].value = handler[h].value
    /\ \A d \in HttpDrivers :
          /\ IsFiniteSet(waiters[d])
          /\ \A h \in waiters[d] : HomeOf[h] = d /\ handler[h].at = "Registered"

Won ==
    /\ \A w \in Waits : wait[w].state = "Completed" =>
          wait[w].by \in Activations /\ w \in receipt[wait[w].by].applied
    /\ \A a \in Activations : \A w \in receipt[a].applied :
          wait[w].state = "Completed" /\ wait[w].by = a /\ Fires[a] = SourceOf[w]
    /\ \A a \in Activations : Cardinality(receipt[a].targets \cap Once) <= 1

Parked ==
    /\ \A w, v \in Waits : wait[w].state = "Pending" /\ wait[v].state = "Pending"
                           /\ RunOf[w] = RunOf[v] => w = v
    /\ \A q \in Runs : run[q] = "Waiting" <=> \E w \in WaitsOf(q) : wait[w].state = "Pending"

Inv == WaitTypeOK /\ Delivering /\ RowsDecided /\ Serving /\ Won /\ Parked

-----------------------------------------------------------------------------
(* Least and greatest members.                                             *)

LEMMA LeastExists ==
    ASSUME NEW S, S \subseteq Nat, S # {}
    PROVE  \E x \in S : \A y \in S : x <= y
<1> DEFINE R == OpToRel(<, Nat)
<1>1. IsWellFoundedOn(R, Nat)
    BY NatLessThanWellFounded
<1>2. \A x, y \in Nat : y < x => <<y, x>> \in R
    BY DEF OpToRel
<1> HIDE DEF R
<1>3. PICK x \in S : \A y \in S : ~(<<y, x>> \in R)
    BY <1>1, WFMin
<1>4. \A y \in S : x \in Nat /\ y \in Nat /\ ~(y < x)
    BY <1>2, <1>3
<1>5. \A y \in S : x <= y
    BY <1>4
<1>6. QED
    BY <1>5

LEMMA MinFacts ==
    ASSUME NEW S, S \subseteq Nat, S # {}
    PROVE  Min(S) \in S /\ \A y \in S : Min(S) <= y
BY LeastExists DEF Min

(* A finite set of numbers has a bound: the least number of elements of a  *)
(* count of the set that has none would be one more than a bounded one.    *)
LEMMA FiniteBounded ==
    ASSUME NEW S, S \subseteq Nat, IsFiniteSet(S)
    PROVE  \E m \in Nat : \A x \in S : x <= m
<1>1. PICK n \in Nat : ExistsSurjection(1..n, S)
    BY FS_NatSurjection
<1>2. PICK f \in [1..n -> S] : \A x \in S : \E j \in 1..n : f[j] = x
    BY <1>1 DEF ExistsSurjection, Surjection
<1> DEFINE Bound(k, m) == \A j \in 1..n : j <= k => f[j] <= m
           Bad == {k \in Nat : ~\E m \in Nat : Bound(k, m)}
<1>3. Bad = {}
    <2> SUFFICES ASSUME Bad # {} PROVE FALSE
        OBVIOUS
    <2>1. PICK k \in Bad : \A y \in Bad : k <= y
        BY LeastExists
    <2>2. k \in Nat /\ ~\E m \in Nat : Bound(k, m)
        OBVIOUS
    <2>3. Bound(0, 0)
        BY <1>1
    <2>4. k # 0 /\ k - 1 \in Nat
        BY <2>2, <2>3
    <2>5. k - 1 \notin Bad
        <3> HIDE DEF Bad
        <3>1. QED
            BY <2>1, <2>2, <2>4
    <2>6. PICK m \in Nat : Bound(k - 1, m)
        BY <2>4, <2>5
    <2>7. CASE k \in 1..n
        <3>1. PICK b \in Nat : b = f[k]
            BY <2>7, <1>2
        <3>2. PICK c \in Nat : m <= c /\ b <= c
            <4>1. m + b \in Nat /\ m <= m + b /\ b <= m + b
                OBVIOUS
            <4>2. QED
                BY <4>1
        <3>3. \A j \in 1..n : j <= k => f[j] <= c
            <4> SUFFICES ASSUME NEW j \in 1..n, j <= k PROVE f[j] <= c
                OBVIOUS
            <4>1. CASE j = k
                BY <4>1, <3>1, <3>2
            <4>2. CASE j # k
                <5>1. j <= k - 1
                    BY <4>2, <2>2
                <5>2. PICK a \in Nat : a = f[j]
                    BY <1>2
                <5>3. a <= m
                    BY <5>1, <5>2, <2>6
                <5>4. a <= c
                    BY <5>3, <3>2
                <5>5. QED
                    BY <5>2, <5>4
            <4>3. QED
                BY <4>1, <4>2
        <3>4. QED
            BY <3>2, <3>3, <2>2
    <2>8. CASE k \notin 1..n
        <3>1. \A j \in 1..n : j <= k => j <= k - 1
            BY <2>8, <2>2, <2>4
        <3>2. Bound(k, m)
            BY <3>1, <2>6
        <3>3. QED
            BY <3>2, <2>2, <2>6
    <2>9. QED
        BY <2>7, <2>8
<1>4. PICK m \in Nat : Bound(n, m)
    BY <1>3, <1>1
<1>5. \A j \in 1..n : f[j] <= m
    BY <1>4
<1>6. QED
    BY <1>2, <1>5

LEMMA MaxFacts ==
    ASSUME NEW S, S \subseteq Nat, S # {}, IsFiniteSet(S)
    PROVE  Max(S) \in S /\ \A y \in S : y <= Max(S)
<1> DEFINE B == {m \in Nat : \A x \in S : x <= m}
<1>1. B # {}
    BY FiniteBounded
<1>2. PICK m \in B : \A y \in B : m <= y
    BY <1>1, LeastExists
<1>3. m \in S
    <2>1. CASE m = 0
        <3>1. PICK x \in S : TRUE
            OBVIOUS
        <3>2. x \in Nat /\ x <= m
            BY <3>1, <1>2
        <3>3. QED
            BY <3>1, <3>2, <2>1
    <2>2. CASE m # 0
        <3>1. m - 1 \in Nat /\ m - 1 \notin B
            BY <2>2, <1>2
        <3>2. PICK x \in S : ~(x <= m - 1)
            BY <3>1
        <3>3. x = m
            BY <3>1, <3>2, <1>2
        <3>4. QED
            BY <3>2, <3>3
    <2>3. QED
        BY <2>1, <2>2
<1>4. \E x \in S : \A y \in S : x >= y
    BY <1>2, <1>3
<1>5. Max(S) \in S /\ \A y \in S : Max(S) >= y
    BY <1>4 DEF Max
<1>6. QED
    BY <1>5

-----------------------------------------------------------------------------
(* Pages.                                                                  *)

LEMMA Scans ==
    /\ MaxTargets \in Nat \ {0} /\ KeyScan \in Nat \ {0} /\ TimerScan \in Nat \ {0}
    /\ MaxWaiters \in Nat /\ MaxFaults \in Nat
BY SourcesAssumption

LEMMA PageFirst ==
    ASSUME NEW S, S \subseteq Nat \ {0}, S # {}, NEW k \in Nat \ {0}
    PROVE  PageAfter(S, 0, k) # {} /\ PageAfter(S, 0, k) \subseteq S
<1>1. PICK m \in S : \A y \in S : m <= y
    BY LeastExists
<1>2. m \in Nat /\ 0 < m /\ \A y \in S : y \in Nat /\ ~(y < m)
    BY <1>1
<1>3. {y \in S : 0 < y /\ y < m} = {}
    BY <1>2
<1>4. Cardinality({y \in S : 0 < y /\ y < m}) < k
    BY <1>3, FS_EmptySet
<1>5. m \in PageAfter(S, 0, k)
    BY <1>1, <1>2, <1>4 DEF PageAfter
<1>6. QED
    BY <1>5 DEF PageAfter

LEMMA AtMostOne ==
    ASSUME NEW S, \A x, y \in S : x = y
    PROVE  Cardinality(S) <= 1
<1>1. CASE S = {}
    BY <1>1, FS_EmptySet
<1>2. CASE S # {}
    <2>1. PICK x \in S : TRUE
        BY <1>2
    <2>2. S = {x}
        BY <2>1
    <2>3. QED
        BY <2>2, FS_Singleton
<1>3. QED
    BY <1>1, <1>2

(* A source that has a pending Wait has something to select, and of what   *)
(* is consumed once at most one.                                           *)
LEMMA SelectGood ==
    ASSUME NEW a \in Activations, Pending(Fires[a]) # {}
    PROVE  GoodTargets(a, Select(Fires[a])) /\ Select(Fires[a]) \in SUBSET Waits
<1> DEFINE s == Fires[a]
           k == IF s \in Timers THEN 1 ELSE MaxTargets
           page == PageAfter(Pending(s), 0, k)
<1>1. k \in Nat \ {0}
    BY Scans
<1>2. Pending(s) \subseteq Waits /\ Waits \subseteq Nat \ {0}
    BY SourcesAssumption DEF Pending
<1>3. page # {} /\ page \subseteq Pending(s)
    <2> HIDE DEF k
    <2>1. QED
        BY <1>1, <1>2, PageFirst
<1>4. Select(s) = {w \in page : w \in Once => \A v \in page \cap Once : w <= v}
    BY DEF Select
<1> HIDE DEF page
<1>5. Select(s) # {}
    <2>1. CASE page \cap Once = {}
        BY <2>1, <1>3, <1>4
    <2>2. CASE page \cap Once # {}
        <3>1. page \cap Once \subseteq Nat
            BY <1>2, <1>3
        <3>2. Min(page \cap Once) \in page \cap Once /\ \A v \in page \cap Once : Min(page \cap Once) <= v
            BY <2>2, <3>1, MinFacts
        <3>3. QED
            BY <3>2, <1>4
    <2>3. QED
        BY <2>1, <2>2
<1>6. \A w \in Select(s) : w \in Waits /\ SourceOf[w] = s
    BY <1>3, <1>4 DEF Pending
<1>7. \A w, v \in Select(s) \cap Once : w = v
    <2> SUFFICES ASSUME NEW w \in Select(s) \cap Once, NEW v \in Select(s) \cap Once PROVE w = v
        OBVIOUS
    <2>1. w <= v /\ v <= w
        BY <1>4
    <2>2. w \in Nat /\ v \in Nat
        BY <1>2, <1>6
    <2>3. QED
        BY <2>1, <2>2
<1>8. Cardinality(Select(s) \cap Once) <= 1
    BY <1>7, AtMostOne
<1>9. QED
    BY <1>5, <1>6, <1>8 DEF GoodTargets

-----------------------------------------------------------------------------
(* What no step takes back.                                                *)

RowsGrow ==
    \A a \in Activations :
        /\ row[a].stored => row'[a].stored /\ row'[a].value = row[a].value
        /\ row[a].selected # {} => row'[a].selected = row[a].selected
        /\ row[a].acked => row'[a].acked

ReceiptsGrow == \A a \in Activations : receipt[a] # NoReceipt => receipt'[a] = receipt[a]

WaitsGrow ==
    \A w \in Waits : wait[w].state \in {"Completed", "Cancelled"} => wait'[w] = wait[w]

Final == RowsGrow /\ ReceiptsGrow /\ WaitsGrow

SameHands(f) ==
    /\ driver' \in [Drivers -> DriverRecord]
    /\ \A d \in Drivers : /\ driver'[d].at = f[d].at /\ driver'[d].activation = f[d].activation
                          /\ driver'[d].targets = f[d].targets

LEMMA HeadMovedHands ==
    ASSUME NEW f \in [Drivers -> DriverRecord], HeadMoved(f)
    PROVE  SameHands(f)
<1>1. driver' = [d \in Drivers |->
                    [f[d] EXCEPT !.pinned = FALSE,
                                 !.cursor = IF d \in HttpDrivers THEN None ELSE f[d].cursor]]
    BY DEF HeadMoved
<1>2. \A d \in Drivers : (IF d \in HttpDrivers THEN None ELSE f[d].cursor) \in Nat
    BY DEF DriverRecord, None
<1>3. QED
    BY <1>1, <1>2, ZenonT(60) DEF SameHands, DriverRecord

LEMMA HandsKept ==
    ASSUME Delivering, SameHands(driver), RowsGrow, ReceiptsGrow
    PROVE  Delivering'
<1> SUFFICES ASSUME NEW d \in Drivers PROVE Holds(driver[d])'
    BY DEF Delivering
<1>1. Holds(driver[d])
    BY DEF Delivering
<1>2. /\ driver'[d].at = driver[d].at /\ driver'[d].activation = driver[d].activation
      /\ driver'[d].targets = driver[d].targets
    BY DEF SameHands
<1>3. QED
    BY <1>1, <1>2 DEF Holds, RowsGrow, ReceiptsGrow, GoodTargets

(* A step of drivers alone.                                                *)
LEMMA DriverStep ==
    ASSUME Inv, driver' \in [Drivers -> DriverRecord], \A d \in Drivers : Holds(driver'[d]),
           faults' \in 0..MaxFaults,
           UNCHANGED <<online, row, due, storeVars, httpVars>>
    PROVE  Inv' /\ Final
<1>1. UNCHANGED <<online, row, due, wait, run, fenced, receipt, handler, waiters, waiterCount, accepted>>
    BY DEF storeVars, httpVars
<1>2. WaitTypeOK'
    BY <1>1 DEF Inv, WaitTypeOK
<1>3. Delivering'
    BY <1>1 DEF Delivering, Holds
<1>4. RowsDecided' /\ Serving' /\ Won' /\ Parked'
    BY <1>1 DEF Inv, RowsDecided, Serving, Won, Parked, WaitsOf
<1>5. Final
    BY <1>1 DEF Final, RowsGrow, ReceiptsGrow, WaitsGrow
<1>6. QED
    BY <1>2, <1>3, <1>4, <1>5 DEF Inv

(* A step of one driver.                                                   *)
LEMMA OneDriverStep ==
    ASSUME Inv, NEW d \in Drivers, driver' = [driver EXCEPT ![d] = driver'[d]],
           driver'[d] \in DriverRecord, Holds(driver'[d]),
           UNCHANGED <<online, row, due, storeVars, httpVars, faults>>
    PROVE  Inv' /\ Final
<1>1. driver' \in [Drivers -> DriverRecord] /\ \A e \in Drivers \ {d} : driver'[e] = driver[e]
    BY DEF Inv, WaitTypeOK
<1>2. \A e \in Drivers : Holds(driver'[e])
    BY <1>1 DEF Inv, Delivering
<1>3. faults' \in 0..MaxFaults
    BY DEF Inv, WaitTypeOK
<1>4. QED
    BY <1>1, <1>2, <1>3, DriverStep

LEMMA RestingFacts ==
    ASSUME NEW c \in Nat
    PROVE  Resting(c) \in DriverRecord /\ Resting(c).at = "Idle"
BY DEF Resting, DriverRecord, None

LEMMA NothingStep ==
    ASSUME Inv, NEW d \in Drivers, NEW c \in Nat, Nothing(d, c),
           UNCHANGED <<online, row, due, storeVars, httpVars, faults>>
    PROVE  Inv' /\ Final
<1>1. driver' = [driver EXCEPT ![d] = Resting(c)] /\ driver \in [Drivers -> DriverRecord]
    BY DEF Nothing, Inv, WaitTypeOK
<1>2. driver'[d] = Resting(c)
    BY <1>1
<1>3. driver'[d] \in DriverRecord /\ driver'[d].at = "Idle"
    BY <1>2, RestingFacts
<1>4. Holds(driver'[d])
    BY <1>3 DEF Holds
<1>5. driver' = [driver EXCEPT ![d] = driver'[d]]
    BY <1>1, <1>2
<1>6. QED
    BY <1>3, <1>4, <1>5, OneDriverStep

-----------------------------------------------------------------------------
(* The calls of a driver.                                                  *)

LEMMA RowsOfFacts ==
    ASSUME NEW d
    PROVE  /\ RowsOf(d) \subseteq Activations \ Direct /\ SignalRows \subseteq Activations \ Direct
           /\ TimerRows \subseteq Activations \ Direct /\ Activations \subseteq Nat
           /\ RetainedRows(d) \subseteq RowsOf(d) /\ FreshRows(d) \subseteq RowsOf(d)
BY SourcesAssumption DEF RowsOf, TimerRows, SignalRows, RetainedRows, FreshRows

LEMMA PollStep == ASSUME Inv, NEW d \in Drivers, Poll(d) PROVE Inv' /\ Final
<1> DEFINE R == RetainedRows(d)
           a == Min(R)
<1>1. /\ driver \in [Drivers -> DriverRecord] /\ row \in [Activations -> RowRecord]
      /\ UNCHANGED <<online, row, due, storeVars, httpVars, faults>>
    BY DEF Inv, WaitTypeOK, Poll
<1>2. CASE R = {}
    <2>1. driver' = [driver EXCEPT ![d] = [driver[d] EXCEPT !.at = "Scanning", !.pinned = TRUE]]
        BY <1>2 DEF Poll
    <2>2. driver'[d] \in DriverRecord /\ driver'[d].at = "Scanning"
        BY <1>1, <2>1 DEF DriverRecord
    <2>3. driver' = [driver EXCEPT ![d] = driver'[d]] /\ Holds(driver'[d])
        BY <1>1, <2>1, <2>2 DEF Holds
    <2>4. QED
        BY <1>1, <2>2, <2>3, OneDriverStep
<1>3. CASE R # {}
    <2>1. a \in R
        BY <1>3, RowsOfFacts, MinFacts
    <2>2. driver' = [driver EXCEPT ![d] = [driver[d] EXCEPT !.at = "Received", !.pinned = TRUE,
                                                            !.activation = a,
                                                            !.targets = row[a].selected]]
        BY <1>3 DEF Poll
    <2>3. a \in Activations \ Direct /\ row[a].stored /\ row[a].selected # {}
        BY <2>1, RowsOfFacts DEF RetainedRows, Open
    <2> HIDE DEF a
    <2>4. row[a].selected \in SUBSET Waits /\ GoodTargets(a, row[a].selected)
        BY <1>1, <2>3 DEF RowRecord, Inv, RowsDecided
    <2>5. /\ driver'[d] \in DriverRecord /\ driver'[d].at = "Received"
          /\ driver'[d].activation = a /\ driver'[d].targets = row[a].selected
        BY <1>1, <2>2, <2>3, <2>4 DEF DriverRecord
    <2>6. driver' = [driver EXCEPT ![d] = driver'[d]]
        BY <1>1, <2>2
    <2>7. Holds(driver'[d])
        BY <2>3, <2>4, <2>5 DEF Holds
    <2>8. QED
        BY <1>1, <2>5, <2>6, <2>7, OneDriverStep
<1>4. QED
    BY <1>2, <1>3

LEMMA SelectingStep ==
    ASSUME Inv, NEW d \in Drivers, NEW a \in FreshRows(d), NEW c \in Nat, Selecting(d, a, c),
           Pending(Fires[a]) # {}, UNCHANGED <<online, row, due, storeVars, httpVars, faults>>
    PROVE  Inv' /\ Final
<1>1. driver \in [Drivers -> DriverRecord]
    BY DEF Inv, WaitTypeOK
<1>2. a \in Activations \ Direct /\ row[a].stored
    BY RowsOfFacts DEF FreshRows, Open
<1>3. PICK T \in SUBSET Waits : T = Select(Fires[a]) /\ GoodTargets(a, T)
    BY <1>2, SelectGood
<1>4. driver' = [driver EXCEPT ![d].at = "Selected", ![d].activation = a,
                               ![d].targets = T, ![d].cursor = c]
    BY <1>3 DEF Selecting
<1>5. /\ driver'[d] \in DriverRecord /\ driver'[d].at = "Selected"
      /\ driver'[d].activation = a /\ driver'[d].targets = T
    BY <1>1, <1>2, <1>4 DEF DriverRecord
<1>6. driver' = [driver EXCEPT ![d] = driver'[d]]
    BY <1>1, <1>4
<1>7. Holds(driver'[d])
    BY <1>2, <1>3, <1>5 DEF Holds
<1>8. QED
    BY <1>5, <1>6, <1>7, OneDriverStep

(* Every cursor a scan keeps is a member of what it scanned.               *)
LEMMA KeysFinite ==
    /\ {SourceOf[w] : w \in Waits} \subseteq Nat /\ IsFiniteSet({SourceOf[w] : w \in Waits})
<1>1. SourceOf \in [Waits -> Nat \ {0}] /\ IsFiniteSet(Waits)
    BY SourcesAssumption
<1>2. SourceOf \in Surjection(Waits, {SourceOf[w] : w \in Waits})
    BY <1>1 DEF Surjection
<1>3. QED
    BY <1>1, <1>2, FS_Surjection

LEMMA ScanSignalsStep ==
    ASSUME Inv, NEW d \in Drivers, ScanSignals(d),
           UNCHANGED <<online, row, due, storeVars, httpVars, faults>>
    PROVE  Inv' /\ Final
<1> DEFINE all == {SourceOf[w] : w \in Waits}
           keys == {s \in all \ Timers : Pending(s) # {}}
           seen == PageAfter(keys, driver[d].cursor, KeyScan)
           hits == {s \in seen : \E a \in FreshRows(d) : Fires[a] = s}
           After(s) == IF s = Max(keys) THEN None ELSE s
<1>1. /\ hits # {} =>
            Selecting(d, Min({a \in FreshRows(d) : Fires[a] = Min(hits)}), After(Min(hits)))
      /\ hits = {} => Nothing(d, IF seen = {} THEN None ELSE After(Max(seen)))
    BY DEF ScanSignals
<1>2. all \subseteq Nat /\ IsFiniteSet(all)
    BY KeysFinite
<1>3. seen \subseteq keys
    BY DEF PageAfter
<1>4. keys \subseteq all /\ \A s \in keys : Pending(s) # {}
    OBVIOUS
<1>5. \A s \in Nat : After(s) \in Nat
    BY DEF None
<1> HIDE DEF all, keys, seen, After
<1>6. CASE hits # {}
    <2>1. hits \subseteq Nat /\ hits \subseteq keys
        BY <1>2, <1>3, <1>4
    <2>2. PICK s \in hits : s = Min(hits)
        BY <1>6, <2>1, MinFacts
    <2>3. {a \in FreshRows(d) : Fires[a] = s} # {}
        BY <2>2
    <2>4. {a \in FreshRows(d) : Fires[a] = s} \subseteq Nat
        BY RowsOfFacts
    <2>5. PICK a \in {b \in FreshRows(d) : Fires[b] = s} : a = Min({b \in FreshRows(d) : Fires[b] = s})
        BY <2>3, <2>4, MinFacts
    <2>6. Selecting(d, a, After(s))
        BY <1>1, <1>6, <2>2, <2>5
    <2>7. a \in FreshRows(d) /\ Fires[a] = s /\ Pending(s) # {} /\ After(s) \in Nat
        BY <1>4, <1>5, <2>1, <2>2, <2>5
    <2>8. QED
        BY <2>6, <2>7, SelectingStep
<1>7. CASE hits = {}
    <2>1. PICK c : c = IF seen = {} THEN None ELSE After(Max(seen))
        OBVIOUS
    <2>2. c \in Nat
        <3>1. CASE seen = {}
            BY <3>1, <2>1 DEF None
        <3>2. CASE seen # {}
            <4>1. seen \subseteq Nat /\ seen \in SUBSET all
                BY <1>2, <1>3, <1>4
            <4>2. IsFiniteSet(seen)
                BY <4>1, <1>2, FS_Subset
            <4>3. Max(seen) \in Nat
                BY <3>2, <4>1, <4>2, MaxFacts
            <4>4. QED
                BY <3>2, <4>3, <2>1, <1>5
        <3>3. QED
            BY <3>1, <3>2
    <2>3. Nothing(d, c)
        BY <1>1, <1>7, <2>1
    <2>4. QED
        BY <2>2, <2>3, NothingStep
<1>8. QED
    BY <1>6, <1>7

LEMMA ScanTimersStep ==
    ASSUME Inv, NEW d \in Drivers, ScanTimers(d),
           UNCHANGED <<online, row, due, storeVars, httpVars, faults>>
    PROVE  Inv' /\ Final
<1> DEFINE page == PageAfter(FreshRows(d), driver[d].cursor, TimerScan)
           hits == {a \in page : Pending(Fires[a]) # {}}
<1>1. /\ hits # {} => Selecting(d, Min(hits), Min(hits))
      /\ hits = {} => Nothing(d, TimerCursor(page, driver[d].cursor))
    BY DEF ScanTimers
<1>2. page \subseteq FreshRows(d) /\ FreshRows(d) \subseteq Activations /\ Activations \subseteq Nat
    BY RowsOfFacts DEF PageAfter
<1> HIDE DEF page
<1>3. CASE hits # {}
    <2>1. hits \subseteq Nat
        BY <1>2
    <2>2. PICK a \in hits : a = Min(hits)
        BY <1>3, <2>1, MinFacts
    <2>3. Selecting(d, a, a) /\ a \in FreshRows(d) /\ a \in Nat /\ Pending(Fires[a]) # {}
        BY <1>1, <1>2, <1>3, <2>2
    <2>4. QED
        BY <2>3, SelectingStep
<1>4. CASE hits = {}
    <2>1. PICK c : c = TimerCursor(page, driver[d].cursor)
        OBVIOUS
    <2>2. c \in Nat
        <3>1. CASE page = {} \/ Cardinality(page) < TimerScan
            BY <3>1, <2>1 DEF TimerCursor, None
        <3>2. CASE ~(page = {} \/ Cardinality(page) < TimerScan)
            <4>1. IsFiniteSet(Activations) /\ page \in SUBSET Activations
                BY <1>2, SourcesAssumption
            <4>2. IsFiniteSet(page)
                BY <4>1, FS_Subset
            <4>3. Max(page) \in Nat
                BY <3>2, <4>2, <1>2, MaxFacts
            <4>4. QED
                BY <3>2, <4>3, <2>1 DEF TimerCursor
        <3>3. QED
            BY <3>1, <3>2
    <2>3. QED
        BY <1>1, <1>4, <2>1, <2>2, NothingStep
<1>5. QED
    BY <1>3, <1>4

LEMMA ReplayStep == ASSUME Inv, NEW d \in Drivers, Replay(d) PROVE Inv' /\ Final
<1>1. /\ driver[d].at = "Received" /\ receipt[driver[d].activation] # NoReceipt
      /\ driver' = [driver EXCEPT ![d].at = "Admitted"]
      /\ UNCHANGED <<online, row, due, storeVars, httpVars, faults>>
    BY DEF Replay, Receive
<1>2. driver \in [Drivers -> DriverRecord] /\ Holds(driver[d])
    BY DEF Inv, WaitTypeOK, Delivering
<1>3. /\ driver'[d] \in DriverRecord /\ driver'[d].at = "Admitted"
      /\ driver'[d].activation = driver[d].activation /\ driver'[d].targets = driver[d].targets
    BY <1>1, <1>2 DEF DriverRecord
<1>4. driver' = [driver EXCEPT ![d] = driver'[d]]
    BY <1>1, <1>2
<1>5. Holds(driver'[d])
    BY <1>1, <1>2, <1>3 DEF Holds
<1>6. QED
    BY <1>1, <1>3, <1>4, <1>5, OneDriverStep

LEMMA LoseRaceStep == ASSUME Inv, NEW d \in Drivers, LoseRace(d) PROVE Inv' /\ Final
<1>1. driver[d].cursor \in Nat
    BY DEF Inv, WaitTypeOK, DriverRecord
<1>2. QED
    BY <1>1, NothingStep DEF LoseRace

LEMMA RefuseStep == ASSUME Inv, NEW d \in Drivers, Refuse(d) PROVE Inv' /\ Final
<1>1. driver[d].cursor \in Nat
    BY DEF Inv, WaitTypeOK, DriverRecord
<1>2. QED
    BY <1>1, NothingStep DEF Refuse

LEMMA OtherCommitStep == ASSUME Inv, OtherCommit PROVE Inv' /\ Final
<1>1. HeadMoved(driver) /\ faults < MaxFaults /\ faults' = faults + 1
      /\ UNCHANGED <<online, row, due, storeVars, httpVars>>
    BY DEF OtherCommit
<1>2. driver \in [Drivers -> DriverRecord] /\ faults' \in 0..MaxFaults
    BY <1>1, Scans DEF Inv, WaitTypeOK
<1>3. SameHands(driver)
    BY <1>1, <1>2, HeadMovedHands
<1>4. \A d \in Drivers : Holds(driver'[d])
    BY <1>3 DEF SameHands, Holds, Inv, Delivering
<1>5. QED
    BY <1>1, <1>2, <1>3, <1>4, DriverStep DEF SameHands

-----------------------------------------------------------------------------
(* Steps that write the spool.                                             *)

(* A row is stored, selected for or acknowledged: nothing it said changes. *)
RowStep(a) ==
    /\ row' \in [Activations -> RowRecord]
    /\ \A b \in Activations \ {a} : row'[b] = row[b]
    /\ row[a].stored => row'[a].stored /\ row'[a].value = row[a].value
    /\ row[a].selected # {} => row'[a].selected = row[a].selected
    /\ row[a].acked => row'[a].acked
    /\ row'[a].selected # {} => GoodTargets(a, row'[a].selected) /\ row'[a].stored
    /\ row'[a].acked => receipt[a] # NoReceipt

LEMMA RowStepGrows ==
    ASSUME Inv, NEW a \in Activations \ Direct, RowStep(a), UNCHANGED <<receipt, wait>>
    PROVE  /\ Final
           /\ \A b \in Activations \ Direct :
                 /\ row'[b].selected # {} => GoodTargets(b, row'[b].selected) /\ row'[b].stored
                 /\ row'[b].acked => receipt'[b] # NoReceipt
                 /\ receipt'[b] # NoReceipt =>
                       /\ row'[b].selected # {} /\ receipt'[b].targets = row'[b].selected
                       /\ receipt'[b].value = row'[b].value
           /\ \A av \in accepted : row'[av[1]].acked /\ row'[av[1]].value = av[2]
<1>1. Final
    BY DEF Final, RowStep, RowsGrow, ReceiptsGrow, WaitsGrow
<1>2. RowsDecided /\ accepted \subseteq SignalRows \X Values
    BY DEF Inv, WaitTypeOK
<1>3. ASSUME NEW b \in Activations \ Direct
      PROVE  /\ row'[b].selected # {} => GoodTargets(b, row'[b].selected) /\ row'[b].stored
             /\ row'[b].acked => receipt'[b] # NoReceipt
             /\ receipt'[b] # NoReceipt =>
                   /\ row'[b].selected # {} /\ receipt'[b].targets = row'[b].selected
                   /\ receipt'[b].value = row'[b].value
    <2>1. CASE b # a
        BY <2>1, <1>2 DEF RowsDecided, RowStep
    <2>2. CASE b = a
        BY <2>2, <1>2 DEF RowsDecided, RowStep
    <2>3. QED
        BY <2>1, <2>2
<1>4. ASSUME NEW av \in accepted PROVE row'[av[1]].acked /\ row'[av[1]].value = av[2]
    <2>1. av[1] \in Activations \ Direct
        BY <1>2, RowsOfFacts
    <2>2. row[av[1]].acked /\ row[av[1]].value = av[2]
        BY <1>2 DEF RowsDecided
    <2>3. row[av[1]].stored
        BY <2>1, <2>2, <1>2 DEF RowsDecided
    <2>4. QED
        BY <2>1, <2>2, <2>3 DEF RowStep
<1>5. QED
    BY <1>1, <1>3, <1>4

LEMMA RequestsKept ==
    ASSUME Serving, RowsGrow, NEW h \in Handlers, handler[h].at # "Idle"
    PROVE  /\ handler[h].activation \in SignalRows /\ handler[h].value \in Values
           /\ row'[handler[h].activation].stored
           /\ row'[handler[h].activation].value = handler[h].value
BY RowsOfFacts DEF Serving, RowsGrow

(* The selection is written at most once, and the row is what is handed    *)
(* over.                                                                   *)
LEMMA RetainStep == ASSUME Inv, NEW d \in Drivers, Retain(d) PROVE Inv' /\ Final
<1> DEFINE a == driver[d].activation
           kept == IF MayRetain(a) THEN driver[d].targets ELSE row[a].selected
<1>1. /\ driver[d].at = "Selected" /\ row' = [row EXCEPT ![a].selected = kept]
      /\ IF row[a].acked THEN Nothing(d, driver[d].cursor) ELSE Handed(d, a, kept)
      /\ UNCHANGED <<online, due, wait, run, fenced, receipt, handler, waiters, waiterCount, accepted, faults>>
    BY DEF Retain, storeVars, httpVars
<1>2. WaitTypeOK /\ Delivering /\ RowsDecided /\ Serving /\ Won /\ Parked
    BY DEF Inv
<1>3. driver \in [Drivers -> DriverRecord] /\ row \in [Activations -> RowRecord]
      /\ driver[d] \in DriverRecord
    BY <1>2 DEF WaitTypeOK
<1>4. a \in Activations \ Direct /\ row[a].stored /\ GoodTargets(a, driver[d].targets)
    BY <1>1, <1>2 DEF Delivering, Holds
<1>5. /\ kept \in SUBSET Waits /\ (row[a].selected # {} => kept = row[a].selected)
      /\ (kept # {} => GoodTargets(a, kept)) /\ (~row[a].acked => kept # {})
    <2>1. driver[d].targets \in SUBSET Waits /\ row[a].selected \in SUBSET Waits
        BY <1>3, <1>4 DEF DriverRecord, RowRecord
    <2>2. CASE MayRetain(a)
        BY <2>1, <2>2, <1>4 DEF MayRetain, GoodTargets
    <2>3. CASE ~MayRetain(a)
        BY <2>1, <2>3, <1>2, <1>4 DEF MayRetain, RowsDecided
    <2>4. QED
        BY <2>2, <2>3
<1> HIDE DEF kept, a
<1>6. RowStep(a) /\ row'[a].selected = kept
    <2>1. row' \in [Activations -> RowRecord]
        BY <1>1, <1>3, <1>4, <1>5 DEF RowRecord
    <2>2. /\ row'[a].selected = kept /\ row'[a].stored = row[a].stored
          /\ row'[a].value = row[a].value /\ row'[a].acked = row[a].acked
          /\ \A b \in Activations \ {a} : row'[b] = row[b]
        BY <1>1, <1>3, <1>4 DEF RowRecord
    <2>3. QED
        BY <2>1, <2>2, <1>2, <1>4, <1>5 DEF RowStep, RowsDecided
<1>7. Final /\ RowsDecided'
    BY <1>1, <1>4, <1>6, RowStepGrows DEF RowsDecided
<1>8. /\ driver' \in [Drivers -> DriverRecord]
      /\ \A e \in Drivers \ {d} : driver'[e] = driver[e]
      /\ \/ driver'[d].at = "Idle"
         \/ /\ driver'[d].at = "Received" /\ driver'[d].activation = a /\ driver'[d].targets = kept
            /\ ~row[a].acked
    <2>1. CASE row[a].acked
        <3>1. PICK c \in Nat : c = driver[d].cursor
            BY <1>3 DEF DriverRecord
        <3>2. driver' = [driver EXCEPT ![d] = Resting(c)]
            BY <2>1, <3>1, <1>1 DEF Nothing
        <3>3. QED
            BY <3>2, <1>3, RestingFacts
    <2>2. CASE ~row[a].acked
        BY <2>2, <1>1, <1>3, <1>4, <1>5 DEF Handed, DriverRecord
    <2>3. QED
        BY <2>1, <2>2
<1>9. Delivering'
    <2> SUFFICES ASSUME NEW e \in Drivers PROVE Holds(driver[e])'
        BY DEF Delivering
    <2>1. CASE e # d
        <3>1. Holds(driver[e]) /\ driver'[e] = driver[e]
            BY <2>1, <1>2, <1>8 DEF Delivering
        <3>2. QED
            BY <3>1, <1>7 DEF Holds, GoodTargets, Final, RowsGrow, ReceiptsGrow
    <2>2. CASE e = d
        BY <2>2, <1>4, <1>5, <1>6, <1>8 DEF Holds, GoodTargets, RowStep
    <2>3. QED
        BY <2>1, <2>2
<1>10. WaitTypeOK'
    BY <1>1, <1>2, <1>6, <1>8 DEF WaitTypeOK, RowStep
<1>11. Serving'
    BY <1>1, <1>2, <1>7, RequestsKept DEF Serving, Final
<1>12. Won' /\ Parked'
    BY <1>1, <1>2 DEF Won, Parked, WaitsOf
<1>13. QED
    BY <1>7, <1>9, <1>10, <1>11, <1>12 DEF Inv

(* Waiters that are taken out are taken off the count.                     *)
LEMMA WaitersLess ==
    ASSUME NEW S, IsFiniteSet(S), NEW T \in SUBSET S
    PROVE  /\ IsFiniteSet(S \ T) /\ Cardinality(S \ T) = Cardinality(S) - Cardinality(T)
           /\ Cardinality(S \ T) \in Nat
<1>1. S \cap T = T
    OBVIOUS
<1>2. QED
    BY <1>1, FS_Difference, FS_CardinalityType

LEMMA AcknowledgeStep == ASSUME Inv, NEW d \in Drivers, Acknowledge(d) PROVE Inv' /\ Final
<1> DEFINE a == driver[d].activation
           told == IF d \in TimerDrivers THEN {}
                   ELSE {h \in waiters[d] : handler[h].activation = a}
<1>1. /\ driver[d].at = "Admitted" /\ row' = [row EXCEPT ![a].acked = TRUE]
      /\ driver' = [driver EXCEPT ![d] = Resting(driver[d].cursor)]
      /\ waiters' = [e \in HttpDrivers |-> IF e = d THEN waiters[e] \ told ELSE waiters[e]]
      /\ waiterCount' = [e \in HttpDrivers |->
                            IF e = d THEN waiterCount[e] - Cardinality(told) ELSE waiterCount[e]]
      /\ UNCHANGED <<online, due, wait, run, fenced, receipt, handler, accepted, faults>>
    BY DEF Acknowledge, storeVars
<1>2. WaitTypeOK /\ Delivering /\ RowsDecided /\ Serving /\ Won /\ Parked
    BY DEF Inv
<1>3. driver \in [Drivers -> DriverRecord] /\ row \in [Activations -> RowRecord]
      /\ driver[d] \in DriverRecord
    BY <1>2 DEF WaitTypeOK
<1>4. /\ a \in Activations \ Direct /\ receipt[a] # NoReceipt
    BY <1>1, <1>2 DEF Delivering, Holds
<1>5. d \in HttpDrivers => told \in SUBSET waiters[d]
    OBVIOUS
<1> HIDE DEF told, a
<1>6. RowStep(a)
    <2>1. row' \in [Activations -> RowRecord]
        BY <1>1, <1>3, <1>4 DEF RowRecord
    <2>2. /\ row'[a].selected = row[a].selected /\ row'[a].stored = row[a].stored
          /\ row'[a].value = row[a].value /\ row'[a].acked
          /\ \A b \in Activations \ {a} : row'[b] = row[b]
        BY <1>1, <1>3, <1>4 DEF RowRecord
    <2>3. QED
        BY <2>1, <2>2, <1>2, <1>4 DEF RowStep, RowsDecided
<1>7. Final /\ RowsDecided'
    BY <1>1, <1>4, <1>6, RowStepGrows DEF RowsDecided
<1>8. /\ driver' \in [Drivers -> DriverRecord]
      /\ \A e \in Drivers \ {d} : driver'[e] = driver[e]
      /\ driver'[d].at = "Idle"
    <2>1. PICK c \in Nat : c = driver[d].cursor
        BY <1>3 DEF DriverRecord
    <2>2. driver' = [driver EXCEPT ![d] = Resting(c)]
        BY <2>1, <1>1
    <2>3. QED
        BY <2>2, <1>3, RestingFacts
<1>9. Delivering'
    <2> SUFFICES ASSUME NEW e \in Drivers PROVE Holds(driver[e])'
        BY DEF Delivering
    <2>1. CASE e # d
        <3>1. Holds(driver[e]) /\ driver'[e] = driver[e]
            BY <2>1, <1>2, <1>8 DEF Delivering
        <3>2. QED
            BY <3>1, <1>7 DEF Holds, GoodTargets, Final, RowsGrow, ReceiptsGrow
    <2>2. CASE e = d
        BY <2>2, <1>8 DEF Holds
    <2>3. QED
        BY <2>1, <2>2
<1>10. \A e \in HttpDrivers :
          /\ IsFiniteSet(waiters'[e]) /\ waiters'[e] \subseteq waiters[e]
          /\ waiterCount'[e] = Cardinality(waiters'[e]) /\ waiterCount'[e] \in Nat
    <2> SUFFICES ASSUME NEW e \in HttpDrivers
                 PROVE  /\ IsFiniteSet(waiters'[e]) /\ waiters'[e] \subseteq waiters[e]
                        /\ waiterCount'[e] = Cardinality(waiters'[e]) /\ waiterCount'[e] \in Nat
        OBVIOUS
    <2>1. /\ IsFiniteSet(waiters[e]) /\ waiterCount[e] = Cardinality(waiters[e])
          /\ waiterCount[e] \in Nat
        BY <1>2 DEF Serving, WaitTypeOK
    <2>2. CASE e # d
        BY <2>1, <2>2, <1>1
    <2>3. CASE e = d
        <3>1. waiters'[e] = waiters[e] \ told /\ waiterCount'[e] = waiterCount[e] - Cardinality(told)
            BY <2>3, <1>1
        <3>2. told \in SUBSET waiters[e]
            BY <2>3, <1>5
        <3>3. QED
            BY <3>1, <3>2, <2>1, WaitersLess
    <2>4. QED
        BY <2>2, <2>3
<1>11. /\ waiters' \in [HttpDrivers -> SUBSET Handlers] /\ waiterCount' \in [HttpDrivers -> Nat]
    <2>1. waiters \in [HttpDrivers -> SUBSET Handlers]
        BY <1>2 DEF WaitTypeOK
    <2>2. \A e \in HttpDrivers : waiters'[e] \in SUBSET Handlers
        BY <2>1, <1>10
    <2>3. DOMAIN waiters' = HttpDrivers /\ DOMAIN waiterCount' = HttpDrivers
        BY <1>1
    <2>4. waiters' = [e \in HttpDrivers |-> waiters'[e]]
          /\ waiterCount' = [e \in HttpDrivers |-> waiterCount'[e]]
        BY <1>1
    <2>5. QED
        BY <2>2, <2>4, <1>10
<1>12. WaitTypeOK'
    BY <1>1, <1>2, <1>6, <1>8, <1>10, <1>11 DEF WaitTypeOK, RowStep
<1>13. Serving'
    BY <1>1, <1>2, <1>7, <1>10, RequestsKept, ZenonT(60) DEF Serving, Final
<1>14. Won' /\ Parked'
    BY <1>1, <1>2 DEF Won, Parked, WaitsOf
<1>15. QED
    BY <1>7, <1>9, <1>12, <1>13, <1>14 DEF Inv

(* The process ends: what it was doing is gone, the databases stay.        *)
LEMMA CrashStep == ASSUME Inv, NEW d \in Drivers, Crash(d) PROVE Inv' /\ Final
<1>1. /\ faults < MaxFaults /\ faults' = faults + 1
      /\ driver' = [driver EXCEPT ![d] = Resting(None)]
      /\ handler' = [h \in Handlers |-> IF HomeOf[h] = d THEN NoRequest ELSE handler[h]]
      /\ waiters' = [e \in HttpDrivers |-> IF e = d THEN {} ELSE waiters[e]]
      /\ waiterCount' = [e \in HttpDrivers |-> IF e = d THEN 0 ELSE waiterCount[e]]
      /\ UNCHANGED <<online, row, due, wait, run, fenced, receipt, accepted>>
    BY DEF Crash, storeVars
<1>2. WaitTypeOK /\ Delivering /\ RowsDecided /\ Serving /\ Won /\ Parked
    BY DEF Inv
<1>3. faults' \in 0..MaxFaults
    BY <1>1, <1>2, Scans DEF WaitTypeOK
<1>4. NoRequest \in HandlerRecord /\ NoRequest.at = "Idle"
    BY DEF NoRequest, HandlerRecord
<1>5. /\ driver' \in [Drivers -> DriverRecord]
      /\ \A e \in Drivers \ {d} : driver'[e] = driver[e]
      /\ driver'[d].at = "Idle"
    <2>1. PICK c \in Nat : c = None
        BY DEF None
    <2>2. driver' = [driver EXCEPT ![d] = Resting(c)] /\ driver \in [Drivers -> DriverRecord]
        BY <2>1, <1>1, <1>2 DEF WaitTypeOK
    <2>3. QED
        BY <2>2, RestingFacts
<1>6. Delivering'
    BY <1>1, <1>2, <1>5 DEF Delivering, Holds
<1>7. WaitTypeOK'
    <2>1. handler' \in [Handlers -> HandlerRecord]
        BY <1>1, <1>2, <1>4 DEF WaitTypeOK
    <2>2. /\ waiters' \in [HttpDrivers -> SUBSET Handlers] /\ waiterCount' \in [HttpDrivers -> Nat]
          /\ \A e \in HttpDrivers : waiterCount'[e] = Cardinality(waiters'[e])
        BY <1>1, <1>2, FS_EmptySet DEF WaitTypeOK
    <2>3. QED
        BY <1>1, <1>2, <1>3, <1>5, <2>1, <2>2 DEF WaitTypeOK
<1>8. Serving'
    <2>1. \A h \in Handlers : handler'[h].at # "Idle" => handler'[h] = handler[h]
        BY <1>1, <1>4
    <2>2. \A e \in HttpDrivers : IsFiniteSet(waiters'[e])
        BY <1>1, <1>2, FS_EmptySet DEF Serving
    <2>3. \A e \in HttpDrivers : \A h \in waiters'[e] : HomeOf[h] = e /\ handler'[h].at = "Registered"
        <3> SUFFICES ASSUME NEW e \in HttpDrivers, NEW h \in waiters'[e]
                     PROVE  HomeOf[h] = e /\ handler'[h].at = "Registered"
            OBVIOUS
        <3>1. e # d /\ h \in waiters[e]
            BY <1>1
        <3>2. HomeOf[h] = e /\ handler[h].at = "Registered" /\ h \in Handlers
            BY <3>1, <1>2 DEF Serving, WaitTypeOK
        <3>3. QED
            BY <3>1, <3>2, <1>1
    <2>4. QED
        BY <1>1, <1>2, <2>1, <2>2, <2>3 DEF Serving
<1>9. RowsDecided' /\ Won' /\ Parked' /\ Final
    BY <1>1, <1>2 DEF RowsDecided, Won, Parked, WaitsOf, Final, RowsGrow, ReceiptsGrow, WaitsGrow
<1>10. QED
    BY <1>6, <1>7, <1>8, <1>9 DEF Inv

-----------------------------------------------------------------------------
(* Ingress.                                                                *)

LEMMA ScheduleStep == ASSUME Inv, NEW a \in Activations, Schedule(a) PROVE Inv' /\ Final
<1>1. /\ a \in TimerRows /\ ~row[a].stored /\ row' = [row EXCEPT ![a].stored = TRUE]
      /\ UNCHANGED <<online, due, wait, run, fenced, receipt, driver, handler, waiters, waiterCount,
                     accepted, faults>>
    BY DEF Schedule, storeVars, httpVars
<1>2. WaitTypeOK /\ Delivering /\ RowsDecided /\ Serving /\ Won /\ Parked
    BY DEF Inv
<1>3. a \in Activations \ Direct
    BY <1>1, RowsOfFacts
<1>4. RowStep(a)
    <2>1. row \in [Activations -> RowRecord]
        BY <1>2 DEF WaitTypeOK
    <2>2. row' \in [Activations -> RowRecord]
        BY <1>1, <2>1 DEF RowRecord
    <2>3. /\ row'[a].selected = row[a].selected /\ row'[a].stored
          /\ row'[a].value = row[a].value /\ row'[a].acked = row[a].acked
          /\ \A b \in Activations \ {a} : row'[b] = row[b]
        BY <1>1, <2>1 DEF RowRecord
    <2>4. QED
        BY <2>2, <2>3, <1>2, <1>3 DEF RowStep, RowsDecided
<1>5. Final /\ RowsDecided'
    BY <1>1, <1>3, <1>4, RowStepGrows DEF RowsDecided
<1>6. Delivering'
    <2>1. SameHands(driver)
        BY <1>1, <1>2 DEF SameHands, WaitTypeOK
    <2>2. QED
        BY <2>1, <1>2, <1>5, HandsKept DEF Final
<1>7. WaitTypeOK'
    BY <1>1, <1>2, <1>4 DEF WaitTypeOK, RowStep
<1>8. Serving'
    BY <1>1, <1>2, <1>5, RequestsKept DEF Serving, Final
<1>9. Won' /\ Parked'
    BY <1>1, <1>2 DEF Won, Parked, WaitsOf
<1>10. QED
    BY <1>5, <1>6, <1>7, <1>8, <1>9 DEF Inv

LEMMA FallDueStep == ASSUME Inv, NEW a \in Activations, FallDue(a) PROVE Inv' /\ Final
<1>1. /\ a \in TimerRows /\ due' = due \cup {a}
      /\ UNCHANGED <<online, row, wait, run, fenced, receipt, driver, handler, waiters, waiterCount,
                     accepted, faults>>
    BY DEF FallDue, storeVars, httpVars
<1>2. WaitTypeOK'
    BY <1>1 DEF Inv, WaitTypeOK
<1>3. Delivering' /\ RowsDecided' /\ Serving'
    BY <1>1 DEF Inv, Delivering, Holds, RowsDecided, Serving
<1>4. Won' /\ Parked' /\ Final
    BY <1>1 DEF Inv, Won, Parked, WaitsOf, Final, RowsGrow, ReceiptsGrow, WaitsGrow
<1>5. QED
    BY <1>2, <1>3, <1>4 DEF Inv

LEMMA PersistStep ==
    ASSUME Inv, NEW h \in Handlers, NEW a \in Activations, NEW v \in Values, Persist(h, a, v)
    PROVE  Inv' /\ Final
<1>1. /\ handler[h] = NoRequest /\ a \in SignalRows /\ (row[a].stored => row[a].value = v)
      /\ row' = [row EXCEPT ![a].stored = TRUE, ![a].value = v]
      /\ UNCHANGED <<online, due, wait, run, fenced, receipt, driver, waiters, waiterCount, faults>>
    BY DEF Persist, storeVars
<1>2. WaitTypeOK /\ Delivering /\ RowsDecided /\ Serving /\ Won /\ Parked
    BY DEF Inv
<1>3. a \in Activations \ Direct
    BY <1>1, RowsOfFacts
<1>4. RowStep(a) /\ row'[a].stored /\ row'[a].value = v /\ row'[a].acked = row[a].acked
    <2>1. row \in [Activations -> RowRecord]
        BY <1>2 DEF WaitTypeOK
    <2>2. row' \in [Activations -> RowRecord]
        BY <1>1, <2>1, ZenonT(60) DEF RowRecord
    <2>3. /\ row'[a].selected = row[a].selected /\ row'[a].stored
          /\ row'[a].value = v /\ row'[a].acked = row[a].acked
          /\ \A b \in Activations \ {a} : row'[b] = row[b]
        BY <1>1, <2>1 DEF RowRecord
    <2>4. QED
        BY <2>2, <2>3, <1>1, <1>2, <1>3 DEF RowStep, RowsDecided
<1>5. /\ Final
      /\ \A b \in Activations \ Direct :
            /\ row'[b].selected # {} => GoodTargets(b, row'[b].selected) /\ row'[b].stored
            /\ row'[b].acked => receipt'[b] # NoReceipt
            /\ receipt'[b] # NoReceipt =>
                  /\ row'[b].selected # {} /\ receipt'[b].targets = row'[b].selected
                  /\ receipt'[b].value = row'[b].value
      /\ \A av \in accepted : row'[av[1]].acked /\ row'[av[1]].value = av[2]
    BY <1>1, <1>3, <1>4, RowStepGrows
<1>6. Delivering'
    <2>1. SameHands(driver)
        BY <1>1, <1>2 DEF SameHands, WaitTypeOK
    <2>2. QED
        BY <2>1, <1>2, <1>5, HandsKept DEF Final
<1>7. Won' /\ Parked'
    BY <1>1, <1>2 DEF Won, Parked, WaitsOf
<1>8. handler[h].at = "Idle"
    BY <1>1 DEF NoRequest
<1>9. CASE row[a].acked
    <2>1. accepted' = accepted \cup {<<a, v>>} /\ handler' = handler
        BY <1>9 DEF Persist
    <2>2. RowsDecided'
        <3>1. \A av \in accepted' : row'[av[1]].acked /\ row'[av[1]].value = av[2]
            <4> SUFFICES ASSUME NEW av \in accepted' PROVE row'[av[1]].acked /\ row'[av[1]].value = av[2]
                OBVIOUS
            <4>1. CASE av \in accepted
                BY <4>1, <1>5
            <4>2. CASE av = <<a, v>>
                <5>1. av[1] = a /\ av[2] = v
                    BY <4>2
                <5>2. QED
                    BY <5>1, <1>4, <1>9
            <4>3. QED
                BY <4>1, <4>2, <2>1
        <3>2. QED
            BY <3>1, <1>5 DEF RowsDecided
    <2>3. WaitTypeOK'
        BY <1>1, <1>2, <1>4, <2>1 DEF WaitTypeOK, RowStep
    <2>4. Serving'
        BY <1>1, <1>2, <1>5, <2>1, RequestsKept, ZenonT(60) DEF Serving, Final
    <2>5. QED
        BY <1>5, <1>6, <1>7, <2>2, <2>3, <2>4 DEF Inv
<1>10. CASE ~row[a].acked
    <2> DEFINE x == [at |-> "Persisted", activation |-> a, value |-> v]
    <2>1. accepted' = accepted /\ handler' = [handler EXCEPT ![h] = x]
        BY <1>10 DEF Persist
    <2>2. x \in HandlerRecord /\ x.at = "Persisted" /\ x.activation = a /\ x.value = v
        BY DEF HandlerRecord
    <2> HIDE DEF x
    <2>3. handler' \in [Handlers -> HandlerRecord] /\ handler'[h] = x
          /\ \A g \in Handlers \ {h} : handler'[g] = handler[g]
        BY <1>2, <2>1, <2>2 DEF WaitTypeOK
    <2>4. RowsDecided'
        BY <1>5, <2>1 DEF RowsDecided
    <2>5. WaitTypeOK'
        BY <1>1, <1>2, <1>4, <2>1, <2>3 DEF WaitTypeOK, RowStep
    <2>6. Serving'
        <3>1. ASSUME NEW g \in Handlers, handler'[g].at # "Idle"
              PROVE  /\ handler'[g].activation \in SignalRows /\ handler'[g].value \in Values
                     /\ row'[handler'[g].activation].stored
                     /\ row'[handler'[g].activation].value = handler'[g].value
            <4>1. CASE g = h
                BY <4>1, <1>1, <1>4, <2>2, <2>3
            <4>2. CASE g # h
                <5>1. handler'[g] = handler[g]
                    BY <4>2, <2>3
                <5>2. QED
                    BY <5>1, <3>1, <1>2, <1>5, RequestsKept DEF Final
            <4>3. QED
                BY <4>1, <4>2
        <3>2. \A e \in HttpDrivers : h \notin waiters[e]
            BY <1>2, <1>8 DEF Serving
        <3>3. \A e \in HttpDrivers :
                 /\ IsFiniteSet(waiters'[e])
                 /\ \A g \in waiters'[e] : HomeOf[g] = e /\ handler'[g].at = "Registered"
            BY <1>1, <1>2, <2>3, <3>2 DEF Serving, WaitTypeOK
        <3>4. QED
            BY <3>1, <3>3 DEF Serving
    <2>7. QED
        BY <1>5, <1>6, <1>7, <2>4, <2>5, <2>6 DEF Inv
<1>11. QED
    BY <1>9, <1>10

(* A step of requests alone.                                               *)
LEMMA RequestStep ==
    ASSUME Inv, UNCHANGED <<online, row, due, storeVars, driver, faults>>,
           handler' \in [Handlers -> HandlerRecord],
           accepted' \subseteq SignalRows \X Values,
           \A av \in accepted' : row[av[1]].acked /\ row[av[1]].value = av[2],
           \A h \in Handlers : handler'[h].at # "Idle" =>
               /\ handler[h].at # "Idle" /\ handler'[h].activation = handler[h].activation
               /\ handler'[h].value = handler[h].value,
           waiters' \in [HttpDrivers -> SUBSET Handlers], waiterCount' \in [HttpDrivers -> Nat],
           \A d \in HttpDrivers :
               /\ waiterCount'[d] = Cardinality(waiters'[d]) /\ IsFiniteSet(waiters'[d])
               /\ \A h \in waiters'[d] : HomeOf[h] = d /\ handler'[h].at = "Registered"
    PROVE  Inv' /\ Final
<1>1. UNCHANGED <<online, row, due, wait, run, fenced, receipt, driver, faults>>
    BY DEF storeVars
<1>2. WaitTypeOK' /\ Serving'
    BY <1>1 DEF Inv, WaitTypeOK, Serving
<1>3. Delivering' /\ RowsDecided'
    BY <1>1 DEF Inv, Delivering, Holds, RowsDecided
<1>4. Won' /\ Parked' /\ Final
    BY <1>1 DEF Inv, Won, Parked, WaitsOf, Final, RowsGrow, ReceiptsGrow, WaitsGrow
<1>5. QED
    BY <1>2, <1>3, <1>4 DEF Inv

LEMMA RegisterWaiterStep == ASSUME Inv, NEW h \in Handlers, RegisterWaiter(h) PROVE Inv' /\ Final
<1> DEFINE d == HomeOf[h]
<1>1. /\ handler[h].at = "Persisted" /\ handler' = [handler EXCEPT ![h].at = "Registered"]
      /\ waiters' = [waiters EXCEPT ![d] = @ \cup {h}]
      /\ waiterCount' = [waiterCount EXCEPT ![d] = @ + 1]
      /\ UNCHANGED <<online, row, due, storeVars, driver, accepted, faults>>
    BY DEF RegisterWaiter
<1>2. WaitTypeOK /\ RowsDecided /\ Serving
    BY DEF Inv
<1>3. d \in HttpDrivers
    BY SourcesAssumption
<1> HIDE DEF d
<1>4. /\ handler' \in [Handlers -> HandlerRecord] /\ handler'[h].at = "Registered"
      /\ handler'[h].activation = handler[h].activation /\ handler'[h].value = handler[h].value
      /\ \A g \in Handlers \ {h} : handler'[g] = handler[g]
    BY <1>1, <1>2 DEF WaitTypeOK, HandlerRecord
<1>5. h \notin waiters[d] /\ IsFiniteSet(waiters[d]) /\ waiterCount[d] = Cardinality(waiters[d])
      /\ waiterCount[d] \in Nat
    BY <1>1, <1>2, <1>3 DEF Serving, WaitTypeOK
<1>6. /\ waiters' \in [HttpDrivers -> SUBSET Handlers] /\ waiterCount' \in [HttpDrivers -> Nat]
      /\ waiters'[d] = waiters[d] \cup {h} /\ waiterCount'[d] = waiterCount[d] + 1
      /\ \A e \in HttpDrivers \ {d} : waiters'[e] = waiters[e] /\ waiterCount'[e] = waiterCount[e]
    BY <1>1, <1>2, <1>3 DEF WaitTypeOK
<1>7. waiterCount'[d] = Cardinality(waiters'[d]) /\ IsFiniteSet(waiters'[d])
    <2>1. PICK S : S = waiters[d]
        OBVIOUS
    <2>2. IsFiniteSet(S \cup {h}) /\ Cardinality(S \cup {h}) = Cardinality(S) + 1
        BY <2>1, <1>5, FS_AddElement
    <2>3. QED
        BY <2>1, <2>2, <1>5, <1>6
<1>8. \A e \in HttpDrivers :
          /\ waiterCount'[e] = Cardinality(waiters'[e]) /\ IsFiniteSet(waiters'[e])
          /\ \A g \in waiters'[e] : HomeOf[g] = e /\ handler'[g].at = "Registered"
    <2> SUFFICES ASSUME NEW e \in HttpDrivers
                 PROVE  /\ waiterCount'[e] = Cardinality(waiters'[e]) /\ IsFiniteSet(waiters'[e])
                        /\ \A g \in waiters'[e] : HomeOf[g] = e /\ handler'[g].at = "Registered"
        OBVIOUS
    <2>1. \A g \in waiters[e] : g \in Handlers /\ HomeOf[g] = e /\ handler'[g].at = "Registered"
        BY <1>2, <1>4 DEF Serving, WaitTypeOK
    <2>2. CASE e = d
        BY <2>1, <2>2, <1>4, <1>6, <1>7 DEF d
    <2>3. CASE e # d
        BY <2>1, <2>3, <1>2, <1>6 DEF Serving, WaitTypeOK
    <2>4. QED
        BY <2>2, <2>3
<1>9. accepted' \subseteq SignalRows \X Values
      /\ \A av \in accepted' : row[av[1]].acked /\ row[av[1]].value = av[2]
    BY <1>1, <1>2 DEF WaitTypeOK, RowsDecided
<1>10. \A g \in Handlers : handler'[g].at # "Idle" =>
           /\ handler[g].at # "Idle" /\ handler'[g].activation = handler[g].activation
           /\ handler'[g].value = handler[g].value
    BY <1>1, <1>4
<1>11. QED
    BY <1>1, <1>4, <1>6, <1>8, <1>9, <1>10, RequestStep

LEMMA RespondStep == ASSUME Inv, NEW h \in Handlers, Respond(h) PROVE Inv' /\ Final
<1> DEFINE d == HomeOf[h]
           a == handler[h].activation
           less == IF handler[h].at = "Registered" THEN Removed(d, h) ELSE 0
<1>1. /\ handler[h].at # "Idle" /\ handler' = [handler EXCEPT ![h] = NoRequest]
      /\ accepted' \in {accepted, accepted \cup {<<a, handler[h].value>>}}
      /\ accepted' # accepted => row[a].acked
      /\ waiters' = [waiters EXCEPT ![d] = @ \ {h}]
      /\ waiterCount' = [waiterCount EXCEPT ![d] = @ - less]
      /\ UNCHANGED <<online, row, due, storeVars, driver, faults>>
    BY DEF Respond, Readback
<1>2. WaitTypeOK /\ RowsDecided /\ Serving
    BY DEF Inv
<1>3. d \in HttpDrivers
    BY SourcesAssumption
<1>4. less = IF h \in waiters[d] THEN 1 ELSE 0
    BY <1>2, <1>3 DEF Serving, Removed
<1> HIDE DEF d, less
<1>5. NoRequest \in HandlerRecord /\ NoRequest.at = "Idle"
    BY DEF NoRequest, HandlerRecord
<1>6. /\ handler' \in [Handlers -> HandlerRecord] /\ handler'[h].at = "Idle"
      /\ \A g \in Handlers \ {h} : handler'[g] = handler[g]
    BY <1>1, <1>2, <1>5 DEF WaitTypeOK
<1>7. IsFiniteSet(waiters[d]) /\ waiterCount[d] = Cardinality(waiters[d]) /\ waiterCount[d] \in Nat
    BY <1>2, <1>3 DEF Serving, WaitTypeOK
<1>8. /\ waiters' \in [HttpDrivers -> SUBSET Handlers]
      /\ waiters'[d] = waiters[d] \ {h} /\ waiterCount'[d] = waiterCount[d] - less
      /\ \A e \in HttpDrivers \ {d} : waiters'[e] = waiters[e] /\ waiterCount'[e] = waiterCount[e]
    BY <1>1, <1>2, <1>3 DEF WaitTypeOK
<1>9. waiterCount'[d] = Cardinality(waiters'[d]) /\ IsFiniteSet(waiters'[d]) /\ waiterCount'[d] \in Nat
    <2>1. PICK S : S = waiters[d]
        OBVIOUS
    <2>2. /\ IsFiniteSet(S \ {h})
          /\ Cardinality(S \ {h}) = IF h \in S THEN Cardinality(S) - 1 ELSE Cardinality(S)
        BY <2>1, <1>7, FS_RemoveElement
    <2>3. Cardinality(S \ {h}) \in Nat
        BY <2>2, FS_CardinalityType
    <2>4. QED
        BY <2>1, <2>2, <2>3, <1>4, <1>7, <1>8
<1>10. waiterCount' \in [HttpDrivers -> Nat]
    <2>1. waiterCount \in [HttpDrivers -> Nat] /\ waiterCount[d] - less \in Nat
        BY <1>2, <1>8, <1>9 DEF WaitTypeOK
    <2>2. QED
        BY <2>1, <1>1, <1>3
<1>11. \A e \in HttpDrivers :
          /\ waiterCount'[e] = Cardinality(waiters'[e]) /\ IsFiniteSet(waiters'[e])
          /\ \A g \in waiters'[e] : HomeOf[g] = e /\ handler'[g].at = "Registered"
    <2> SUFFICES ASSUME NEW e \in HttpDrivers
                 PROVE  /\ waiterCount'[e] = Cardinality(waiters'[e]) /\ IsFiniteSet(waiters'[e])
                        /\ \A g \in waiters'[e] : HomeOf[g] = e /\ handler'[g].at = "Registered"
        OBVIOUS
    <2>1. \A g \in waiters[e] : g \in Handlers /\ HomeOf[g] = e
                                /\ (g # h => handler'[g].at = "Registered")
        BY <1>2, <1>6 DEF Serving, WaitTypeOK
    <2>2. CASE e = d
        BY <2>1, <2>2, <1>8, <1>9
    <2>3. CASE e # d
        <3>1. h \notin waiters[e]
            BY <2>1, <2>3 DEF d
        <3>2. QED
            BY <3>1, <2>1, <2>3, <1>2, <1>8 DEF Serving, WaitTypeOK
    <2>4. QED
        BY <2>2, <2>3
<1>12. accepted' \subseteq SignalRows \X Values
       /\ \A av \in accepted' : row[av[1]].acked /\ row[av[1]].value = av[2]
    <2>1. a \in SignalRows /\ handler[h].value \in Values /\ row[a].value = handler[h].value
        BY <1>1, <1>2 DEF Serving
    <2>2. QED
        BY <2>1, <1>1, <1>2 DEF WaitTypeOK, RowsDecided
<1>13. \A g \in Handlers : handler'[g].at # "Idle" =>
           /\ handler[g].at # "Idle" /\ handler'[g].activation = handler[g].activation
           /\ handler'[g].value = handler[g].value
    BY <1>6
<1>14. QED
    BY <1>1, <1>6, <1>8, <1>10, <1>11, <1>12, <1>13, RequestStep

-----------------------------------------------------------------------------
(* Steps of the Store.                                                     *)

(* A step of a Run: the spools, the requests and the receipts stay.        *)
LEMMA RunStepKeeps ==
    ASSUME Inv, RunStep,
           wait' \in [Waits -> WaitRecord],
           run' \in [Runs -> {"Absent", "Ready", "Waiting", "Completed", "Cancelled"}],
           fenced' \subseteq Runs,
           \A w \in Waits : /\ wait'[w].state = "Completed" <=> wait[w].state = "Completed"
                            /\ wait'[w].by = wait[w].by
                            /\ wait[w].state = "Cancelled" => wait'[w] = wait[w]
                            /\ wait[w].state = "Completed" => wait'[w] = wait[w],
           Parked'
    PROVE  Inv' /\ Final
<1>1. HeadMoved(driver)
      /\ UNCHANGED <<online, row, due, receipt, handler, waiters, waiterCount, accepted, faults>>
    BY DEF RunStep, httpVars
<1>2. WaitTypeOK /\ Delivering /\ RowsDecided /\ Serving /\ Won
    BY DEF Inv
<1>3. SameHands(driver)
    BY <1>1, <1>2, HeadMovedHands DEF WaitTypeOK
<1>4. Final
    BY <1>1 DEF Final, RowsGrow, ReceiptsGrow, WaitsGrow
<1>5. Delivering'
    BY <1>2, <1>3, <1>4, HandsKept DEF Final
<1>6. WaitTypeOK'
    BY <1>1, <1>2, <1>3 DEF WaitTypeOK, SameHands
<1>7. RowsDecided' /\ Serving'
    BY <1>1, <1>2 DEF RowsDecided, Serving
<1>8. Won'
    <2>1. receipt \in [Activations -> ReceiptRecord]
        BY <1>2 DEF WaitTypeOK
    <2>2. \A a \in Activations : receipt[a].applied \subseteq Waits
        BY <2>1 DEF ReceiptRecord
    <2>3. QED
        BY <1>1, <1>2, <2>2 DEF Won
<1>9. QED
    BY <1>4, <1>5, <1>6, <1>7, <1>8 DEF Inv

LEMMA ParkWaitStep == ASSUME Inv, NEW q \in Runs, ParkWait(q) PROVE Inv' /\ Final
<1>1. /\ run[q] = "Ready" /\ Ahead(q) # {} /\ run' = [run EXCEPT ![q] = "Waiting"] /\ RunStep
    BY DEF ParkWait
<1>2. Ahead(q) \subseteq Nat
    BY SourcesAssumption DEF Ahead, WaitsOf
<1>3. PICK w \in Ahead(q) : w = Min(Ahead(q))
    BY <1>1, <1>2, MinFacts
<1>4. wait' = [wait EXCEPT ![w].state = "Pending"]
    BY <1>3 DEF ParkWait
<1>5. w \in Waits /\ RunOf[w] = q /\ wait[w].state = "Absent"
    BY DEF Ahead, WaitsOf
<1>6. wait \in [Waits -> WaitRecord] /\ Parked
      /\ run \in [Runs -> {"Absent", "Ready", "Waiting", "Completed", "Cancelled"}]
    BY DEF Inv, WaitTypeOK
<1>7. /\ wait' \in [Waits -> WaitRecord]
      /\ wait'[w].state = "Pending" /\ wait'[w].by = wait[w].by
      /\ \A v \in Waits \ {w} : wait'[v] = wait[v]
    BY <1>4, <1>5, <1>6 DEF WaitRecord
<1>8. /\ run' \in [Runs -> {"Absent", "Ready", "Waiting", "Completed", "Cancelled"}]
      /\ run'[q] = "Waiting" /\ \A r \in Runs \ {q} : run'[r] = run[r]
    BY <1>1, <1>6
<1>9. \A v \in Waits : RunOf[v] = q => wait[v].state # "Pending"
    BY <1>1, <1>6 DEF Parked, WaitsOf
<1>10. Parked'
    <2>1. \A x, y \in Waits : wait'[x].state = "Pending" /\ wait'[y].state = "Pending"
                              /\ RunOf[x] = RunOf[y] => x = y
        BY <1>5, <1>6, <1>7, <1>9 DEF Parked
    <2>2. \A r \in Runs : run'[r] = "Waiting" <=> \E x \in WaitsOf(r) : wait'[x].state = "Pending"
        <3> SUFFICES ASSUME NEW r \in Runs
                     PROVE  run'[r] = "Waiting" <=> \E x \in WaitsOf(r) : wait'[x].state = "Pending"
            OBVIOUS
        <3>1. CASE r = q
            BY <3>1, <1>5, <1>7, <1>8 DEF WaitsOf
        <3>2. CASE r # q
            <4>1. \A x \in WaitsOf(r) : wait'[x] = wait[x]
                BY <3>2, <1>5, <1>7 DEF WaitsOf
            <4>2. run'[r] = run[r] /\ (run[r] = "Waiting" <=> \E x \in WaitsOf(r) : wait[x].state = "Pending")
                BY <3>2, <1>6, <1>8 DEF Parked
            <4>3. QED
                BY <4>1, <4>2
        <3>3. QED
            BY <3>1, <3>2
    <2>3. QED
        BY <2>1, <2>2 DEF Parked, WaitsOf
<1>11. \A v \in Waits : /\ wait'[v].state = "Completed" <=> wait[v].state = "Completed"
                        /\ wait'[v].by = wait[v].by
                        /\ wait[v].state = "Cancelled" => wait'[v] = wait[v]
                        /\ wait[v].state = "Completed" => wait'[v] = wait[v]
    BY <1>5, <1>7
<1>12. fenced' \subseteq Runs
    BY DEF ParkWait, Inv, WaitTypeOK
<1>13. QED
    BY <1>1, <1>7, <1>8, <1>10, <1>11, <1>12, RunStepKeeps

LEMMA CompleteStep == ASSUME Inv, NEW q \in Runs, Complete(q) PROVE Inv' /\ Final
<1>1. /\ run[q] = "Ready" /\ run' = [run EXCEPT ![q] = "Completed"] /\ RunStep /\ wait' = wait
    BY DEF Complete
<1>2. wait \in [Waits -> WaitRecord] /\ Parked
      /\ run \in [Runs -> {"Absent", "Ready", "Waiting", "Completed", "Cancelled"}]
    BY DEF Inv, WaitTypeOK
<1>3. /\ run' \in [Runs -> {"Absent", "Ready", "Waiting", "Completed", "Cancelled"}]
      /\ run'[q] = "Completed" /\ \A r \in Runs \ {q} : run'[r] = run[r]
    BY <1>1, <1>2
<1>4. Parked'
    <2>1. \A r \in Runs : run'[r] = "Waiting" <=> run[r] = "Waiting"
        BY <1>1, <1>3
    <2>2. QED
        BY <2>1, <1>1, <1>2 DEF Parked, WaitsOf
<1>5. fenced' \subseteq Runs
    BY DEF Complete, Inv, WaitTypeOK
<1>6. QED
    BY <1>1, <1>2, <1>3, <1>4, <1>5, RunStepKeeps

(* The last commit of a cancellation.                                      *)
LEMMA FinishCancelStep ==
    ASSUME Inv, NEW q \in Runs, FinishCancel(q)
    PROVE  Inv' /\ Final
<1>1. /\ run' = [run EXCEPT ![q] = "Cancelled"] /\ RunStep
      /\ wait' = [w \in Waits |-> IF RunOf[w] = q /\ wait[w].state = "Pending"
                                  THEN [wait[w] EXCEPT !.state = "Cancelled"] ELSE wait[w]]
    BY DEF FinishCancel, CancelledWait
<1>2. wait \in [Waits -> WaitRecord] /\ Parked
      /\ run \in [Runs -> {"Absent", "Ready", "Waiting", "Completed", "Cancelled"}]
    BY DEF Inv, WaitTypeOK
<1>3. /\ run' \in [Runs -> {"Absent", "Ready", "Waiting", "Completed", "Cancelled"}]
      /\ run'[q] = "Cancelled" /\ \A r \in Runs \ {q} : run'[r] = run[r]
    BY <1>1, <1>2
<1>4. wait' \in [Waits -> WaitRecord]
    BY <1>1, <1>2 DEF WaitRecord
<1>5. \A w \in Waits : /\ ~(RunOf[w] = q /\ wait[w].state = "Pending") => wait'[w] = wait[w]
                       /\ (RunOf[w] = q /\ wait[w].state = "Pending") =>
                             wait'[w].state = "Cancelled" /\ wait'[w].by = wait[w].by
    BY <1>1, <1>2 DEF WaitRecord
<1>6. Parked'
    <2>1. \A x \in Waits : wait'[x].state = "Pending" => wait[x].state = "Pending" /\ RunOf[x] # q
        BY <1>5
    <2>2. \A r \in Runs : run'[r] = "Waiting" <=> \E x \in WaitsOf(r) : wait'[x].state = "Pending"
        <3> SUFFICES ASSUME NEW r \in Runs
                     PROVE  run'[r] = "Waiting" <=> \E x \in WaitsOf(r) : wait'[x].state = "Pending"
            OBVIOUS
        <3>1. CASE r = q
            BY <3>1, <2>1, <1>3 DEF WaitsOf
        <3>2. CASE r # q
            <4>1. \A x \in WaitsOf(r) : wait'[x] = wait[x]
                BY <3>2, <1>5 DEF WaitsOf
            <4>2. run'[r] = run[r] /\ (run[r] = "Waiting" <=> \E x \in WaitsOf(r) : wait[x].state = "Pending")
                BY <3>2, <1>2, <1>3 DEF Parked
            <4>3. QED
                BY <4>1, <4>2
        <3>3. QED
            BY <3>1, <3>2
    <2>3. QED
        BY <2>1, <2>2, <1>2 DEF Parked, WaitsOf
<1>7. \A v \in Waits : /\ wait'[v].state = "Completed" <=> wait[v].state = "Completed"
                       /\ wait'[v].by = wait[v].by
                       /\ wait[v].state = "Cancelled" => wait'[v] = wait[v]
                       /\ wait[v].state = "Completed" => wait'[v] = wait[v]
    BY <1>5
<1>8. fenced' \subseteq Runs
    BY DEF FinishCancel, Inv, WaitTypeOK
<1>9. QED
    BY <1>1, <1>3, <1>4, <1>6, <1>7, <1>8, RunStepKeeps

(* Its first: the Run is fenced and nothing of it changes.                 *)
LEMMA BeginCancelStep == ASSUME Inv, NEW q \in Runs, BeginCancel(q) PROVE Inv' /\ Final
<1>1. RunStep /\ fenced' = fenced \cup {q} /\ UNCHANGED <<wait, run>>
    BY DEF BeginCancel
<1>2. /\ wait' \in [Waits -> WaitRecord] /\ fenced' \subseteq Runs
      /\ run' \in [Runs -> {"Absent", "Ready", "Waiting", "Completed", "Cancelled"}]
    BY <1>1 DEF Inv, WaitTypeOK
<1>3. Parked'
    BY <1>1 DEF Inv, Parked, WaitsOf
<1>4. QED
    BY <1>1, <1>2, <1>3, RunStepKeeps

(* One delivery is decided: the pending Waits among its targets are won by *)
(* it alone.                                                               *)
LEMMA AdmittedFacts ==
    ASSUME Inv, NEW a \in Activations, NEW T \in SUBSET Waits, NEW value \in Values \cup {None},
           GoodTargets(a, T), receipt[a] = NoReceipt, Admitted(a, T, value)
    PROVE  /\ wait' \in [Waits -> WaitRecord] /\ receipt' \in [Activations -> ReceiptRecord]
           /\ run' \in [Runs -> {"Absent", "Ready", "Waiting", "Completed", "Cancelled"}]
           /\ fenced' = fenced
           /\ Won' /\ Parked' /\ ReceiptsGrow /\ WaitsGrow
           /\ receipt'[a] # NoReceipt /\ receipt'[a].targets = T /\ receipt'[a].value = value
           /\ \A b \in Activations \ {a} : receipt'[b] = receipt[b]
<1> DEFINE won == Winners(T)
           x == [targets |-> T, value |-> value, applied |-> won, ready |-> {RunOf[w] : w \in won}]
<1>1. /\ wait' = [w \in Waits |-> IF w \in won THEN [state |-> "Completed", by |-> a] ELSE wait[w]]
      /\ run' = [q \in Runs |-> IF \E w \in won : RunOf[w] = q THEN "Ready" ELSE run[q]]
      /\ receipt' = [receipt EXCEPT ![a] = x]
      /\ fenced' = fenced
    BY DEF Admitted
<1>2. /\ wait \in [Waits -> WaitRecord] /\ receipt \in [Activations -> ReceiptRecord]
      /\ run \in [Runs -> {"Absent", "Ready", "Waiting", "Completed", "Cancelled"}]
      /\ Won /\ Parked
    BY DEF Inv, WaitTypeOK
<1>3. won \subseteq T /\ \A w \in T : w \in won <=> wait[w].state = "Pending"
    BY DEF Winners
<1>4. /\ x \in ReceiptRecord /\ x.targets = T /\ x.value = value /\ x.applied = won
    <2>1. {RunOf[w] : w \in won} \subseteq Runs
        BY <1>3, SourcesAssumption
    <2>2. QED
        BY <2>1, <1>3 DEF ReceiptRecord
<1> HIDE DEF won, x
<1>5. /\ receipt' \in [Activations -> ReceiptRecord] /\ receipt'[a] = x
      /\ \A b \in Activations \ {a} : receipt'[b] = receipt[b]
    BY <1>1, <1>2, <1>4
<1>6. x # NoReceipt
    <2>1. NoReceipt.targets = {}
        BY DEF NoReceipt
    <2>2. QED
        BY <2>1, <1>4 DEF GoodTargets
<1>7. receipt[a].applied = {}
    BY DEF NoReceipt
<1>8. /\ wait' \in [Waits -> WaitRecord]
      /\ \A w \in Waits : /\ w \in won => wait'[w].state = "Completed" /\ wait'[w].by = a
                          /\ w \notin won => wait'[w] = wait[w]
    BY <1>1, <1>2 DEF WaitRecord
<1>9. /\ run' \in [Runs -> {"Absent", "Ready", "Waiting", "Completed", "Cancelled"}]
      /\ \A q \in Runs : run'[q] = IF \E w \in won : RunOf[w] = q THEN "Ready" ELSE run[q]
    BY <1>1, <1>2
<1>10. ReceiptsGrow /\ WaitsGrow
    BY <1>3, <1>5, <1>8 DEF ReceiptsGrow, WaitsGrow
<1>11. Won'
    <2>1. \A w \in Waits : wait'[w].state = "Completed" =>
              wait'[w].by \in Activations /\ w \in receipt'[wait'[w].by].applied
        <3> SUFFICES ASSUME NEW w \in Waits, wait'[w].state = "Completed"
                     PROVE  wait'[w].by \in Activations /\ w \in receipt'[wait'[w].by].applied
            OBVIOUS
        <3>1. CASE w \in won
            BY <3>1, <1>4, <1>5, <1>8
        <3>2. CASE w \notin won
            <4>1. wait'[w] = wait[w] /\ wait[w].by \in Activations /\ w \in receipt[wait[w].by].applied
                BY <3>2, <1>2, <1>8 DEF Won
            <4>2. wait[w].by # a
                BY <4>1, <1>7
            <4>3. QED
                BY <4>1, <4>2, <1>5
        <3>3. QED
            BY <3>1, <3>2
    <2>2. \A b \in Activations : \A w \in receipt'[b].applied :
              wait'[w].state = "Completed" /\ wait'[w].by = b /\ Fires[b] = SourceOf[w]
        <3> SUFFICES ASSUME NEW b \in Activations, NEW w \in receipt'[b].applied
                     PROVE  wait'[w].state = "Completed" /\ wait'[w].by = b /\ Fires[b] = SourceOf[w]
            OBVIOUS
        <3>1. CASE b = a
            BY <3>1, <1>3, <1>4, <1>5, <1>8 DEF GoodTargets
        <3>2. CASE b # a
            <4>1. w \in receipt[b].applied /\ w \in Waits
                BY <3>2, <1>2, <1>5 DEF ReceiptRecord
            <4>2. wait[w].state = "Completed" /\ wait[w].by = b /\ Fires[b] = SourceOf[w]
                BY <4>1, <1>2 DEF Won
            <4>3. w \notin won
                BY <4>2, <1>3
            <4>4. QED
                BY <4>1, <4>2, <4>3, <1>8
        <3>3. QED
            BY <3>1, <3>2
    <2>3. \A b \in Activations : Cardinality(receipt'[b].targets \cap Once) <= 1
        BY <1>2, <1>4, <1>5 DEF Won, GoodTargets
    <2>4. QED
        BY <2>1, <2>2, <2>3 DEF Won
<1>12. Parked'
    <2>1. \A w \in Waits : wait'[w].state = "Pending" <=> wait[w].state = "Pending" /\ w \notin won
        BY <1>8
    <2>2. \A w, v \in Waits : wait'[w].state = "Pending" /\ wait'[v].state = "Pending"
                              /\ RunOf[w] = RunOf[v] => w = v
        BY <2>1, <1>2 DEF Parked
    <2>3. \A q \in Runs : run'[q] = "Waiting" <=> \E w \in WaitsOf(q) : wait'[w].state = "Pending"
        <3> SUFFICES ASSUME NEW q \in Runs
                     PROVE  run'[q] = "Waiting" <=> \E w \in WaitsOf(q) : wait'[w].state = "Pending"
            OBVIOUS
        <3>1. CASE \E w \in won : RunOf[w] = q
            <4>1. PICK w \in won : RunOf[w] = q
                BY <3>1
            <4>2. w \in Waits /\ wait[w].state = "Pending"
                BY <4>1, <1>3
            <4>3. \A v \in WaitsOf(q) : wait'[v].state # "Pending"
                BY <4>1, <4>2, <2>1, <1>2 DEF Parked, WaitsOf
            <4>4. QED
                BY <3>1, <4>3, <1>9
        <3>2. CASE ~\E w \in won : RunOf[w] = q
            <4>1. \A w \in WaitsOf(q) : w \in Waits /\ w \notin won
                BY <3>2 DEF WaitsOf
            <4>2. run'[q] = run[q] /\ (run[q] = "Waiting" <=> \E w \in WaitsOf(q) : wait[w].state = "Pending")
                BY <3>2, <1>2, <1>9 DEF Parked
            <4>3. QED
                BY <4>1, <4>2, <2>1
        <3>3. QED
            BY <3>1, <3>2
    <2>4. QED
        BY <2>2, <2>3 DEF Parked, WaitsOf
<1>13. QED
    BY <1>1, <1>4, <1>5, <1>6, <1>8, <1>9, <1>10, <1>11, <1>12

LEMMA AdmitWaitStep ==
    ASSUME Inv, NEW a \in Activations, NEW T \in SUBSET Waits, AdmitWait(a, T) PROVE Inv' /\ Final
<1>1. /\ a \in Direct /\ receipt[a] = NoReceipt /\ Admitted(a, T, None) /\ HeadMoved(driver)
      /\ \A w \in T : SourceOf[w] = Fires[a]
      /\ UNCHANGED <<online, row, due, handler, waiters, waiterCount, accepted, faults>>
    BY DEF AdmitWait, httpVars
<1>2. GoodTargets(a, T)
    <2>1. CASE Fires[a] \in Timers
        <3>1. Cardinality(T) = 1
            BY <2>1 DEF AdmitWait
        <3>2. T # {}
            BY <3>1, FS_EmptySet
        <3>3. T \cap Once = {}
            BY <2>1, <1>1, SourcesAssumption
        <3>4. QED
            BY <3>2, <3>3, <1>1, FS_EmptySet DEF GoodTargets
    <2>2. CASE Fires[a] \notin Timers
        BY <2>2, <1>1 DEF AdmitWait, GoodTargets
    <2>3. QED
        BY <2>1, <2>2
<1>3. WaitTypeOK /\ Delivering /\ RowsDecided /\ Serving
    BY DEF Inv
<1>4. /\ wait' \in [Waits -> WaitRecord] /\ receipt' \in [Activations -> ReceiptRecord]
      /\ run' \in [Runs -> {"Absent", "Ready", "Waiting", "Completed", "Cancelled"}]
      /\ fenced' = fenced
      /\ Won' /\ Parked' /\ ReceiptsGrow /\ WaitsGrow
      /\ \A b \in Activations \ {a} : receipt'[b] = receipt[b]
    BY <1>1, <1>2, AdmittedFacts
<1>5. SameHands(driver)
    BY <1>1, <1>3, HeadMovedHands DEF WaitTypeOK
<1>6. Final
    BY <1>1, <1>4 DEF Final, RowsGrow
<1>7. Delivering'
    BY <1>3, <1>5, <1>6, HandsKept DEF Final
<1>8. WaitTypeOK'
    BY <1>1, <1>3, <1>4, <1>5 DEF WaitTypeOK, SameHands
<1>9. RowsDecided' /\ Serving'
    BY <1>1, <1>3, <1>4 DEF RowsDecided, Serving
<1>10. QED
    BY <1>4, <1>6, <1>7, <1>8, <1>9 DEF Inv

(* The decision is what the driver holds, which is what the row says.      *)
LEMMA AdmitStep == ASSUME Inv, NEW d \in Drivers, Admit(d) PROVE Inv' /\ Final
<1> DEFINE a == driver[d].activation
           T == driver[d].targets
<1>1. /\ driver[d].at = "Received" /\ receipt[a] = NoReceipt /\ Admitted(a, T, row[a].value)
      /\ UNCHANGED <<online, row, due, handler, waiters, waiterCount, accepted>>
    BY DEF Admit, Receive, httpVars
<1>2. WaitTypeOK /\ Delivering /\ RowsDecided /\ Serving
    BY DEF Inv
<1>3. /\ a \in Activations \ Direct /\ GoodTargets(a, T) /\ T = row[a].selected
    BY <1>1, <1>2 DEF Delivering, Holds
<1>4. T \in SUBSET Waits /\ row[a].value \in Values \cup {None}
    BY <1>2, <1>3 DEF WaitTypeOK, DriverRecord, RowRecord
<1>5. /\ wait' \in [Waits -> WaitRecord] /\ receipt' \in [Activations -> ReceiptRecord]
      /\ run' \in [Runs -> {"Absent", "Ready", "Waiting", "Completed", "Cancelled"}]
      /\ fenced' = fenced
      /\ Won' /\ Parked' /\ ReceiptsGrow /\ WaitsGrow
      /\ receipt'[a] # NoReceipt /\ receipt'[a].targets = T /\ receipt'[a].value = row[a].value
      /\ \A b \in Activations \ {a} : receipt'[b] = receipt[b]
    <2>1. PICK b \in Activations, U \in SUBSET Waits, v \in Values \cup {None} :
              b = a /\ U = T /\ v = row[a].value
        BY <1>3, <1>4
    <2>2. QED
        BY <1>1, <1>3, <2>1, AdmittedFacts
<1>6. driver \in [Drivers -> DriverRecord] /\ driver[d] \in DriverRecord /\ faults \in 0..MaxFaults
    BY <1>2 DEF WaitTypeOK
<1>7. PICK f \in [Drivers -> DriverRecord] :
          /\ HeadMoved(f) /\ faults' \in 0..MaxFaults
          /\ \A e \in Drivers \ {d} : f[e] = driver[e]
          /\ \/ f[d].at = "Idle"
             \/ f[d].at = "Admitted" /\ f[d].activation = a /\ f[d].targets = T
    <2>1. CASE HeadMoved([driver EXCEPT ![d].at = "Admitted"]) /\ UNCHANGED faults
        <3>1. PICK f : f = [driver EXCEPT ![d].at = "Admitted"]
            OBVIOUS
        <3>2. /\ f \in [Drivers -> DriverRecord] /\ \A e \in Drivers \ {d} : f[e] = driver[e]
              /\ f[d].at = "Admitted" /\ f[d].activation = a /\ f[d].targets = T
            BY <3>1, <1>6 DEF DriverRecord
        <3>3. QED
            BY <3>1, <3>2, <2>1, <1>6
    <2>2. CASE HeadMoved([driver EXCEPT ![d] = Resting(None)]) /\ faults < MaxFaults
               /\ faults' = faults + 1
        <3>1. PICK f : f = [driver EXCEPT ![d] = Resting(None)]
            OBVIOUS
        <3>2. Resting(None) \in DriverRecord /\ Resting(None).at = "Idle"
            BY DEF Resting, DriverRecord, None
        <3>3. /\ f \in [Drivers -> DriverRecord] /\ \A e \in Drivers \ {d} : f[e] = driver[e]
              /\ f[d].at = "Idle"
            BY <3>1, <3>2, <1>6
        <3>4. faults' \in 0..MaxFaults
            BY <2>2, <1>6, Scans
        <3>5. QED
            BY <3>1, <3>3, <3>4, <2>2
    <2>3. QED
        BY <2>1, <2>2 DEF Admit
<1>8. SameHands(f)
    BY <1>7, HeadMovedHands
<1>9. Final
    BY <1>1, <1>5 DEF Final, RowsGrow
<1>10. Delivering'
    <2> SUFFICES ASSUME NEW e \in Drivers PROVE Holds(driver[e])'
        BY DEF Delivering
    <2>1. /\ driver'[e].at = f[e].at /\ driver'[e].activation = f[e].activation
          /\ driver'[e].targets = f[e].targets
        BY <1>8 DEF SameHands
    <2>2. CASE e # d
        <3>1. Holds(driver[e]) /\ f[e] = driver[e]
            BY <2>2, <1>2, <1>7 DEF Delivering
        <3>2. QED
            BY <2>1, <3>1, <1>9 DEF Holds, GoodTargets, Final, RowsGrow, ReceiptsGrow
    <2>3. CASE e = d
        <3>1. row[a].stored
            BY <1>1, <1>2 DEF Delivering, Holds
        <3>2. QED
            <4> HIDE DEF a, T
            <4>1. CASE f[d].at = "Idle"
                BY <2>1, <2>3, <4>1 DEF Holds
            <4>2. CASE f[d].at = "Admitted" /\ f[d].activation = a /\ f[d].targets = T
                <5>1. driver'[e].activation = a /\ driver'[e].targets = T
                    BY <2>1, <2>3, <4>2
                <5>2. row'[a].stored /\ T = row'[a].selected
                    BY <3>1, <1>1, <1>3
                <5>3. QED
                    BY <5>1, <5>2, <1>3, <1>5 DEF Holds, GoodTargets
            <4>3. QED
                BY <4>1, <4>2, <1>7
    <2>4. QED
        BY <2>2, <2>3
<1>11. WaitTypeOK'
    BY <1>1, <1>2, <1>5, <1>7, <1>8 DEF WaitTypeOK, SameHands
<1>12. RowsDecided'
    <2>1. \A b \in Activations \ Direct :
              /\ row'[b].selected # {} => GoodTargets(b, row'[b].selected) /\ row'[b].stored
              /\ row'[b].acked => receipt'[b] # NoReceipt
              /\ receipt'[b] # NoReceipt =>
                    /\ row'[b].selected # {} /\ receipt'[b].targets = row'[b].selected
                    /\ receipt'[b].value = row'[b].value
        <3> SUFFICES ASSUME NEW b \in Activations \ Direct
                     PROVE  /\ row'[b].selected # {} => GoodTargets(b, row'[b].selected) /\ row'[b].stored
                            /\ row'[b].acked => receipt'[b] # NoReceipt
                            /\ receipt'[b] # NoReceipt =>
                                  /\ row'[b].selected # {} /\ receipt'[b].targets = row'[b].selected
                                  /\ receipt'[b].value = row'[b].value
            OBVIOUS
        <3>1. CASE b = a
            BY <3>1, <1>1, <1>2, <1>3, <1>5 DEF RowsDecided, GoodTargets
        <3>2. CASE b # a
            BY <3>2, <1>1, <1>2, <1>5 DEF RowsDecided
        <3>3. QED
            BY <3>1, <3>2
    <2>2. QED
        BY <2>1, <1>1, <1>2 DEF RowsDecided, GoodTargets
<1>13. Serving'
    BY <1>1, <1>2 DEF Serving
<1>14. QED
    BY <1>5, <1>9, <1>10, <1>11, <1>12, <1>13 DEF Inv

-----------------------------------------------------------------------------
(* The invariant.                                                          *)

LEMMA InitInv == ASSUME Init PROVE Inv
<1>1. /\ online \in Deployments
      /\ row = [a \in Activations |-> NoRow] /\ due = {}
      /\ wait = [w \in Waits |-> [state |-> "Absent", by |-> None]]
      /\ run = [q \in Runs |-> IF q \in online.runs THEN "Ready" ELSE "Absent"]
      /\ fenced = {}
      /\ receipt = [a \in Activations |-> NoReceipt]
      /\ driver = [d \in Drivers |-> Resting(None)]
      /\ handler = [h \in Handlers |-> NoRequest]
      /\ waiters = [d \in HttpDrivers |-> {}] /\ waiterCount = [d \in HttpDrivers |-> 0]
      /\ accepted = {} /\ faults = 0
    BY DEF Init
<1>2. /\ NoRow \in RowRecord /\ ~NoRow.stored /\ NoRow.selected = {} /\ ~NoRow.acked
    BY DEF NoRow, RowRecord
<1>3. /\ NoReceipt \in ReceiptRecord /\ NoReceipt.targets = {} /\ NoReceipt.applied = {}
    BY DEF NoReceipt, ReceiptRecord
<1>4. Resting(None) \in DriverRecord /\ Resting(None).at = "Idle"
    BY DEF Resting, DriverRecord, None
<1>5. NoRequest \in HandlerRecord /\ NoRequest.at = "Idle"
    BY DEF NoRequest, HandlerRecord
<1>6. [state |-> "Absent", by |-> None] \in WaitRecord
    BY DEF WaitRecord
<1>7. WaitTypeOK
    <2>1. /\ row \in [Activations -> RowRecord] /\ receipt \in [Activations -> ReceiptRecord]
          /\ driver \in [Drivers -> DriverRecord] /\ handler \in [Handlers -> HandlerRecord]
          /\ wait \in [Waits -> WaitRecord]
        BY <1>1, <1>2, <1>3, <1>4, <1>5, <1>6
    <2>2. run \in [Runs -> {"Absent", "Ready", "Waiting", "Completed", "Cancelled"}]
        BY <1>1
    <2>3. /\ waiters \in [HttpDrivers -> SUBSET Handlers] /\ waiterCount \in [HttpDrivers -> Nat]
          /\ \A d \in HttpDrivers : waiterCount[d] = Cardinality(waiters[d])
        BY <1>1, FS_EmptySet
    <2>4. faults \in 0..MaxFaults
        BY <1>1, Scans
    <2>5. QED
        BY <1>1, <2>1, <2>2, <2>3, <2>4 DEF WaitTypeOK
<1>8. Delivering
    BY <1>1, <1>4 DEF Delivering, Holds
<1>9. RowsDecided
    BY <1>1, <1>2 DEF RowsDecided
<1>10. Serving
    BY <1>1, <1>5, FS_EmptySet DEF Serving
<1>11. Won
    <2>1. \A a \in Activations : receipt[a].targets = {} /\ receipt[a].applied = {}
        BY <1>1, <1>3
    <2>2. \A w \in Waits : wait[w].state # "Completed"
        BY <1>1
    <2>3. Cardinality({}) = 0
        BY FS_EmptySet
    <2>4. \A a \in Activations : Cardinality(receipt[a].targets \cap Once) <= 1
        <3>1. \A a \in Activations : receipt[a].targets \cap Once = {}
            BY <2>1
        <3>2. QED
            BY <2>3, <3>1
    <2>5. QED
        BY <2>1, <2>2, <2>4 DEF Won
<1>12. Parked
    BY <1>1 DEF Parked, WaitsOf
<1>13. QED
    BY <1>7, <1>8, <1>9, <1>10, <1>11, <1>12 DEF Inv

LEMMA NextInv == ASSUME Inv, [Next]_vars PROVE Inv' /\ Final
<1>1. ASSUME NEW q \in Runs,
             ParkWait(q) \/ Complete(q) \/ BeginCancel(q) \/ FinishCancel(q)
      PROVE  Inv' /\ Final
    BY <1>1, ParkWaitStep, CompleteStep, FinishCancelStep, BeginCancelStep
<1>2. ASSUME NEW a \in Activations, NEW T \in SUBSET Waits, AdmitWait(a, T) PROVE Inv' /\ Final
    BY <1>2, AdmitWaitStep
<1>3. ASSUME NEW a \in Activations, Schedule(a) \/ FallDue(a) PROVE Inv' /\ Final
    BY <1>3, ScheduleStep, FallDueStep
<1>4. ASSUME NEW h \in Handlers, \/ \E a \in Activations, v \in Values : Persist(h, a, v)
                                 \/ RegisterWaiter(h) \/ Respond(h)
      PROVE  Inv' /\ Final
    BY <1>4, PersistStep, RegisterWaiterStep, RespondStep
<1>5. ASSUME NEW d \in online.drivers, Drive(d) \/ Crash(d) PROVE Inv' /\ Final
    <2>1. online \in Deployments
        BY DEF Inv, WaitTypeOK
    <2>2. d \in Drivers
        BY <2>1, SourcesAssumption
    <2>3. CASE Scan(d)
        BY <2>2, <2>3, ScanTimersStep, ScanSignalsStep DEF Scan
    <2>4. QED
        BY <1>5, <2>2, <2>3, PollStep, RetainStep, AdmitStep, RefuseStep, ReplayStep,
           AcknowledgeStep, LoseRaceStep, CrashStep DEF Drive
<1>6. CASE OtherCommit
    BY <1>6, OtherCommitStep
<1>7. CASE UNCHANGED vars
    <2>1. UNCHANGED <<online, row, due, wait, run, fenced, receipt, driver, handler, waiters, waiterCount,
                      accepted, faults>>
        BY <1>7 DEF vars, storeVars, httpVars
    <2>2. WaitTypeOK' /\ Delivering' /\ RowsDecided' /\ Serving'
        BY <2>1 DEF Inv, WaitTypeOK, Delivering, Holds, RowsDecided, Serving
    <2>3. Won' /\ Parked' /\ Final
        BY <2>1 DEF Inv, Won, Parked, WaitsOf, Final, RowsGrow, ReceiptsGrow, WaitsGrow
    <2>4. QED
        BY <2>2, <2>3 DEF Inv
<1>8. QED
    BY <1>1, <1>2, <1>3, <1>4, <1>5, <1>6, <1>7 DEF Next, StoreNext, Ingress

LEMMA InvHolds == Spec => []Inv
<1>1. Init => Inv
    BY InitInv
<1>2. Inv /\ [Next]_vars => Inv'
    BY NextInv
<1>3. QED
    BY <1>1, <1>2, PTL DEF Spec

(* Rows, Waits, receipts, drivers and requests keep their types, and the   *)
(* counter of registered waiters (register_waiter, notify_waiters and the  *)
(* removal at the end of a wait) is the number of waiters registered.      *)
THEOREM WaitTypesCorrect == Spec => []WaitTypeOK
<1>1. Inv => WaitTypeOK
    BY DEF Inv
<1>2. QED
    BY <1>1, InvHolds, PTL

(* A 202 means an acknowledged row, an acknowledged row means a receipt,   *)
(* and what a driver holds of a row is the decision already made on it or  *)
(* the one that will be, however often it is delivered, whoever crashed    *)
(* between the spool and the Store (receive, admit_wait_delivery,          *)
(* acknowledge).                                                           *)
THEOREM DeliveriesDecided == Spec => []DeliveryDecided
<1>1. Inv => DeliveryDecided
    <2> SUFFICES ASSUME Inv PROVE DeliveryDecided
        OBVIOUS
    <2>1. RowsDecided /\ Delivering
        BY DEF Inv
    <2>2. \A d \in Drivers :
              /\ driver[d].at \in {"Received", "Admitted"} =>
                    driver[d].targets = row[driver[d].activation].selected
              /\ driver[d].at = "Admitted" => receipt[driver[d].activation] # NoReceipt
        BY <2>1 DEF Delivering, Holds
    <2>3. QED
        BY <2>1, <2>2 DEF RowsDecided, DeliveryDecided
<1>2. QED
    BY <1>1, InvHolds, PTL

(* A Wait is completed by exactly the activation whose receipt applied it, *)
(* one of its own source; a signal consumes at most one consume-once Wait; *)
(* a Run is Waiting exactly while one of its Waits is pending (the winners *)
(* of pinned_wait.rs).                                                     *)
THEOREM WaitsWonOnce == Spec => []WaitWonOnce
<1>1. Inv => WaitWonOnce
    <2> SUFFICES ASSUME Inv PROVE WaitWonOnce
        OBVIOUS
    <2>1. Won /\ Parked
        BY DEF Inv
    <2>2. ASSUME NEW w \in Waits
          PROVE  /\ {a \in Activations : w \in receipt[a].applied}
                       = IF wait[w].state = "Completed" THEN {wait[w].by} ELSE {}
                 /\ wait[w].state = "Completed" => Fires[wait[w].by] = SourceOf[w]
        <3>1. \A a \in Activations : w \in receipt[a].applied =>
                  wait[w].state = "Completed" /\ wait[w].by = a /\ Fires[a] = SourceOf[w]
            BY <2>1 DEF Won
        <3>2. wait[w].state = "Completed" =>
                  wait[w].by \in Activations /\ w \in receipt[wait[w].by].applied
            BY <2>1 DEF Won
        <3>3. CASE wait[w].state = "Completed"
            <4>1. {a \in Activations : w \in receipt[a].applied} = {wait[w].by}
                BY <3>1, <3>2, <3>3
            <4>2. QED
                BY <4>1, <3>1, <3>2, <3>3
        <3>4. CASE wait[w].state # "Completed"
            <4>1. {a \in Activations : w \in receipt[a].applied} = {}
                BY <3>1, <3>4
            <4>2. QED
                BY <4>1, <3>4
        <3>5. QED
            BY <3>3, <3>4
    <2>3. QED
        BY <2>1, <2>2 DEF Won, Parked, WaitWonOnce
<1>2. QED
    BY <1>1, InvHolds, PTL

(* Nothing decided is decided again: no step changes the target set a row  *)
(* retains, a receipt, the outcome of a finished Wait or an                *)
(* acknowledgement.                                                        *)
THEOREM DecisionsAreFinal == Spec => DecisionsFinal
<1> DEFINE A == /\ \A a \in Activations :
                      /\ row[a].selected # {} => row'[a].selected = row[a].selected
                      /\ receipt[a] # NoReceipt => receipt'[a] = receipt[a]
                      /\ row[a].acked => row'[a].acked
                /\ \A w \in Waits : wait[w].state \in {"Completed", "Cancelled"} => wait'[w] = wait[w]
<1>1. Inv /\ [Next]_vars => [A]_vars
    BY NextInv DEF Final, RowsGrow, ReceiptsGrow, WaitsGrow
<1>2. QED
    BY <1>1, InvHolds, PTL DEF Spec, DecisionsFinal
===============================================================================
