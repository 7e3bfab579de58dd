----------------------------- MODULE VirtualWork -----------------------------
(***************************************************************************)
(* The scheduler of large virtual work (cymule-profile-protocol            *)
(* virtual_work.rs, driven by cymule-durable coordinator.rs): regions of a *)
(* lazily read source, the bounded frontier of materialised work, claims   *)
(* under capacity-slot leases, weighted selection, parking and waking,     *)
(* region migration, compaction to an archive and rehydration.             *)
(*                                                                         *)
(* One action is one command: it reads exact leaves of the current         *)
(* StateRoot, reduces them and publishes with one compare-and-commit, for  *)
(* clocked commands under the guard of the clock head of the slot.  A      *)
(* refused command, and one whose receipt is retained already, change      *)
(* nothing and are not steps.  Slot leases and clocks belong to the Store: *)
(* every scheduler in it claims slots, and the others than the one         *)
(* modelled here appear as ForeignClaim.  Identities are positive numbers, *)
(* so that the order of the maps is <; 0 is none.                          *)
(***************************************************************************)
EXTENDS VirtualFairness, SequencesExt

CONSTANTS
    Works, Regions, Runs, Slots, Owners,
    Source,         \* what each initial region will produce
    RunOf,          \* the Run a region belongs to
    Priority, Cost, Capability,     \* of a work item
    Offers,         \* the capability sets workers may offer
    Waits, OtherReasons,            \* what work may be parked on
    Activations, Targets,           \* activations of Waits, and what they name
    Verdicts,       \* terminal outcomes told apart
    Weights, BaseQuantum, AgingInterval,
    MaxMaterialized, MaterializeBatch, MaxActive, MaxActivePerRun,
    PageItems, MaxReason, MaxWake,  \* page size, items per reason, source items of one wake
    MaxExact,       \* MAX_EXACT_INTEGER
    TTL, MaxTime, MaxEpoch,         \* lease length; bounds on clock and claims per work
    MaxForeign      \* bound on the fences other schedulers take

None == 0
NoOwner == "None"
Reasons == Waits \cup OtherReasons
Final == {"Succeeded", "Failed", "Cancelled"}

ASSUME IdentityAssumption ==
    /\ Works \subseteq Nat \ {0} /\ Regions \subseteq Nat \ {0} /\ Runs \subseteq Nat \ {0}
    /\ Waits \cap OtherReasons = {} /\ NoOwner \notin Owners \cup Reasons
    /\ RunOf \in [Regions -> Runs]
    /\ DOMAIN Source \subseteq Regions /\ \A r \in DOMAIN Source: Source[r] \subseteq Works
    /\ \A q, r \in DOMAIN Source: q # r => Source[q] \cap Source[r] = {}
    /\ Targets \in [Activations -> SUBSET Waits] /\ Verdicts \subseteq Final

ASSUME FiniteAssumption ==
    /\ IsFiniteSet(Works) /\ IsFiniteSet(Regions) /\ IsFiniteSet(Runs) /\ IsFiniteSet(Waits)

ASSUME PolicyAssumption ==
    /\ MaxExact \in Nat
    /\ Priority \in [Works -> Nat] /\ Cost \in [Works -> 1..MaxExact]
    /\ Weights \subseteq Nat \ {0} /\ 1 \in Weights
    /\ BaseQuantum \in 1..MaxExact /\ AgingInterval \in Nat \ {0}
    /\ {MaxMaterialized, MaterializeBatch, MaxActive, MaxActivePerRun} \subseteq Nat \ {0}
    /\ {PageItems, MaxReason, TTL} \subseteq Nat \ {0}
    /\ {MaxWake, MaxTime, MaxEpoch, MaxForeign} \subseteq Nat

VARIABLES
    region,         \* region leaves: lifecycle, what the cursor has left, counts, certificate
    activeRegions,  \* index of the regions that can be materialised
    lastRegion,     \* the region materialised last
    work,           \* hot work leaves: placement, claim epoch, region
    occ,            \* hot occurrence leaves by work and epoch
    ready, since,   \* queue of every Run; dispatch sequence at which a work became ready
    sequence,       \* claims so far
    lastRun,        \* the Run served last
    run,            \* weight and deficit of every Run
    active,         \* the claim of every active work
    parked, pages,  \* reason a work is parked on; pages of work per reason
    directory,      \* charge of waking each Wait that has parked work
    counts,         \* scalar counts of the leaf families
    cert, cold,     \* certificate of a region; archived occurrences
    index,          \* archived-work index: greatest epoch of a work, 0 if absent
    leases, clock,  \* coordination lease and clock head of every slot
    applied,        \* Waits an admitted activation applied to
    consumed        \* activations whose wake receipt is retained

regionVars == <<region, activeRegions, lastRegion>>
frontierVars == <<ready, since, sequence, lastRun, run>>
parkVars == <<parked, pages, directory>>
archiveVars == <<cert, cold, index>>
leaseVars == <<leases, clock>>
waitVars == <<applied, consumed>>
vars == <<regionVars, work, occ, frontierVars, active, parkVars, counts, archiveVars,
          leaseVars, waitVars>>

Epochs == 1..MaxEpoch
NoRegion == [life |-> "Absent", rest |-> {}, done |-> FALSE,
             hotWork |-> 0, hotOcc |-> 0, cert |-> FALSE]
NewRegion(rest) == [NoRegion EXCEPT !.life = "Active", !.rest = rest]
NoWork == [place |-> "Absent", epoch |-> 0, region |-> None]
NoOcc == [state |-> "Absent", owner |-> NoOwner, lease |-> 0, region |-> None]
NoClaim == [owner |-> NoOwner, epoch |-> 0, slot |-> NoOwner, lease |-> 0, expires |-> 0]
NoCharge == [work |-> 0, pages |-> 0]

RunOfWork(w) == RunOf[work[w].region]
Hot(w) == work[w].place # "Absent"
ActiveWorks == {w \in Works: active[w] # NoClaim}
ReadyWorks == UNION {Range(ready[q]): q \in Runs}

TypeOK ==
    /\ region \in [Regions -> [life: {"Absent", "Active", "Retired"}, rest: SUBSET Works,
                               done: BOOLEAN, hotWork: Nat, hotOcc: Nat, cert: BOOLEAN]]
    /\ activeRegions \subseteq Regions /\ lastRegion \in Regions \cup {None}
    /\ work \in [Works -> [place: {"Absent", "Ready", "Active", "Parked", "Terminal"},
                           epoch: 0..MaxEpoch, region: Regions \cup {None}]]
    /\ occ \in [Works -> [Epochs -> [state: {"Absent", "Running", "RetryScheduled", "Parked"} \cup Final,
                                     owner: Owners \cup {NoOwner}, lease: Nat,
                                     region: Regions \cup {None}]]]
    /\ ready \in [Runs -> Seq(Works)] /\ since \in [Works -> Int]
    /\ sequence \in Nat /\ lastRun \in Runs \cup {None}
    /\ run \in [Runs -> [weight: Weights, deficit: Nat]]
    /\ active \in [Works -> [owner: Owners \cup {NoOwner}, epoch: 0..MaxEpoch,
                             slot: Slots \cup {NoOwner}, lease: Nat, expires: 0..(MaxTime + TTL)]]
    /\ parked \in [Works -> Reasons \cup {NoOwner}] /\ pages \in [Reasons -> Seq(SUBSET Works)]
    /\ directory \in [Waits -> [work: Nat, pages: Nat]]
    /\ counts \in [regions: Nat, activeRegions: Nat, parked: Nat, work: Nat, occ: Nat, certs: Nat]
    /\ cert \in [Regions -> {"None", "Active", "Retired"}] /\ DOMAIN cold = Works
    /\ index \in [Works -> 0..MaxEpoch]
    /\ leases \in [Slots -> [owner: Owners \cup {NoOwner}, epoch: Nat, expires: 0..(MaxTime + TTL)]]
    /\ clock \in [Slots -> 0..MaxTime]
    /\ applied \in [Activations -> SUBSET Waits] /\ consumed \subseteq Activations

-----------------------------------------------------------------------------
(* The state an initialisation leaves.                                     *)

Init ==
    /\ region = [r \in Regions |-> IF r \in DOMAIN Source THEN NewRegion(Source[r]) ELSE NoRegion]
    /\ activeRegions = DOMAIN Source /\ lastRegion = None
    /\ work = [w \in Works |-> NoWork] /\ occ = [w \in Works |-> [e \in Epochs |-> NoOcc]]
    /\ ready = [q \in Runs |-> <<>>] /\ since = [w \in Works |-> -1]
    /\ sequence = 0 /\ lastRun = None
    /\ run = [q \in Runs |-> [weight |-> 1, deficit |-> 0]]
    /\ active = [w \in Works |-> NoClaim]
    /\ parked = [w \in Works |-> NoOwner] /\ pages = [x \in Reasons |-> <<>>]
    /\ directory = [x \in Waits |-> NoCharge]
    /\ counts = [regions |-> Cardinality(DOMAIN Source), activeRegions |-> Cardinality(DOMAIN Source),
                 parked |-> 0, work |-> 0, occ |-> 0, certs |-> 0]
    /\ cert = [r \in Regions |-> "None"] /\ cold = [w \in Works |-> [e \in Epochs |-> NoOcc]]
    /\ index = [w \in Works |-> 0]
    /\ leases = [s \in Slots |-> [owner |-> NoOwner, epoch |-> 0, expires |-> 0]]
    /\ clock = [s \in Slots |-> 0]
    /\ applied = [a \in Activations |-> {}] /\ consumed = {}

-----------------------------------------------------------------------------
(* Ready queues: an item goes before the first of lower priority.          *)

Enqueue(queue, w) ==
    LET lower == {i \in DOMAIN queue: Priority[queue[i]] < Priority[w]}
    IN InsertAt(queue, IF lower = {} THEN Len(queue) + 1 ELSE Min(lower), w)

(* The members of S, least first.                                          *)
Ascending(S) ==
    CHOOSE f \in [1..Cardinality(S) -> S]: \A i, j \in DOMAIN f: i < j => f[i] < f[j]

(* Work that becomes ready, home[w] being the region of each.              *)
Readied(S, home) ==
    /\ ready' = [q \in Runs |->
                    FoldLeft(Enqueue, ready[q], Ascending({w \in S: RunOf[home[w]] = q}))]
    /\ since' = [w \in Works |-> IF w \in S THEN sequence ELSE since[w]]

Homes == [w \in Works |-> work[w].region]

-----------------------------------------------------------------------------
(* Materialisation.                                                        *)

NextRegion ==
    LET after == {r \in activeRegions: r > lastRegion}
    IN IF after # {} THEN Min(after) ELSE Min(activeRegions)

Materialized ==
    FoldSet(LAMBDA q, n: n + Len(ready[q]), 0, Runs) + Cardinality(ActiveWorks) + counts.parked

MaterializeLimit == Min({MaxMaterialized - Materialized, MaterializeBatch})

(* No leaf and no entry of the archived-work index: never seen before.     *)
Unseen(w) == ~Hot(w) /\ index[w] = 0

(* The rotation cursor when some regions leave the index.                  *)
FaultyCursorWithout(S) == lastRegion
CursorWithout(S) == IF lastRegion \in S THEN None ELSE lastRegion

Materialize(r) ==
    /\ activeRegions # {} /\ r = NextRegion
    /\ region[r].life = "Active" /\ ~region[r].cert /\ ~region[r].done
    /\ MaterializeLimit > 0
    /\ \E k \in 0..Min({MaterializeLimit, Cardinality(region[r].rest)}), done \in BOOLEAN:
          LET page == {w \in region[r].rest: Cardinality({v \in region[r].rest: v < w}) < k}
          IN /\ done => page = region[r].rest
             /\ \A w \in page: Unseen(w)
             /\ region' = [region EXCEPT ![r].rest = @ \ page, ![r].done = done,
                                         ![r].hotWork = @ + k]
             /\ activeRegions' = IF done THEN activeRegions \ {r} ELSE activeRegions
             /\ lastRegion' = IF done THEN CursorWithout({r}) ELSE r
             /\ work' = [w \in Works |-> IF w \in page
                            THEN [place |-> "Ready", epoch |-> 0, region |-> r] ELSE work[w]]
             /\ Readied(page, [w \in page |-> r])
             /\ counts' = [counts EXCEPT !.work = @ + k,
                                         !.activeRegions = @ - (IF done THEN 1 ELSE 0)]
    /\ UNCHANGED <<occ, sequence, lastRun, run, active, parkVars, archiveVars, leaseVars, waitVars>>

-----------------------------------------------------------------------------
(* Selection.  Run q is visited at Visit(q) in the scan that starts after  *)
(* the Run served last.                                                    *)

LastOfScan == Max(Runs)
Visit(q) == IF q > lastRun THEN q ELSE q + LastOfScan

Offered(q, caps) == {i \in DOMAIN ready[q]: Capability[ready[q][i]] \in caps \cup {NoOwner}}

Score(w) == Priority[w] + (sequence - since[w]) \div AgingInterval

(* The first item of the greatest score among those offered.               *)
Best(q, caps) ==
    LET offered == Offered(q, caps)
    IN ready[q][CHOOSE i \in offered: \A j \in offered:
                   LET si == Score(ready[q][i])  sj == Score(ready[q][j])
                   IN sj < si \/ (sj = si /\ i <= j)]

Candidates(caps) ==
    {q \in Runs: /\ Cardinality({w \in ActiveWorks: RunOfWork(w) = q}) < MaxActivePerRun
                 /\ Offered(q, caps) # {}}

Quantum(q) == BaseQuantum * run[q].weight

(* virtual_run_quantum refuses a product out of the exact range, and with  *)
(* it the claim; what is granted in rounds stays below a cost in range.    *)
QuantaExact(caps) == \A q \in Candidates(caps): Quantum(q) <= MaxExact

Rounds(q, caps) == RequiredRounds(run[q].deficit, Cost[Best(q, caps)], Quantum(q))
FewestRounds(caps) == Min({Rounds(q, caps): q \in Candidates(caps)})

Selected(caps) ==
    LET fewest == FewestRounds(caps)
        payers == {q \in Candidates(caps): Rounds(q, caps) = fewest}
    IN CHOOSE q \in payers: \A p \in payers: Visit(q) <= Visit(p)

FaultyNextDeficit(q, caps) ==
    LET rounds == FewestRounds(caps)
    IN CASE ~QuantaExact(caps) -> Refused
         [] QuantaExact(caps) /\ q = Selected(caps) ->
              AfterClaim(run[q].deficit, Cost[Best(q, caps)], Quantum(q), rounds)
         [] OTHER ->
              AfterIncompleteRounds(run[q].deficit, Cost[Best(q, caps)], Quantum(q), rounds)

NextDeficit(q, caps) ==
    LET rounds == FewestRounds(caps)
        chosen == Selected(caps)
        credited == IF Visit(q) < Visit(chosen) THEN rounds ELSE Max({rounds, 1}) - 1
    IN CASE ~QuantaExact(caps) -> Refused
         [] QuantaExact(caps) /\ q = chosen ->
              AfterClaim(run[q].deficit, Cost[Best(q, caps)], Quantum(q), rounds)
         [] OTHER ->
              AfterIncompleteRounds(run[q].deficit, Cost[Best(q, caps)], Quantum(q), credited)

-----------------------------------------------------------------------------
(* Claims and their leases.                                                *)

(* proposed_pinned_lease: the next lease of a slot at its clock head.      *)
LeaseFree(s, o) == leases[s].owner \in {NoOwner, o} \/ leases[s].expires <= clock[s]
NextLease(s, o) == [owner |-> o, epoch |-> leases[s].epoch + 1, expires |-> clock[s] + TTL]

FaultySlotFree(s) == TRUE
SlotFree(s) == \A w \in ActiveWorks: active[w].slot # s

Claim(o, s, caps) ==
    /\ LeaseFree(s, o) /\ SlotFree(s)
    /\ Cardinality(ActiveWorks) < MaxActive
    /\ Candidates(caps) # {}
    /\ LET q == Selected(caps)
           w == Best(q, caps)
           e == work[w].epoch + 1
           lease == NextLease(s, o)
       IN /\ work[w].place = "Ready" /\ e <= MaxEpoch /\ occ[w][e] = NoOcc
          /\ \A p \in Candidates(caps): NextDeficit(p, caps) # Refused
          /\ run' = [p \in Runs |-> IF p \in Candidates(caps)
                        THEN [run[p] EXCEPT !.deficit = NextDeficit(p, caps)] ELSE run[p]]
          /\ ready' = [ready EXCEPT ![q] = RemoveAt(@, CHOOSE i \in DOMAIN @: @[i] = w)]
          /\ since' = [since EXCEPT ![w] = -1]
          /\ sequence' = sequence + 1 /\ lastRun' = q
          /\ active' = [active EXCEPT ![w] = [owner |-> o, epoch |-> e, slot |-> s,
                                              lease |-> lease.epoch, expires |-> lease.expires]]
          /\ work' = [work EXCEPT ![w].place = "Active", ![w].epoch = e]
          /\ occ' = [occ EXCEPT ![w][e] = [state |-> "Running", owner |-> o, lease |-> lease.epoch,
                                           region |-> work[w].region]]
          /\ region' = [region EXCEPT ![work[w].region].hotOcc = @ + 1]
          /\ counts' = [counts EXCEPT !.occ = @ + 1]
          /\ leases' = [leases EXCEPT ![s] = lease]
    /\ UNCHANGED <<activeRegions, lastRegion, parkVars, archiveVars, clock, waitVars>>

(* A claim, or a renewal, of another scheduler in the Store: only the      *)
(* lease of the slot is shared with this one.                              *)
ForeignClaim(o, s) ==
    /\ LeaseFree(s, o) /\ leases[s].epoch < MaxForeign
    /\ leases' = [leases EXCEPT ![s] = NextLease(s, o)]
    /\ UNCHANGED <<regionVars, work, occ, frontierVars, active, parkVars, counts, archiveVars,
                   clock, waitVars>>

(* The durable lease is still the one the claim holds.                     *)
FaultyLeaseHeld(w) == leases[active[w].slot].owner = active[w].owner

LeaseHeld(w) ==
    LET c == active[w]
    IN leases[c.slot] = [owner |-> c.owner, epoch |-> c.lease, expires |-> c.expires]

(* A later fence of its slot has been issued than the one the claim holds. *)
Overtaken(w) == active[w].lease < leases[active[w].slot].epoch

(* Frontier, work leaf and occurrence leaf of an active work agree.        *)
LeavesAgree(w) ==
    LET c == active[w]
    IN /\ work[w].place = "Active" /\ work[w].epoch = c.epoch
       /\ occ[w][c.epoch].state = "Running"
       /\ occ[w][c.epoch].owner = c.owner /\ occ[w][c.epoch].lease = c.lease

Expired(w) == clock[active[w].slot] >= active[w].expires

RenewLease(w) ==
    /\ w \in ActiveWorks /\ LeaseHeld(w) /\ LeavesAgree(w)
    /\ LET c == active[w]
           lease == NextLease(c.slot, c.owner)
       IN /\ ~Expired(w) /\ lease.expires > c.expires
          /\ active' = [active EXCEPT ![w].lease = lease.epoch, ![w].expires = lease.expires]
          /\ occ' = [occ EXCEPT ![w][c.epoch].lease = lease.epoch]
          /\ leases' = [leases EXCEPT ![c.slot] = lease]
    /\ UNCHANGED <<regionVars, work, frontierVars, parkVars, counts, archiveVars, clock, waitVars>>

(* A clock authority publishes a later observation in a slot's scope.      *)
Observe(s) ==
    /\ clock[s] < MaxTime
    /\ clock' = [clock EXCEPT ![s] = @ + 1]
    /\ UNCHANGED <<regionVars, work, occ, frontierVars, active, parkVars, counts, archiveVars,
                   leases, waitVars>>

SetRunWeight(q, weight) ==
    /\ run' = [run EXCEPT ![q] = [weight |-> weight, deficit |-> 0]]
    /\ UNCHANGED <<regionVars, work, occ, ready, since, sequence, lastRun, active, parkVars, counts,
                   archiveVars, leaseVars, waitVars>>

-----------------------------------------------------------------------------
(* Parking.  Pages form a chain; work is added to the last one.            *)

Append1(chain, w) ==
    IF chain # <<>> /\ Cardinality(Last(chain)) < PageItems
    THEN [chain EXCEPT ![Len(chain)] = @ \cup {w}]
    ELSE Append(chain, {w})

Members(x) == UNION Range(pages[x])

(* The charge of a Wait, counted from its pages.                           *)
Charge(x) == [work |-> Cardinality(Members(x)), pages |-> Len(pages[x])]

SourceItems(charge) == 2 * charge.work + charge.pages
WakeItems(dir) == FoldSet(LAMBDA x, n: n + SourceItems(dir[x]), 0, Waits)

(* The directory is edited with the pages that change.                     *)
FaultyCharged(x, w) ==
    IF x \notin Waits THEN directory
    ELSE [directory EXCEPT ![x] = [work |-> @.work + 1, pages |-> 1]]

Charged(x, w) ==
    IF x \notin Waits THEN directory
    ELSE [directory EXCEPT ![x] = [work |-> @.work + 1,
                                   pages |-> @.pages + Len(Append1(pages[x], w)) - Len(pages[x])]]

Park(w, x) ==
    /\ parked[w] = NoOwner
    /\ Cardinality(Members(x)) < MaxReason
    /\ pages[x] # <<>> => w \notin Last(pages[x])
    /\ x \in Waits => WakeItems(Charged(x, w)) <= MaxWake
    /\ pages' = [pages EXCEPT ![x] = Append1(@, w)]
    /\ parked' = [parked EXCEPT ![w] = x]
    /\ directory' = Charged(x, w)
    /\ counts' = [counts EXCEPT !.parked = @ + 1]

-----------------------------------------------------------------------------
(* Dispositions of a running occurrence.                                   *)

FaultyDisposed(w, state, place) ==
    /\ occ' = [occ EXCEPT ![w] = [e \in Epochs |->
                  IF @[e] = NoOcc THEN NoOcc ELSE [@[e] EXCEPT !.state = state]]]
    /\ work' = [work EXCEPT ![w].place = place]
    /\ active' = [active EXCEPT ![w] = NoClaim]
    /\ UNCHANGED <<regionVars, sequence, lastRun, run, archiveVars, leaseVars, waitVars>>

Disposed(w, state, place) ==
    LET e == active[w].epoch
    IN /\ occ' = [occ EXCEPT ![w][e].state = state]
       /\ work' = [work EXCEPT ![w].place = place]
       /\ active' = [active EXCEPT ![w] = NoClaim]
       /\ UNCHANGED <<regionVars, sequence, lastRun, run, archiveVars, leaseVars, waitVars>>

End(w, verdict) ==
    /\ Disposed(w, verdict, "Terminal")
    /\ UNCHANGED <<ready, since, parkVars, counts>>

Retry(w) ==
    /\ Disposed(w, "RetryScheduled", "Ready")
    /\ Readied({w}, Homes)
    /\ UNCHANGED <<parkVars, counts>>

RetryParked(w, x) ==
    /\ Disposed(w, "RetryScheduled", "Parked")
    /\ Park(w, x)
    /\ UNCHANGED <<ready, since>>

ParkOn(w, x) ==
    /\ Disposed(w, "Parked", "Parked")
    /\ Park(w, x)
    /\ UNCHANGED <<ready, since>>

(* The command names owner, work epoch and lease epoch of this claim; one  *)
(* that names any other is refused.                                        *)
Fenced(w) == w \in ActiveWorks /\ LeaseHeld(w) /\ LeavesAgree(w)

Resolve(w) ==
    /\ Fenced(w) /\ ~Expired(w)
    /\ \/ \E verdict \in Verdicts: End(w, verdict)
       \/ Retry(w)
       \/ \E x \in Reasons: RetryParked(w, x) \/ ParkOn(w, x)

Recover(w) ==
    /\ Fenced(w) /\ Expired(w)
    /\ \/ \E verdict \in Verdicts \ {"Succeeded"}: End(w, verdict)
       \/ Retry(w)
       \/ \E x \in Reasons: RetryParked(w, x)

-----------------------------------------------------------------------------
(* A Wait is activated in the Run first; a separate command then wakes     *)
(* what is parked on the Waits that activation applied to.                 *)

AdmitActivation(a) ==
    /\ applied[a] = {}
    /\ LET pending == Targets[a] \ UNION {applied[b]: b \in Activations}
       IN pending # {} /\ applied' = [applied EXCEPT ![a] = pending]
    /\ UNCHANGED <<regionVars, work, occ, frontierVars, active, parkVars, counts, archiveVars,
                   leaseVars, consumed>>

Woken(a) == {x \in applied[a]: directory[x] # NoCharge}

ActivateWait(a) ==
    /\ applied[a] # {} /\ a \notin consumed
    /\ \A x \in Woken(a): directory[x] = Charge(x)
    /\ LET S == UNION {Members(x): x \in Woken(a)}
       IN /\ \A w \in S: parked[w] \in Woken(a) /\ work[w].place = "Parked"
          /\ Readied(S, Homes)
          /\ work' = [w \in Works |-> IF w \in S THEN [work[w] EXCEPT !.place = "Ready"] ELSE work[w]]
          /\ parked' = [w \in Works |-> IF w \in S THEN NoOwner ELSE parked[w]]
          /\ counts' = [counts EXCEPT !.parked = @ - Cardinality(S)]
    /\ pages' = [x \in Reasons |-> IF x \in Woken(a) THEN <<>> ELSE pages[x]]
    /\ directory' = [x \in Waits |-> IF x \in Woken(a) THEN NoCharge ELSE directory[x]]
    /\ consumed' = consumed \cup {a}
    /\ UNCHANGED <<regionVars, occ, sequence, lastRun, run, active, archiveVars, leaseVars, applied>>

-----------------------------------------------------------------------------
(* Migration: one region is split or several of a Run are merged.  The     *)
(* migrator certifies that the targets cover what the sources have left.   *)

SplitOrMerge(S, T) ==
    \/ Cardinality(S) = 1 /\ Cardinality(T) > 1
    \/ Cardinality(S) > 1 /\ Cardinality(T) = 1

Migratable(r) == region[r].life = "Active" /\ ~region[r].done /\ ~region[r].cert

FaultyRetired(r) == region[r]
Retired(r) == [region[r] EXCEPT !.life = "Retired"]
Remaining(S) == UNION {region[r].rest: r \in S}

MigrateRegion(S, T) ==
    /\ SplitOrMerge(S, T) /\ S \subseteq activeRegions
    /\ \A r \in S: Migratable(r)
    /\ \A r \in T: region[r] = NoRegion
    /\ Cardinality({RunOf[r]: r \in S \cup T}) = 1
    /\ \E share \in [Remaining(S) -> T]:
          region' = [r \in Regions |->
              CASE r \in S -> Retired(r)
                [] r \in T -> NewRegion({w \in DOMAIN share: share[w] = r})
                [] OTHER   -> region[r]]
    /\ activeRegions' = (activeRegions \ S) \cup T
    /\ lastRegion' = CursorWithout(S)
    /\ counts' = [counts EXCEPT !.regions = @ + Cardinality(T),
                                !.activeRegions = @ - Cardinality(S) + Cardinality(T)]
    /\ UNCHANGED <<work, occ, frontierVars, active, parkVars, archiveVars, leaseVars, waitVars>>

-----------------------------------------------------------------------------
(* Compaction replaces the leaves of a closed region by a certificate over *)
(* an archive manifest and an entry in the archived-work index.            *)

HotWork(r) == {w \in Works: Hot(w) /\ work[w].region = r}
HotOcc(r) == {we \in Works \X Epochs: occ[we[1]][we[2]].region = r}

Closed(r) == region[r].life = "Retired" \/ (region[r].life = "Active" /\ region[r].done)

(* What the archive manifest accepts.                                      *)
ArchivableOcc(r) == \A we \in HotOcc(r): occ[we[1]][we[2]].state \in Final

Compactable(r) ==
    /\ Closed(r) /\ ~region[r].cert
    /\ HotWork(r) # {} /\ HotOcc(r) # {}
    /\ Cardinality(HotWork(r)) = region[r].hotWork /\ Cardinality(HotOcc(r)) = region[r].hotOcc
    /\ \A w \in HotWork(r): /\ work[w].place = "Terminal" /\ index[w] = 0
                            /\ w \notin ReadyWorks \cup ActiveWorks
                            /\ occ[w][work[w].epoch] # NoOcc
    /\ ArchivableOcc(r)

Compact(r) ==
    /\ Compactable(r)
    /\ LET gone == HotWork(r)
       IN /\ cold' = [w \in Works |-> IF w \in gone THEN occ[w] ELSE cold[w]]
          /\ index' = [w \in Works |-> IF w \in gone THEN work[w].epoch ELSE index[w]]
          /\ occ' = [w \in Works |-> IF w \in gone THEN [e \in Epochs |-> NoOcc] ELSE occ[w]]
          /\ work' = [w \in Works |-> IF w \in gone THEN NoWork ELSE work[w]]
    /\ region' = [region EXCEPT ![r].hotWork = 0, ![r].hotOcc = 0, ![r].cert = TRUE]
    /\ cert' = [cert EXCEPT ![r] = "Active"]
    /\ counts' = [counts EXCEPT !.work = @ - region[r].hotWork, !.occ = @ - region[r].hotOcc,
                                !.certs = @ + 1]
    /\ UNCHANGED <<activeRegions, lastRegion, frontierVars, active, parkVars, leaseVars, waitVars>>

Archived(r) == {we \in Works \X Epochs: cold[we[1]][we[2]].region = r}

Inserted(S) == {we \in S: occ[we[1]][we[2]] = NoOcc}

Rehydrate(r, S) ==
    /\ cert[r] = "Active" /\ region[r].cert
    /\ S # {} /\ S \subseteq Archived(r)
    /\ \A we \in S: occ[we[1]][we[2]] \in {NoOcc, cold[we[1]][we[2]]}
    /\ occ' = [w \in Works |-> [e \in Epochs |->
                   IF <<w, e>> \in Inserted(S) THEN cold[w][e] ELSE occ[w][e]]]
    /\ region' = [region EXCEPT ![r].hotOcc = @ + Cardinality(Inserted(S))]
    /\ counts' = [counts EXCEPT !.occ = @ + Cardinality(Inserted(S))]
    /\ UNCHANGED <<activeRegions, lastRegion, work, frontierVars, active, parkVars, archiveVars,
                   leaseVars, waitVars>>

RetireArchive(r) ==
    /\ cert[r] = "Active" /\ region[r].cert
    /\ region[r].life = "Retired" /\ region[r].hotWork = 0
    /\ cert' = [cert EXCEPT ![r] = "Retired"]
    /\ region' = [region EXCEPT ![r].cert = FALSE]
    /\ UNCHANGED <<activeRegions, lastRegion, work, occ, frontierVars, active, parkVars, counts,
                   cold, index, leaseVars, waitVars>>

-----------------------------------------------------------------------------
Next ==
    \/ \E r \in Regions: Materialize(r) \/ Compact(r) \/ RetireArchive(r)
    \/ \E r \in Regions: \E S \in SUBSET Archived(r): Rehydrate(r, S)
    \/ \E S, T \in SUBSET Regions: MigrateRegion(S, T)
    \/ \E o \in Owners, s \in Slots, caps \in Offers: Claim(o, s, caps)
    \/ \E o \in Owners, s \in Slots: ForeignClaim(o, s)
    \/ \E w \in Works: RenewLease(w) \/ Resolve(w) \/ Recover(w)
    \/ \E q \in Runs, weight \in Weights: SetRunWeight(q, weight)
    \/ \E s \in Slots: Observe(s)
    \/ \E a \in Activations: AdmitActivation(a) \/ ActivateWait(a)

Spec == Init /\ [][Next]_vars

-----------------------------------------------------------------------------
(* Properties.                                                             *)

(* Every count kept beside the leaves agrees with the leaves: the scalar   *)
(* counts, the hot counts of each region that compaction compares, and the *)
(* index of the regions still to be read; and the frontier stays within    *)
(* its bound, beyond which materialisation would fail for good.            *)
CountsExact ==
    /\ Materialized <= MaxMaterialized
    /\ counts.regions = Cardinality({r \in Regions: region[r].life # "Absent"})
    /\ activeRegions = {r \in Regions: region[r].life = "Active" /\ ~region[r].done}
    /\ counts.activeRegions = Cardinality(activeRegions)
    /\ counts.parked = Cardinality({w \in Works: parked[w] # NoOwner})
    /\ counts.certs = Cardinality({r \in Regions: cert[r] # "None"})
    /\ counts.work = Cardinality({w \in Works: Hot(w)})
    /\ counts.occ = Cardinality({we \in Works \X Epochs: occ[we[1]][we[2]] # NoOcc})
    /\ \A r \in Regions: /\ region[r].hotWork = Cardinality(HotWork(r))
                         /\ region[r].hotOcc = Cardinality(HotOcc(r))

(* The place a work leaf names is where the work is, and nowhere else: one *)
(* entry of its Run's queue, one claim with its running occurrence, or one *)
(* page of its reason; ended work has an ended last occurrence.            *)
PlacedOnce ==
    \A w \in Works:
        /\ (work[w].place = "Ready") <=>
              \E q \in Runs, i \in 1..Cardinality(Works): i \in DOMAIN ready[q] /\ ready[q][i] = w
        /\ work[w].place = "Ready" =>
              /\ Cardinality({qi \in Runs \X (1..Cardinality(Works)):
                     qi[2] \in DOMAIN ready[qi[1]] /\ ready[qi[1]][qi[2]] = w}) = 1
              /\ w \in Range(ready[RunOfWork(w)]) /\ since[w] \in 0..sequence
        /\ work[w].place = "Active" <=> w \in ActiveWorks
        /\ w \in ActiveWorks => LeavesAgree(w)
        /\ \A e \in Epochs: occ[w][e].state = "Running" => w \in ActiveWorks /\ active[w].epoch = e
        /\ work[w].place = "Parked" <=> parked[w] # NoOwner
        /\ work[w].place = "Terminal" => occ[w][work[w].epoch].state \in Final

(* The page chains, the parked leaves and the Wait directory say the same: *)
(* each parked work is in one page, only the last page of a chain has room *)
(* and the edited charge of a Wait is what its pages count to, so a wake   *)
(* of it is never refused as altered and never exceeds the source bound.   *)
ParkIndexExact ==
    /\ \A x \in Reasons:
          /\ Members(x) = {w \in Works: parked[w] = x}
          /\ FoldSeq(LAMBDA page, n: Cardinality(page) + n, 0, pages[x]) = Cardinality(Members(x))
          /\ \A i \in DOMAIN pages[x]: i < Len(pages[x]) => Cardinality(pages[x][i]) = PageItems
    /\ \A x \in Waits: directory[x] = Charge(x)
    /\ WakeItems(directory) <= MaxWake

(* Every state is of its type, and what is kept beside the leaves to find  *)
(* or to count them agrees with them: the counts, the placements and the   *)
(* index of parked work.                                                   *)
IndexesExact == TypeOK /\ CountsExact /\ PlacedOnce /\ ParkIndexExact

(* The lease of a slot fences its claims, although every scheduler of the  *)
(* Store hands it on: a claim holds the exact lease of its slot or a later *)
(* fence than its own has been issued, never another lease of the same     *)
(* epoch, and no two claims of the scheduler share a slot.                 *)
LeaseBacksClaim ==
    /\ \A w \in ActiveWorks: LeaseHeld(w) \/ Overtaken(w)
    /\ \A v, w \in ActiveWorks: v # w => active[v].slot # active[w].slot

(* No work of the source is lost or produced twice by paging, migration,   *)
(* compaction or retirement: it is still to be read in one active region,  *)
(* or a hot leaf, or in the archived-work index.                           *)
WorkConserved ==
    \A w \in UNION Range(Source):
        Cardinality({r \in Regions: region[r].life = "Active" /\ w \in region[r].rest})
          + (IF Hot(w) THEN 1 ELSE 0) + (IF index[w] # 0 THEN 1 ELSE 0) = 1

(* The rotation cursor names a region still in the index (one left behind  *)
(* by the last region is an integrity error of every later selection), and *)
(* the region it leads to can be read or migrated.                         *)
RotationAlive ==
    /\ lastRegion \in activeRegions \cup {None}
    /\ activeRegions # {} => Migratable(NextRegion)

(* A finished occurrence is never changed: it leaves the leaves only for   *)
(* the archive, comes back only as it was, and its epoch is not run again. *)
OccurrenceFinal ==
    [][\A w \in Works, e \in Epochs:
          /\ occ[w][e].state \notin {"Absent", "Running"} =>
                occ'[w][e] = occ[w][e] \/ (occ'[w][e] = NoOcc /\ cold'[w][e] = occ[w][e])
          /\ cold[w][e] # NoOcc => cold'[w][e] = cold[w][e] /\ occ'[w][e] \in {NoOcc, cold[w][e]}]_vars

(* Once the lease of its slot was handed on, to another worker after it    *)
(* expired or to the same one by another scheduler, a claim does nothing   *)
(* more: it is not renewed, resolved or recovered, its occurrence stays as *)
(* it is, and the lease never comes back to it.                            *)
OvertakenFenced ==
    [][\A w \in ActiveWorks: Overtaken(w) =>
          /\ active'[w] = active[w] /\ Overtaken(w)'
          /\ occ'[w][active[w].epoch] = occ[w][active[w].epoch]]_vars

(* The batched rounds are those of a cyclic scan that grants a quantum per *)
(* visit and stops at the first Run able to pay: the Run selected can pay  *)
(* in the last round, nobody visited earlier could, each is granted a      *)
(* quantum for every visit before the scan stopped and only the Run        *)
(* selected pays.  No settlement is refused, the quanta being exact.       *)
ScanSettled ==
    \A caps \in Offers: Candidates(caps) # {} /\ QuantaExact(caps) =>
        LET last == FewestRounds(caps)
            payer == Selected(caps)
            price(p) == Cost[Best(p, caps)]
            granted(p, k) == run[p].deficit + Quantum(p) * k
            earlier(p, k) == k < last \/ (k = last /\ Visit(p) < Visit(payer))
            visits(p) == Cardinality({k \in 1..last: earlier(p, k) \/ p = payer})
        IN /\ payer \in Candidates(caps) /\ granted(payer, last) >= price(payer)
           /\ \A p \in Candidates(caps), k \in 0..last: earlier(p, k) => granted(p, k) < price(p)
           /\ \A p \in Candidates(caps):
                 NextDeficit(p, caps) = granted(p, visits(p)) - (IF p = payer THEN price(p) ELSE 0)

(* A closed region all of whose work has ended can be compacted            *)
(* (specification.md 1220), however often it was retried or parked before: *)
(* verify_virtual_archive_work accepts it.                                 *)
ClosedRegionCompactable ==
    \A r \in Regions:
        /\ Closed(r) /\ ~region[r].cert /\ HotWork(r) # {}
        /\ \A w \in HotWork(r): work[w].place = "Terminal" /\ occ[w][work[w].epoch].state \in Final
        => Compactable(r)

(* An activation and the wake of the work parked on it are one commit      *)
(* (specification.md 1057): no work is parked on a Wait it applied to.     *)
WakeAtomic ==
    \A a \in Activations: \A x \in applied[a]: Members(x) = {}
=============================================================================
