----------------------------- MODULE WaitSources -----------------------------
(***************************************************************************)
(* Signals and timers (plugins activation-http and activation-timer, the   *)
(* WaitSourceDriver contract, coordinator.rs and pinned_wait.rs).  A       *)
(* producer's signal, or a scheduled timer, is a row of a spool; a driver  *)
(* picks a row and the pending Waits it will complete, writes that target  *)
(* set into the row, has the coordinator admit it with one compare-and-    *)
(* commit of the Store, and only then marks the row acknowledged.  Spool   *)
(* and Store are two databases, and every step between them can be lost.   *)
(*                                                                         *)
(* Activations, sources and Waits are positive numbers, so that the order  *)
(* of the spool's index and of the Store's maps is <; 0 is none.  The head *)
(* of the Store is known only as moved or not: a call of a driver is       *)
(* pinned to the head it began with, and a key cursor of another head is   *)
(* reset, so a commit drops the pins and the cursors of all.               *)
(***************************************************************************)
EXTENDS Integers, FiniteSets, FiniteSetsExt

CONSTANTS
    Waits, Runs,
    RunOf, SourceOf,    \* the Run and the source of a Wait
    Once,               \* the consume-once Waits
    Timers,             \* the sources that are timers; the others are signal keys
    Activations,        \* what may complete a Wait
    Direct,             \* the activations a control client submits itself; the others
                        \* are rows of a spool, under identities of their own
    Fires,              \* the source an activation fires
    Values,             \* signal values told apart
    HttpDrivers, TimerDrivers,
    Deployments,        \* the drivers and Runs that may be there together
    Handlers, HomeOf,   \* HTTP requests in progress, and the driver of their process
    MaxTargets, MaxWaiters, KeyScan, TimerScan,
    MaxFaults           \* bound on crashes, lost answers and commits of others

None == 0
Drivers == HttpDrivers \cup TimerDrivers

ASSUME SourcesAssumption ==
    /\ Waits \subseteq Nat \ {0} /\ Activations \subseteq Nat \ {0}
    /\ IsFiniteSet(Waits) /\ IsFiniteSet(Activations)
    /\ RunOf \in [Waits -> Runs] /\ SourceOf \in [Waits -> Nat \ {0}]
    /\ Once \subseteq {w \in Waits : SourceOf[w] \notin Timers}
    /\ Fires \in [Activations -> Nat \ {0}]
    /\ Direct \subseteq Activations
    /\ Deployments \subseteq [drivers: SUBSET Drivers, runs: SUBSET Runs]
    /\ HttpDrivers \cap TimerDrivers = {} /\ HomeOf \in [Handlers -> HttpDrivers]
    /\ {MaxTargets, KeyScan, TimerScan} \subseteq Nat \ {0} /\ {MaxWaiters, MaxFaults} \subseteq Nat

VARIABLES
    online,     \* the drivers and Runs there are
    row,        \* the spools: one row of each activation
    due,        \* the timer activations whose time has come
    wait, run,  \* Waits and Continuations of the Store
    fenced,     \* the Runs whose cancellation is admitted and not finished
    receipt,    \* activation receipts of the Store
    driver,     \* what each driver is doing
    handler,    \* what each HTTP request is doing
    waiters, waiterCount,   \* registered waiters of a process, and its counter
    accepted,   \* the requests answered 202
    faults

storeVars == <<wait, run, fenced, receipt>>
httpVars == <<handler, waiters, waiterCount, accepted>>
vars == <<online, row, due, storeVars, driver, httpVars, faults>>

-----------------------------------------------------------------------------
NoRow == [stored |-> FALSE, value |-> None, selected |-> {}, acked |-> FALSE]
NoReceipt == [targets |-> {}, value |-> None, applied |-> {}, ready |-> {}]
Resting(cursor) == [at |-> "Idle", activation |-> None, targets |-> {}, pinned |-> FALSE,
                    cursor |-> cursor]
NoRequest == [at |-> "Idle", activation |-> None, value |-> None]

RowRecord == [stored: BOOLEAN, value: Values \cup {None}, selected: SUBSET Waits, acked: BOOLEAN]
WaitRecord == [state: {"Absent", "Pending", "Completed", "Cancelled"}, by: Activations \cup {None}]
ReceiptRecord == [targets: SUBSET Waits, value: Values \cup {None}, applied: SUBSET Waits,
                  ready: SUBSET Runs]
DriverRecord == [at: {"Idle", "Scanning", "Selected", "Received", "Admitted"},
                 activation: Activations \cup {None}, targets: SUBSET Waits, pinned: BOOLEAN,
                 cursor: Nat]
HandlerRecord == [at: {"Idle", "Persisted", "Registered"}, activation: Activations \cup {None},
                  value: Values \cup {None}]

TimerRows == {a \in Activations \ Direct : Fires[a] \in Timers}
SignalRows == (Activations \ Direct) \ TimerRows
RowsOf(d) == IF d \in TimerDrivers THEN TimerRows ELSE SignalRows

Init ==
    /\ online \in Deployments
    /\ row = [a \in Activations |-> NoRow]
    /\ due = {}
    /\ wait = [w \in Waits |-> [state |-> "Absent", by |-> None]]
    /\ run = [q \in Runs |-> IF q \in online.runs THEN "Ready" ELSE "Absent"]
    /\ fenced = {}
    /\ receipt = [a \in Activations |-> NoReceipt]
    /\ driver = [d \in Drivers |-> Resting(None)]
    /\ handler = [h \in Handlers |-> NoRequest]
    /\ waiters = [d \in HttpDrivers |-> {}] /\ waiterCount = [d \in HttpDrivers |-> 0]
    /\ accepted = {}
    /\ faults = 0

-----------------------------------------------------------------------------
(* The head moves: every call in progress is pinned to an older one, and   *)
(* every cursor of signal keys is stale.                                   *)
HeadMoved(f) ==
    driver' = [d \in Drivers |->
                 [f[d] EXCEPT !.pinned = FALSE,
                              !.cursor = IF d \in HttpDrivers THEN None ELSE @]]

(* Runs: one Wait after the other.                                         *)
WaitsOf(q) == {w \in Waits : RunOf[w] = q}
Ahead(q) == {w \in WaitsOf(q) : wait[w].state = "Absent"}
Pending(s) == {w \in Waits : SourceOf[w] = s /\ wait[w].state = "Pending"}

RunStep == HeadMoved(driver) /\ UNCHANGED <<online, row, due, receipt, httpVars, faults>>

(* A Ready Run is claimed and driven to its next Wait or to its end.       *)
ParkWait(q) ==
    /\ run[q] = "Ready" /\ q \notin fenced /\ Ahead(q) # {}
    /\ run' = [run EXCEPT ![q] = "Waiting"]
    /\ wait' = [wait EXCEPT ![Min(Ahead(q))].state = "Pending"]
    /\ RunStep /\ UNCHANGED fenced

Complete(q) ==
    /\ run[q] = "Ready" /\ q \notin fenced /\ Ahead(q) = {}
    /\ run' = [run EXCEPT ![q] = "Completed"]
    /\ RunStep /\ UNCHANGED <<wait, fenced>>

CancelledWait(q) ==
    [w \in Waits |-> IF RunOf[w] = q /\ wait[w].state = "Pending"
                     THEN [wait[w] EXCEPT !.state = "Cancelled"] ELSE wait[w]]

(* cancel_run: a commit that fences the Run, pages, and a last commit.     *)
(* Between them the Run's Waits are as they were, and a canceller that     *)
(* ends there leaves them so until somebody repeats its request.           *)
BeginCancel(q) ==
    /\ run[q] \in {"Ready", "Waiting"} /\ q \notin fenced
    /\ fenced' = fenced \cup {q}
    /\ RunStep /\ UNCHANGED <<wait, run>>

FinishCancel(q) ==
    /\ q \in fenced
    /\ fenced' = fenced \ {q}
    /\ run' = [run EXCEPT ![q] = "Cancelled"]
    /\ wait' = CancelledWait(q)
    /\ RunStep

-----------------------------------------------------------------------------
(* Ingress.  The exact request is a row before anybody waits for it.       *)

Schedule(a) ==
    /\ TimerDrivers \cap online.drivers # {}
    /\ a \in TimerRows /\ ~row[a].stored
    /\ row' = [row EXCEPT ![a].stored = TRUE]
    /\ UNCHANGED <<online, due, storeVars, driver, httpVars, faults>>

(* Timer activations are numbered in the order of their due times.         *)
FallDue(a) ==
    /\ TimerDrivers \cap online.drivers # {}
    /\ a \in TimerRows \ due /\ \A b \in TimerRows : b < a => b \in due
    /\ due' = due \cup {a}
    /\ UNCHANGED <<online, row, storeVars, driver, httpVars, faults>>

(* persist_prepared_request: a new row, the same request again, or 409.    *)
Persist(h, a, v) ==
    /\ HomeOf[h] \in online.drivers
    /\ handler[h] = NoRequest /\ a \in SignalRows
    /\ row[a].stored => row[a].value = v
    /\ row' = [row EXCEPT ![a].stored = TRUE, ![a].value = v]
    /\ IF row[a].acked
       THEN accepted' = accepted \cup {<<a, v>>} /\ UNCHANGED handler
       ELSE /\ handler' = [handler EXCEPT ![h] = [at |-> "Persisted", activation |-> a, value |-> v]]
            /\ UNCHANGED accepted
    /\ UNCHANGED <<online, due, storeVars, driver, waiters, waiterCount, faults>>

RegisterWaiter(h) ==
    LET d == HomeOf[h] IN
    /\ handler[h].at = "Persisted" /\ waiterCount[d] < MaxWaiters
    /\ handler' = [handler EXCEPT ![h].at = "Registered"]
    /\ waiters' = [waiters EXCEPT ![d] = @ \cup {h}]
    /\ waiterCount' = [waiterCount EXCEPT ![d] = @ + 1]
    /\ UNCHANGED <<online, row, due, storeVars, driver, accepted, faults>>

(* A waiter that a notification has taken out is not counted again.        *)
FaultyRemoved(d, h) == 1
Removed(d, h) == IF h \in waiters[d] THEN 1 ELSE 0

(* The response: 202 on a durable readback that finds the row acknowledged *)
(* (at once, when notified or at the end of the wait window), else 503.    *)
FaultyReadback(a) == row[a].selected # {}
Readback(a) == row[a].acked

Respond(h) ==
    LET d == HomeOf[h]  a == handler[h].activation IN
    /\ \/ handler[h].at = "Registered"
       \/ handler[h].at = "Persisted" /\ waiterCount[d] >= MaxWaiters
    /\ accepted' = IF handler[h].at = "Registered" /\ Readback(a)
                   THEN accepted \cup {<<a, handler[h].value>>} ELSE accepted
    /\ handler' = [handler EXCEPT ![h] = NoRequest]
    /\ waiters' = [waiters EXCEPT ![d] = @ \ {h}]
    /\ waiterCount' = [waiterCount EXCEPT ![d] =
                          @ - (IF handler[h].at = "Registered" THEN Removed(d, h) ELSE 0)]
    /\ UNCHANGED <<online, row, due, storeVars, driver, faults>>

-----------------------------------------------------------------------------
(* WaitSourceDriver::receive.                                              *)

Open(a) == row[a].stored /\ ~row[a].acked /\ (a \in TimerRows => a \in due)
RetainedRows(d) == {a \in RowsOf(d) : Open(a) /\ row[a].selected # {}}
FreshRows(d) == {a \in RowsOf(d) : Open(a) /\ row[a].selected = {}}

Handed(d, a, targets) ==
    driver' = [driver EXCEPT ![d].at = "Received", ![d].activation = a, ![d].targets = targets]

(* The first read: a selection retained earlier is delivered again.        *)
Poll(d) ==
    /\ driver[d].at = "Idle"
    /\ driver' = [driver EXCEPT
         ![d] = IF RetainedRows(d) # {}
                THEN [@ EXCEPT !.at = "Received", !.pinned = TRUE,
                               !.activation = Min(RetainedRows(d)),
                               !.targets = row[Min(RetainedRows(d))].selected]
                ELSE [@ EXCEPT !.at = "Scanning", !.pinned = TRUE]]
    /\ UNCHANGED <<online, row, due, storeVars, httpVars, faults>>

(* The first k members of S above a cursor.                                *)
PageAfter(S, cursor, k) ==
    {x \in S : x > cursor /\ Cardinality({y \in S : cursor < y /\ y < x}) < k}

(* select_source: a page of the pending Waits of a source, with at most    *)
(* one that is consume-once.                                               *)
Select(s) ==
    LET page == PageAfter(Pending(s), 0, IF s \in Timers THEN 1 ELSE MaxTargets)
    IN {w \in page : w \in Once => \A v \in page \cap Once : w <= v}

Selecting(d, a, cursor) ==
    driver' = [driver EXCEPT ![d].at = "Selected", ![d].activation = a,
                             ![d].targets = Select(Fires[a]), ![d].cursor = cursor]

Nothing(d, cursor) == driver' = [driver EXCEPT ![d] = Resting(cursor)]

(* Signals: the keys with pending Waits in turn, one row of a key.         *)
ScanSignals(d) ==
    LET keys == {s \in {SourceOf[w] : w \in Waits} \ Timers : Pending(s) # {}}
        seen == PageAfter(keys, driver[d].cursor, KeyScan)
        hits == {s \in seen : \E a \in FreshRows(d) : Fires[a] = s}
        After(s) == IF s = Max(keys) THEN None ELSE s
    IN IF hits # {}
       THEN Selecting(d, Min({a \in FreshRows(d) : Fires[a] = Min(hits)}), After(Min(hits)))
       ELSE Nothing(d, IF seen = {} THEN None ELSE After(Max(seen)))

(* The scan starts over at the end of the due rows.                        *)
FaultyTimerCursor(page, cursor) == IF page = {} THEN cursor ELSE Max(page)
TimerCursor(page, cursor) ==
    IF page = {} \/ Cardinality(page) < TimerScan THEN None ELSE Max(page)

(* Timers: the due rows in turn, the first with a pending Wait.            *)
ScanTimers(d) ==
    LET page == PageAfter(FreshRows(d), driver[d].cursor, TimerScan)
        hits == {a \in page : Pending(Fires[a]) # {}}
    IN IF hits # {} THEN Selecting(d, Min(hits), Min(hits))
       ELSE Nothing(d, TimerCursor(page, driver[d].cursor))

Scan(d) ==
    /\ driver[d].at = "Scanning" /\ driver[d].pinned
    /\ IF d \in TimerDrivers THEN ScanTimers(d) ELSE ScanSignals(d)
    /\ UNCHANGED <<online, row, due, storeVars, httpVars, faults>>

(* The selection is written into the row unless the row has one; the row   *)
(* is what is delivered.                                                   *)
FaultyMayRetain(a) == ~row[a].acked
MayRetain(a) == row[a].selected = {} /\ ~row[a].acked

Retain(d) ==
    LET a == driver[d].activation
        kept == IF MayRetain(a) THEN driver[d].targets ELSE row[a].selected
    IN /\ driver[d].at = "Selected"
       /\ row' = [row EXCEPT ![a].selected = kept]
       /\ IF row[a].acked THEN Nothing(d, driver[d].cursor) ELSE Handed(d, a, kept)
       /\ UNCHANGED <<online, due, storeVars, httpVars, faults>>

-----------------------------------------------------------------------------
(* Admission: of a delivery in hand, by a coordinator whose head has not   *)
(* moved.  A delivery admitted before is a replay if it is the same.       *)

FaultyWinners(targets) == targets
Winners(targets) == {w \in targets : wait[w].state = "Pending"}

(* validate_transitioning_run_sidecars: nothing is written to a Run that   *)
(* its cancellation owns, so the whole delivery is refused.                *)
FenceFree(targets) == \A w \in Winners(targets) : RunOf[w] \notin fenced

Admitted(a, targets, value) ==
    LET won == Winners(targets) IN
    /\ FenceFree(targets)
    /\ wait' = [w \in Waits |-> IF w \in won THEN [state |-> "Completed", by |-> a] ELSE wait[w]]
    /\ run' = [q \in Runs |-> IF \E w \in won : RunOf[w] = q THEN "Ready" ELSE run[q]]
    /\ receipt' = [receipt EXCEPT ![a] =
         [targets |-> targets, value |-> value, applied |-> won, ready |-> {RunOf[w] : w \in won}]]
    /\ UNCHANGED fenced

Receive(d) == driver[d].at = "Received" /\ driver[d].pinned

(* The commit was made; the driver hears of it or not.                     *)
Admit(d) ==
    LET a == driver[d].activation IN
    /\ Receive(d) /\ receipt[a] = NoReceipt
    /\ Admitted(a, driver[d].targets, row[a].value)
    /\ \/ HeadMoved([driver EXCEPT ![d].at = "Admitted"]) /\ UNCHANGED faults
       \/ HeadMoved([driver EXCEPT ![d] = Resting(None)])
             /\ faults < MaxFaults /\ faults' = faults + 1
    /\ UNCHANGED <<online, row, due, httpVars>>

(* A Conflict; the row keeps its target set and is first in line again.    *)
Refuse(d) ==
    /\ Receive(d) /\ receipt[driver[d].activation] = NoReceipt
    /\ ~FenceFree(driver[d].targets)
    /\ Nothing(d, driver[d].cursor)
    /\ UNCHANGED <<online, row, due, storeVars, httpVars, faults>>

Replay(d) ==
    LET a == driver[d].activation IN
    /\ Receive(d) /\ receipt[a] # NoReceipt
    /\ receipt[a].targets = driver[d].targets /\ receipt[a].value = row[a].value
    /\ driver' = [driver EXCEPT ![d].at = "Admitted"]
    /\ UNCHANGED <<online, row, due, storeVars, httpVars, faults>>

(* The control union admits one delivery, of any Waits of one source.      *)
AdmitWait(a, targets) ==
    /\ a \in Direct /\ receipt[a] = NoReceipt
    /\ \A w \in targets : wait[w].state # "Absent" /\ SourceOf[w] = Fires[a]
    /\ IF Fires[a] \in Timers THEN Cardinality(targets) = 1
       ELSE targets # {} /\ Cardinality(targets \cap Once) <= 1
    /\ Admitted(a, targets, None)
    /\ HeadMoved(driver)
    /\ UNCHANGED <<online, row, due, httpVars, faults>>

(* The row is acknowledged and the waiters of this process are notified.   *)
Acknowledge(d) ==
    LET a == driver[d].activation
        told == IF d \in TimerDrivers THEN {}
                ELSE {h \in waiters[d] : handler[h].activation = a}
    IN /\ driver[d].at = "Admitted" /\ row[a].selected # {}
       /\ row' = [row EXCEPT ![a].acked = TRUE]
       /\ driver' = [driver EXCEPT ![d] = Resting(@.cursor)]
       /\ waiters' = [e \in HttpDrivers |-> IF e = d THEN waiters[e] \ told ELSE waiters[e]]
       /\ waiterCount' = [e \in HttpDrivers |->
                            IF e = d THEN waiterCount[e] - Cardinality(told) ELSE waiterCount[e]]
       /\ UNCHANGED <<online, due, storeVars, handler, accepted, faults>>

(* A call that finds the head moved ends with a Conflict.                  *)
LoseRace(d) ==
    /\ driver[d].at \in {"Scanning", "Received"} /\ ~driver[d].pinned
    /\ Nothing(d, driver[d].cursor)
    /\ UNCHANGED <<online, row, due, storeVars, httpVars, faults>>

(* The process ends, with the HTTP requests it was serving.                *)
Crash(d) ==
    /\ faults < MaxFaults /\ faults' = faults + 1
    /\ driver' = [driver EXCEPT ![d] = Resting(None)]
    /\ handler' = [h \in Handlers |-> IF HomeOf[h] = d THEN NoRequest ELSE handler[h]]
    /\ waiters' = [e \in HttpDrivers |-> IF e = d THEN {} ELSE waiters[e]]
    /\ waiterCount' = [e \in HttpDrivers |-> IF e = d THEN 0 ELSE waiterCount[e]]
    /\ UNCHANGED <<online, row, due, storeVars, accepted>>

(* Somebody else commits.                                                  *)
OtherCommit ==
    /\ faults < MaxFaults /\ faults' = faults + 1
    /\ HeadMoved(driver)
    /\ UNCHANGED <<online, row, due, storeVars, httpVars>>

-----------------------------------------------------------------------------
StoreNext ==
    \/ \E q \in Runs :
          ParkWait(q) \/ Complete(q) \/ BeginCancel(q) \/ FinishCancel(q)
    \/ \E a \in Activations, targets \in SUBSET Waits : AdmitWait(a, targets)
Ingress ==
    \/ \E a \in Activations : Schedule(a) \/ FallDue(a)
    \/ \E h \in Handlers : \/ \E a \in Activations, v \in Values : Persist(h, a, v)
                           \/ RegisterWaiter(h) \/ Respond(h)
Drive(d) ==
    \/ Poll(d) \/ Scan(d) \/ Retain(d)
    \/ Admit(d) \/ Refuse(d) \/ Replay(d) \/ Acknowledge(d) \/ LoseRace(d)

Next == StoreNext \/ Ingress \/ (\E d \in online.drivers : Drive(d) \/ Crash(d)) \/ OtherCommit

Spec == Init /\ [][Next]_vars

(* Whoever runs a driver calls drive_wait_source again and again, and a    *)
(* call that was begun ends.                                               *)
FairSpec == Spec /\ \A d \in Drivers : WF_vars(d \in online.drivers /\ Drive(d))

-----------------------------------------------------------------------------
(* Properties.                                                             *)

WaitTypeOK ==
    /\ online \in Deployments
    /\ row \in [Activations -> RowRecord]
    /\ due \subseteq TimerRows
    /\ wait \in [Waits -> WaitRecord]
    /\ run \in [Runs -> {"Absent", "Ready", "Waiting", "Completed", "Cancelled"}]
    /\ fenced \subseteq Runs
    /\ receipt \in [Activations -> ReceiptRecord]
    /\ driver \in [Drivers -> DriverRecord]
    /\ handler \in [Handlers -> HandlerRecord]
    /\ waiters \in [HttpDrivers -> SUBSET Handlers] /\ waiterCount \in [HttpDrivers -> Nat]
    /\ \A d \in HttpDrivers : waiterCount[d] = Cardinality(waiters[d])
    /\ accepted \subseteq SignalRows \X Values
    /\ faults \in 0..MaxFaults

(* A producer told 202, and a row marked done, mean a decision in the      *)
(* Store; and whatever crashed or raced, what a driver holds of a row is   *)
(* the decision already made on it or the one that will be: a redelivery   *)
(* is never refused as a reuse of its activation.                          *)
DeliveryDecided ==
    /\ \A av \in accepted : row[av[1]].acked /\ row[av[1]].value = av[2]
    /\ \A a \in Activations \ Direct :
          /\ row[a].acked => receipt[a] # NoReceipt
          /\ receipt[a] # NoReceipt =>
                receipt[a].targets = row[a].selected /\ receipt[a].value = row[a].value
    /\ \A d \in Drivers :
          /\ driver[d].at \in {"Received", "Admitted"} =>
                driver[d].targets = row[driver[d].activation].selected
          /\ driver[d].at = "Admitted" => receipt[driver[d].activation] # NoReceipt

(* A Wait is completed by one activation of its own source, the one whose  *)
(* receipt claims it; a signal consumes at most one consume-once Wait; a   *)
(* Run waits exactly while it has a pending Wait.                          *)
WaitWonOnce ==
    /\ \A w \in Waits :
          /\ {a \in Activations : w \in receipt[a].applied}
                = IF wait[w].state = "Completed" THEN {wait[w].by} ELSE {}
          /\ wait[w].state = "Completed" => Fires[wait[w].by] = SourceOf[w]
    /\ \A a \in Activations : Cardinality(receipt[a].targets \cap Once) <= 1
    /\ \A q \in Runs :
          (run[q] = "Waiting") <=> (\E w \in WaitsOf(q) : wait[w].state = "Pending")

(* Nothing decided is decided again: the target set of a row, a receipt,   *)
(* the state of a finished Wait and an acknowledgement never change.       *)
DecisionsFinal ==
    [][/\ \A a \in Activations :
             /\ row[a].selected # {} => row'[a].selected = row[a].selected
             /\ receipt[a] # NoReceipt => receipt'[a] = receipt[a]
             /\ row[a].acked => row'[a].acked
       /\ \A w \in Waits : wait[w].state \in {"Completed", "Cancelled"} => wait'[w] = wait[w]]_vars

(* A row that could be delivered does not stay so: it is acknowledged, or  *)
(* the Waits it could complete are gone.  A retained target set is always  *)
(* delivered in the end, also when its Waits are gone.  The property asks  *)
(* that no Run stays fenced for ever: a driver is handed a retained row    *)
(* first, so one row for the Run of a canceller that ended between its     *)
(* pages keeps every driver of the spool busy until the cancellation is    *)
(* repeated.                                                               *)
Deliverable(a) == Open(a) /\ (row[a].selected # {} \/ Pending(Fires[a]) # {})
SignalsDelivered ==
    (\A q \in Runs : []<>(q \notin fenced)) => \A a \in Activations : []<>(~Deliverable(a))
=============================================================================
