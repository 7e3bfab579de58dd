# Verification of cymule

cymule is a semantic execution fabric: a client starts a Run of a sealed Plan, the
framework drives it through Attempts, scopes, component calls, waits and Effects on the
outside world, and keeps every decision in one append-only, content-addressed history
that survives crashes and can be replayed. These modules model the parts of it whose
correctness is hard to test, check them with TLC on small instances and prove the central
results with TLAPS for every instance.

Paths below are relative to `src/`.

## 1. Inventory

### Parts, state, operations

| Part | State it keeps | Operations | Modelled by |
|---|---|---|---|
| Run reducer, `crates/cymule-core/src/model.rs` | per Run: status, epoch, Plan, binding, scopes, Effects, obligations, Attempts, world settlement, and the incremental `RunDerivedIndex` | one Event per accepted command on a Run: start, begin/yield Attempt, advance epoch, open/commit/abort scope, propose Effect, six Effect transitions, update binding, migrate, complete, fail, cancel | `RunReducer` |
| In-memory Machine, `crates/cymule-core/src/machine.rs` | commands, receipts, batches, admissions, Events, archive base | submit, submit with an archive lookup, replay, compact, snapshot, restore | `CommandRegister` (what it promises); detail planned |
| Pinned Machine, `crates/cymule-core/src/machine/pinned.rs`, `inline_scope.rs`, `pinned_compaction.rs` | the authority frontier of a StateRoot: Run currents, command index, paged transitions | prepare a batch from exact reads; begin, page and finalise a paged transition; admit material; compact | `DurableCommands` |
| Durable coordinator, `crates/cymule-durable/src/coordinator.rs`, `pinned_machine.rs`, `state_root.rs` | the pinned head of one handle; everything else is in the Store | one prepared StateRoot and one compare-and-commit per operation | `DurableCommands` |
| Store contract, `crates/cymule-durable/src/store.rs` | a head; immutable objects; archive; reclamation receipts | load, compare_and_commit, advance and reconcile cold reclamation | `HeadStore` |
| Directory store, `plugins/directory-store/src/lib.rs` | object files, head file, staging files, two lock files | the same, as sequences of system calls | `DirectoryStore` |
| SQLite store, `plugins/store-sqlite` | the same in tables | the same, one immediate transaction each | planned |
| Continuation driver, `executor.rs`, `coordinator.rs`, `clock.rs`; `plugins/clock-system` | Continuation (status, epoch, fence, claim), outbox, leases, logical clock heads | start, claim, take over, step, dispatch and reconcile an Effect, park, finish | `EffectDispatch` (components, waits and nested frames planned) |
| Effect provider, `plugins/test-adapter/src/main.rs`, contract in `crates/cymule-runtime/src/plugin.rs` | one ledger row per intent, the world | dispatch, reconcile | `EffectProvider` |
| Waits, `pinned_wait.rs`, `wait_source.rs`; `plugins/activation-http`, `activation-timer` | pending waits by source; spools of activations, their target sets and acknowledgements; waiters of HTTP requests | persist or schedule, select targets, admit to waits, acknowledge, answer; park and cancel a wait | `WaitSources` (input waits and results left out) |
| Retry, `retry.rs` | retry timers of component attempts | schedule, fire | planned |
| Virtual work, `crates/cymule-profile-protocol/src/virtual_work.rs`, `cymule-virtual` | regions of a lazily read source, ready queues, deficits, claims, parked pages and their directory, counts, archive certificates, slot leases | materialise, claim, renew, recover, resolve (finish, retry, park), wake, migrate regions, compact, rehydrate, retire | `VirtualFairness`, `VirtualWork` |
| Evolution, `crates/cymule-profile-protocol/src/evolution`, `cymule-evolution` | definition revisions and their heads, templates and links, retained Plans and edges, decisions with their evidence and transitions, occurrence pins, migration records | publish, register, relink, patch, set a rollout, select, shadow, observe, gate, migrate, restart | `Evolution` (restart left out) |
| Resources, `resource.rs`, `cymule-resource`, `coordinator/resource_handoff.rs`; `plugins/resource-fs`, `resource-object-store` | write sessions, publications, retention families, handoffs | begin, write, commit, release, hand off, delete | planned |
| Agents, `agent.rs`, `coordinator/agent_workspace.rs` | sessions, target claims, streams, workspaces | claim a target, reserve, publish, merge | planned |
| Plan language and canonical form, `ir.rs`, `canonical.rs` | none | validate, encode, hash | as constants and assumptions |
| Authenticated collections | none | Merkle map and log with proofs | planned (TLC only) |
| Runtime, CLI, SDKs, compiler, observability, test harness | no authority of their own | composition, transport, build | not modelled |

### How they interact

A client command reaches a coordinator. The coordinator is pinned to the Store head it saw
last; it reads only through a resolver that refuses a manifest which is no longer current,
prepares the complete next StateRoot (the pinned Machine decides, the reducer's rules are
applied to exact reads), and publishes it with one `compare_and_commit`. All concurrency
between processes is therefore at the head, and every shared structure changes in one step
of the Store, which each adapter has to build out of smaller ones. A batch that ends a Run,
or closes a scope too large for one publication, is spread over several: the Run is fenced
(`Transitioning`) by the first and released by the last.

### Hard behaviours

Several coordinators racing for the head; a process dying between any two publications or,
inside an adapter, between any two system calls; a commit whose outcome is unknown; a request
sent again after its admission was compacted into the archive; state frozen by the first page
of a transition and used by the last; indices kept incrementally beside the data they index;
epochs and fences that make a late owner harmless; lock-free readers beside a sweeping writer;
an activation that crosses two databases; selection arithmetic done in batches; evidence that
arrives after the decision it is about has been superseded.
`PROJECT.json` lists each under `hazards`, with its line and the properties aimed at it.

## 2. Modules

| Module | What it is |
|---|---|
| `RunReducer` | the reducer of one Run, 19 actions |
| `RunReducerProofs` | its theorems |
| `HeadStore` | the abstract Store |
| `DirectoryStore`, `DirectoryStoreProofs` | the adapter, step by step; the theorem about the abstract Store, that the adapter implements it and answers truthfully |
| `CommandRequests` | what a client may ask |
| `CommandRegister`, `CommandRegisterProofs` | the abstract promise of command admission and its theorem |
| `DurableCommands`, `DurableCommandsProofs` | coordinators, paged transitions and compaction; that they implement `CommandRegister` |
| `EffectProvider` | the settlement ledger of an Effect provider |
| `EffectDispatch`, `EffectDispatchProofs` | several executors driving one Run over `EffectProvider`: claims, outbox, dispatch, resolution, cancellation; its theorems |
| `WaitSources`, `WaitSourcesProofs` | the two spools of activations, their drivers, HTTP producers and the Waits of the Store; its theorems |
| `VirtualFairness` | the arithmetic of weighted selection |
| `VirtualWork`, `VirtualWorkProofs` | the scheduler of virtual work over `VirtualFairness`; its theorems |
| `Evolution`, `EvolutionProofs` | definitions, templates, rollout decisions and their evidence; its theorems |
| `MC...` | finite instances for TLC |

A definition named `Faulty...` states a plausible coding error of the definition after it.
Nothing uses it; substituted for that definition it makes the property named in
`PROJECT.json` fail, which shows that the property depends on the code.

### RunReducer

State: the fields of `RunProjection` and of `RunDerivedIndex`, each by its name. A key
missing from a map of the projection is the value `"None"`. Actions: one per command that is
accepted, with the admission rules of `Machine` (`machine.rs`) and the guards of the Event it
applies (`model.rs`) together; a refused command changes nothing because the Machine restores
the projection entry, and is not a step. Identities of scopes, Effects and obligations are
digests over Plan, location and arguments, so what they determine (parent, owning scope,
profile) are constant functions. Artifacts are left out except the execution binding; the
contents of results and failures are data.

The point of the module is the index: the reducer decides whether a scope may close, whether
the Run may complete and which Effects an end must cancel from counts and sets it edits with
every Event. `DerivedStateExact` compares them with `rebuild`, the definition from scratch.

### HeadStore and DirectoryStore

`HeadStore` is the contract of `DurableStore`: files appear (`Stage`), the head moves by a
compare-and-commit to a manifest all of whose objects are there (`Commit`), a reclamation
publishes a head that pins a receipt naming what it will delete (`Describe`, `Advance`), and
files no head needs are deleted (`Sweep`).

`DirectoryStore` is the adapter. One step is one file-system operation another process can
see, or a run of them under a lock that excludes the others. Each process runs one operation
at a time: load, read an object, commit, advance a reclamation, reconcile one. `Crash` ends a
process at any point (its locks go, its files stay), `Fail` makes its next system call fail.
Reads are lock-free: head, files, head again. Contents, encoding and size limits are data;
the `sync` of the directory is a step because failing there is what `CommitOutcomeUnknown`
is for. A file system that loses synced data is outside the model.

### CommandRequests, CommandRegister and DurableCommands

A request is a list of commands with the precondition token of each Run it touches. A token
(`pre:epoch:last_event`) never repeats for a Run, so the number of commands applied to the
Run stands for it. Actor, arguments and material are part of the request: equality of
requests is equality of the intent and material digests.

`CommandRegister` has the promise: a request is applied whole, once, and on exactly the
state its client saw; a client is told so only if it happened.

`DurableCommands` has the published StateRoot (`head`), what each coordinator has prepared
and not yet published (`stage`), and the request it drives (`job`). The history is kept
whole with marks for what compaction moved to the archive, so that `Resolve` can look a
request up the way `prepare_command_batch_internal` does: reservations of paged transitions,
hot index, archive. Commands are told apart as far as admission does: `StartRun`, an ordinary
step, the close of a scope (inline or paged), the end of a Run (always paged). What a step
does inside its Run is `RunReducer`'s subject and left out here. Not modelled: receipts of
compaction requests, profile sidecars in the same commit, byte and count limits of a batch.
A stale or refused request records nothing on this path and is not a step.

### EffectProvider and EffectDispatch

`EffectProvider` has the ledger of the reference adapter: a row is written before the world is
touched, a second transaction settles it, and a reconciliation without a row writes the terminal
one. A request may arrive at any time after it was sent, also when its caller has gone, or never.

`EffectDispatch` has one Run: its Continuation (`run`), its outbox (`out`), the head of its clock
scope (`clock`, `holder`), the executors (`worker`: the place in the drive, the claim it holds
and the answer it has), an operator's resolution (`resolver`) and a cancellation. One action is
one publication of the coordinator or one call of the provider. A publication is a
compare-and-commit on the head its coordinator refreshed just before, so the read and the
boundary derived from it are one step; a compare lost to another Run ends the drive and is the
same as `Crash`. The exception is the read that the claim of an Effect leaves behind, used after
the provider has answered: `pinned` says whose read is still of the current revision. Epoch and
fence of a Continuation move together, so one counter stands for both. An intent is claimed once,
so its owner names the provider attempt. A member of `Plans` has the Effect steps of the root
region, their dispatch policies, and whether the root Scope closes in one publication or page by
page; `MaxFence` bounds the claims of a Run of each Plan. `sent`, `released` and `author` are history variables that no action
reads. Left out: component calls and their retries, waits, nested frames, `FailRun`, results.

### WaitSources

`row` is a spool: one row of each signal or timer, with the target set a driver selected for it
and its acknowledgement. `wait`, `run` and `receipt` are the Waits, Continuations and activation
receipts of the Store. A driver goes through `Poll` or `Scan`, `Retain`, `Admit` or `Replay`, and
`Acknowledge`; each is one transaction of one of the two databases, and `Crash`, `LoseRace` and
`OtherCommit` come between any two. A driver selects from a view pinned to a head; a commit of
anyone, its own included, drops the pins and resets the key cursors, so the head is known only as
moved or not. An HTTP request (`handler`) persists its row, registers a waiter and is answered
from the row. A control client submits an activation of its own (`AdmitWait`). A cancellation is
always several commits: `BeginCancel` fences the Run, `FinishCancel` ends it and its Wait, the pages
between them change nothing a driver can see. While a Run is `fenced` its Wait is pending and can be
selected, but an admission that would complete it is a Conflict (`FenceFree`, `Refuse`): the row keeps
its targets and stays the first that its driver is handed. The canceller may end in between; whoever
repeats the exact cancellation finishes it. Left out: input
waits, whose target a client names; results; authorisation; schema generations of the spools.

### VirtualFairness and VirtualWork

`VirtualFairness` has the arithmetic of a batch of selection rounds; every error branch of that
arithmetic is `Refused`, and so is a quantum outside the exact range (`QuantaExact`), which the code
meets when a claim is selected and not when policy or weight is admitted; `MaxExact` stands for
`MAX_EXACT_INTEGER`. `VirtualWork` has the leaves of the scheduler, each by its family, and beside
them what the code keeps to find or count them: the index of active regions, the queues, the pages
of parked work, the directory of what a wake would cost, scalar counts, the archive index. One
action is one command: it is prepared from one pinned root and published with one
compare-and-commit, so a lost race is not a step. Clocked commands are guarded by the clock head of
their slot. The frontier and all its leaves belong to one scheduler. The lease of a slot does not: it
is in a Store-wide map under the slot's name, so a claim of any other scheduler (`ForeignClaim`, at most
`MaxForeign` of them) may replace it under the rules of `proposed_pinned_lease`. The other schedulers
are nothing more than that here, every command has the same TTL, and leases of Effects and agents,
which share the map, are assumed to have other names. Left out: archive bytes and their proofs, receipts of commands, source cursors as data
(a region has the set of works it will still produce).

### Evolution

One action is one accepted command of the reducer. A template has one reference, which follows
the latest compatible revision or is pinned; `PlanOf` gives the Plan it links to against a
revision, `Surface` what `analyze_relink` compares, `Effects` and `Requires` what
`validate_migration_no_widening` does. Decision identities that the code derives from content are
tuples of that content, so that reuse is reuse. A canary samples a digest: either Plan.

Runs are the Machine's and belong to no template: a Run starts under any Plan (`First`), and `Migrate`
takes it along an edge of whichever template retains one, without asking for a pin of it. The action is the
reducer's record together with the Machine command and the Continuation it commits with. The check of
a migration is not transitive: a component that the source does not reach may be added without
requirements, and requirements may be added to a component that is there; or it may be dropped and
come back without them. `ComponentsKept` is that check as it stands, and `MCEvolution` has an `ASSUME`
that shows the case. Of Effects, their sites and their profiles the check is an order, and `Effects`
is a set whose inclusion is that order. Left out: `RestartUnderNewPlan`, which only leaves a record;
closures of references; structural diffs.

## 3. Runs

| Run | Instance | Shows |
|---|---|---|
| `run_reducer` | 2 Plans, nested scopes s2 in s1 in Root, 3 Effects (on-commit queryable, eager human, explicit impossible), 2 Attempts, epochs to 2 | the reducer's invariants and two of its action properties (two more, about Attempts and obligations, are proved); 552,455 states |
| `directory` | 2 processes with all five operations; 2 manifests sharing and abandoning an object; 2 receipts; pages of 2 | refinement of `HeadStore`, exact generations of reclamation, staging files only taken from the dead, truthful answers; 1,801,498 states |
| `directory_receipt_race` | as `directory`, without reads | a divergence (below) |
| `durable` | 2 coordinators; a start with its first step, a batch over two Runs, one of its commands alone as an inline or paged close, a paged end of a Run; one material batch; compaction at every cut; pages 0 or 1 of each kind; tokens to 3 | implementation of `CommandRegister`; fences hold and can always be released; hot history restores; replay is exact; 93,247 states |
| `effects` | 2 executors; three Plans: an eager bound Effect and then an explicit one in a wide Scope; an explicit and then an on-commit Effect; one on-commit Effect. One Effect queryable, one whose implementation may be missing; an operator who approves; ttl 2, time to 3, fences to 3 (to 2 for the second Plan) | one authorised dispatch per intent, true verdicts, exclusive ownership, accepted completion, every drive ends; 348,821 states |
| `wide_scope_close` | the first of these Plans, ttl 1, fences to 4 | a divergence (below) |
| `virtual_dispatch` | 2 Runs with a work each, of unequal cost and one needing a capability, weights 1, 2 and 4 of which the last leaves the exact range, 2 workers and one slot with a lease of 2 ticks, time to 2, claims of other schedulers up to the third fence | batched selection is the cyclic scan of the specification while quanta are exact; a claim has the current lease of its slot or has been overtaken, and an overtaken one does nothing more; 179,933 states |
| `virtual_regions` | 1 Run, 2 works of unequal priority, 2 regions and 2 more for splits and merges, 2 Waits and an activation of both, pages of 1, 2 claims per work | work is conserved, indices are exact, the rotation stays alive, finished occurrences are final; 239,723 states |
| `virtual_compaction`, `virtual_wake` | as `virtual_regions` | two divergences (below) |
| `wait_sources` | three deployments: two processes on a spool of two signals, one process for two Runs that wait for the same signals, two timer drivers for a Run that waits for two timers, the later one first and twice; one request at a time; one fault | what producers are told is decided, a Wait is won once, decisions are final, what can be delivered is delivered if no Run stays fenced; 370,519 states |
| `evolution` | one reference, 3 revisions of 2 contracts, 3 templates (one driven by clients, one that follows, one pinned), a widening patch, 3 decisions, one occurrence, one piece of evidence; a Run with 2 migrations, of which no single one reaches what both do | evidence is exact, links follow heads, rollout state is legal, chains of migrations stay on retained edges and gain no Effect, retained records are final; 534,437 states |

The properties of each passing run:

| Run | Properties |
|---|---|
| `run_reducer` | `TypeOK`; `DerivedStateExact`: the incremental index is `rebuild` of the projection; `ProjectionLegal`: open scopes nest and each Effect is in a state its profile and scope allow; `OneAttemptAtCurrentEpoch`; `TerminalRunClosed`: an ended Run has nothing open; `DispatchIrrevocable`, `TerminalRunFrozen`: what no step undoes |
| `directory` | `DirectoryTypeOK` (retries stay within their limit); `StoreSpec`: the refinement; `AnswersTruthful`; `GenerationsExact`; `StagedOwned` |
| `durable` | `ImplementsRegister`: the refinement; `FenceHolds`; `FenceFinishable`; `RestoreSucceeds`; `ReplayIsExact` |
| `effects` | `TypeOK`; `DispatchLicensed`; `VerdictTrue`; `OwnershipExclusive`; `CompletionAccepted`; `DriveEnds` (liveness) |
| `virtual_dispatch` | `ScanSettled`: who is served, and every deficit left, are those of a scan that grants one quantum per visit, and nothing is refused, wherever quanta are exact; `LeaseBacksClaim`, `OvertakenFenced`: what no step does to an overtaken claim |
| `virtual_regions` | `IndexesExact`, `WorkConserved`, `RotationAlive`, `OccurrenceFinal` |
| `wait_sources` | `WaitTypeOK`, `DeliveryDecided`, `WaitWonOnce`, `DecisionsFinal`, `SignalsDelivered` (liveness) |
| `evolution` | `EvidenceExact`, `LinksFollowHeads`, `RolloutLegal`, `MigrationsNarrow`: what a chain of migrations cannot add; `RetainedFinal` |

Why the bounds are enough for the cases that matter: the reducer instance has a scope with an open
child, an Effect per dispatch policy and three of the four reconciliation modes, a migration in
between, and an epoch bound that is reached: as in the code, every command that advances the epoch
has the same bound, so a Run at the last epoch accepts neither a failure nor a cancellation. The
directory instance abandons an object and needs it again, has two generations of reclamation so that
one deletes the receipt of the other, and two processes in every pair of places. In the command
instance a request can be repeated with every older token, every batch can be archived before the
repetition, and a transition has zero, one or two pages. In the effect instance a Run changes hands
three times, so that an old owner, a new one and a request of the first still on its way exist
together; a lease of two ticks has an instant at which another executor sees it unexpired, and time
is shared by all claims of the Run and only its order with an expiry matters. The second Plan is
there because one Effect can be unknown when the other is claimed. In the dispatch instance a Run
needs several rounds to pay for its work and the other does not, the frontier holds the work of
both, and a worker without the capability skips one; a lease runs out while its work is claimed, and
a claim, renewed or not, is overtaken by the same worker at once or by the other after expiry. With
one slot an overtaken claim is the last of the scheduler; several slots, claims that go on beside an
overtaken one and longer sequences of settlements are covered by the theorems. The regions instance parks, wakes, retries,
splits, archives and rehydrates each of two works once. In the wait instance two drivers hold the
same row with different selections, and one fault is enough for a crash between any two steps; a
timer scan of one row meets a due row nobody waits for. In the evolution instance a revision that
widens is the first one published again after a narrower one, the follower relinks without changing
its Plan, and evidence can arrive while each of three decisions is current. The Run loses a
component by the relink of its template and gets it back, without what it required, by a patch of
the narrower Plan. Migrations by the edges of several templates and two pieces of evidence for one
decision are beyond the instance and covered by the theorems (`RunsNeverWiden`, `EvidenceIsExact`).

Executors, processes, coordinators, workers and migration identities are interchangeable and no
property names one: `directory`, `durable`, `virtual_dispatch` and `evolution` use their symmetry;
runs with a liveness property do not.
Deadlock is checked in `directory` and `durable`. Elsewhere the system may stop: a Run that has
ended and settled accepts nothing more, a source is exhausted, the bounded registry is used up.

### Fairness

`DirectoryStore` and `DurableCommands` are checked without fairness. An operation of the adapter
never waits: a lock that is taken is a Conflict (`LockBusy`), and `DirectoryTypeOK` bounds the
retries of a stable read. A fence is
left only by a repetition of its request, which is the client's affair: `FenceFinishable` says that
after any crash whoever repeats it can go on, and that every page leaves fewer to do.

`EffectDispatch`: weak fairness of the drive of an executor and of the end of its provider call.
Every place of a drive has a next step (a refused claim included), and every call of a plugin is
bounded by the executor's own timeout. Nothing is assumed of the provider, of the operator, of
restarts, takeovers or a cancellation.

`WaitSources`: weak fairness of the calls of each driver that is there. `drive_wait_source` is
called in a loop by whoever runs the driver, and a call that was begun ends; crashes, lost answers
and commits of others are bounded by `MaxFaults`, since a driver that loses every race delivers
nothing. Nothing is assumed of producers, Runs or control clients. Of cancellation it is not assumed
that it is finished; `SignalsDelivered` has as its antecedent that every Run is again and again not
fenced. The antecedent is needed: a canceller that ends between its commits leaves a driver with a
retained row of that Run at the head of its spool, refused each time, and the signals behind it wait.

### What TLC found to differ

`IntegrityMeansDamage` is violated. `advance_cold_reclamation` (and `replay_gc_receipt`)
compares the head and afterwards reads the receipt that head pins, without comparing again;
another process that reclaimed the receipt in between turns the race into the Integrity error
`directory_gc_receipt_missing`, which the error's documentation reserves for corrupted
evidence. Loads, reads and commits check the head a second time and report a Conflict
(`AnswersTruthful`). Nothing is lost: the operation publishes nothing and can be repeated.

`ExpiredRunTakeable` is violated. The close of a Scope with more than 256 entries is paged. If its
executor ends between two pages, the Run stays fenced: a drive gets a Conflict, resume, takeover
and cancellation refuse a Run in transition, and recovery takes up only `FailRun`. The
specification makes takeover after expiry the way out of a persisted `Running` Run; here there is
none. `durable` shows the same from the other side: a fence can be released by whoever repeats its
request, and the executor's request is not one a later owner can repeat.

`ClosedRegionCompactable` is violated. The specification lets a closed region go to cold storage
when the greatest occurrence of every work has ended. `verify_virtual_archive_work` asks it of
every occurrence, and an occurrence that was retried or parked keeps that state: one retry, and the
region can never be compacted.

`WakeAtomic` is violated. The specification wants an activation and the wake of the work parked on
it in one compare-and-commit; the wake is a later command that reads the committed receipt. The
receipt can be used once and stays there, so the wake can be made up for, by whoever knows of it. The
property also fails in a way an atomic wake would not cure: work may be parked on a Wait whose
activation has already been admitted.

Observations on the way, not stated as runs:

- A slot may own two active claims, against `docs/specification.md` 1083 ("One slot may own at most
  one active claim"). The check is made against the frontier of the scheduler at hand, the lease it
  guards is one for all schedulers of the Store (`coordinator.rs` 5813-5828). The same owner, or after
  expiry any other, may claim the slot through a second scheduler (`ForeignClaim`); the first claim
  stays in its frontier and takes up capacity there, and its renewal, resolution and recovery conflict
  from then on. It does no harm under the lease it lost (`OvertakenFenced`), and nothing in the code
  takes it away.
- An admitted policy and weight may have no settlement, against `docs/specification.md` 1169 ("Every
  admitted fairness tuple of policy, weight, item cost, and current deficit MUST therefore have a
  bounded deterministic fairness transition"). Both are admitted when they are positive;
  `virtual_run_quantum` refuses their product above `MAX_EXACT_INTEGER` when a claim looks at the Run
  (`virtual_work.rs` 7802-7812). Until the weight is changed again no claim that offers the
  capabilities of that Run's work is served, of whichever Run: `QuantaExact` is the hypothesis of
  `ScanSettled`.
- After the claim of an Effect, `require_effect_claim_current` compares everything it reads of the
  Run with what was acknowledged. An operator who settles another Effect of the Run in between
  needs no claim, and the lost race (`ReadbackMismatch`) is reported as Integrity
  `effect_claim_readback_mismatch`. The next owner settles the claim as unknown; nothing is
  dispatched twice (`DispatchLicensed`).
- Every commit, the driver's own included, makes the key cursor of a signal driver stale, so its
  rotation starts over; the tests expect as much (`plugins/activation-http/tests/http.rs`).
- A signal whose selected Waits were all won by others is acknowledged without being consumed.
- An activation identity used by a control client and by a row of a spool would be refused for
  ever on one side; `WaitSources` assumes that they are apart (`Direct`).
- Loads and reads check the head a second time; the loaders of the archive's segments, entries,
  batches and index nodes (`plugins/directory-store/src/lib.rs` 1701-1727) do not, and are outside
  `AnswersTruthful`.
- Nothing reserves the last epoch for the end of a Run: `AdvanceEpoch` and `MigrateRun` reach
  `MAX_EXACT_INTEGER` under the bound that `FailRun` and `CancelRun` have, and an active Run that is
  there can only be completed.
- Retiring an archive looks at the count of hot work only, not of hot occurrences.
- The identity of a generated decision binds its source decision. A client that sets a rollout
  back to that source makes the next relink to the same Plan derive the identity again, and
  `advance_relinked_template` refuses the whole publication; nothing is overwritten
  (`RetainedFinal`), but the definition cannot be published until the rollout is changed.

## 4. Theorems

All for arbitrary constants under the named `ASSUME`s, which TLC evaluates on every instance.

**RunReducerProofs.** Assumptions: scopes and Effects are finite, a scope is not its own
parent, parents and Effects stay within a Plan or the Root scope, a mutating Effect is not
eager (all checked by Plan validation), bounds are natural numbers. The inductive invariant
`Inv` is the conjunction of the safety properties with two strengthenings: `Fresh` (nothing
exists before the Run starts, and an identity without a record has the empty record) and
`NothingUnobserved` (after the end no Effect is unobserved; without it an Unknown outcome
could hide one). The proof that steps keep `Inv` is by parts: Attempts, scopes, Effects and
classes, open-scope entries, obligations, counts, each from the others, with the six Effect
transitions and the two mass transitions (abort of a scope, end of a Run) reduced to one
notion of a set of Effects that moved. Theorems: every property of the run (`TypeCorrectness`, `DerivedStateIsExact`, `ProjectionIsLegal`,
`SingleAuthority`, `TerminalIsClosed`, `DispatchIsIrrevocable`, `TerminalIsFrozen`), and two
action properties more (`AttemptsNeverRevive`, `ObligationsNeverReopen`).

**DirectoryStoreProofs.** Assumptions: objects and receipts are finite and
apart, a manifest reaches itself, page size and stable reads are positive. `HeadStaysClosed` for
the abstract Store; `TypeCorrectness`, `Implements` (every step of the adapter, crash and failure
included, is a step of the Store or leaves it alone) and `HeadAlwaysReopens` for the adapter. The
inductive invariant says who holds which lock at which label and what a process's local view
still guarantees there: e.g. between reading the head and publishing under both locks the
objects of the new manifest exist and no sweep is authorised against them. A second invariant
(`Deep`) rests on the first and gives the rest. Heads form a chain that a publication only
extends (`Precedes`), so a reader whose head has moved never sees it come back, and a file missing
under an unmoved head is impossible: `AnswersAreTruthful`. Between the tidy of a writer and its
links the staging directory holds its file alone: `StagingIsOwned`. From the scan of a last page to
its release, what is in the directory beyond the closure and the new receipt is what the sweep has
still to do: `GenerationsAreExact`.

**CommandRegisterProofs.** `RegisterIsLinear`: no command twice, no state of a Run consumed
twice. The strengthening is that an admitted request's token is below the Run's version.
By `RegisterImplemented` below, `DurableCommands` inherits it.

**DurableCommandsProofs.** Assumptions: what `verify_pinned_batch_commands` asks of a batch,
finitely many commands, bounds. The invariant has two halves. `Well` says of one StateRoot that the
log is its batches in order, that a cut splits no batch, that a hot batch can be restored from its
source, and that a transition owns its Run as it was frozen; each way of making a successor (batch,
first page, next page, last page, material, compaction) keeps it. `StageInv` says of a prepared
StateRoot that it is such a successor for as long as its compare would succeed, which is what makes
a lost race harmless. Theorems: `FencesHold`, `RestoresSucceed`, `ReplaysAreExact`; `FencesCanGoOn`
(the request of a fence is found as pending and has a next publication) and `PagesOnlyDecrease`,
which together are `FenceFinishable` without its `ENABLED`; and the refinement
`RegisterImplemented`, in which a batch or a last page is the step of the register and every other
publication, crash and retry is a stutter.

**EffectDispatchProofs.** Assumptions: a Plan does not repeat an intent, ranks are unique, leases
are positive. Proved: `TypesCorrect`, `OwnershipIsExclusive`, `DispatchesLicensed`, `VerdictsTrue`,
`CompletionsAccepted`, without fairness and for any number of executors. Beside the type, the
invariant says: a drive holds the latest claim or an older one that has expired or was cancelled
(`Leases`); which intents have been claimed, by whom, and which requests of them can exist
(`Attempts`); why a claimed intent was allowed to leave (`License`); that every request and answer
on its way agrees with the provider's ledger, so that a verdict read from the ledger stays true when
an old request arrives (`Rows`); and what a drive about to complete has seen (`Finishing`).

**WaitSourcesProofs.** Assumptions: Waits and activations are finite, a source has one kind, HTTP
and timer drivers are apart. Proved: `WaitTypesCorrect` (with the exact count of waiters),
`DeliveriesDecided`, `WaitsWonOnce`, `DecisionsAreFinal`, whichever Runs are fenced and for how
long. The invariant ties what a driver holds to its row (`Delivering`), rows to receipts
(`RowsDecided`), requests and waiters to rows (`Serving`), receipts to Waits (`Won`), and lets a Run
have one pending Wait (`Parked`).

**EvolutionProofs.** Assumptions: revisions and pieces of evidence are finite, constants have their
types. Proved: `EvidenceIsExact`, `LinksFollow`, `RolloutsLegal`, `RetainedIsFinal`,
`RunsNeverWiden`. The invariant is kept per template: decisions and Plans are closed (`Shaped`,
`Decided`), an ended decision has a gate its evidence satisfied (`Ended`), pins follow their
decisions (`Pinned`), counts are those of the records (`Counted`); beside it the registry. A
publication advances every dependent template in the same way, so one lemma about an advanced
template serves them all. Reachability over edges is stated as membership in every closed set, which
needs no induction. `RunsNeverWiden` follows from an invariant of its own beside the others
(`Travelled`): edges are never dropped, and a migration adds one to the path of its Run and compares
Effects by an order. The same cannot be said of component requirements, which are compared step by
step only, and the theorem claims them for each step alone.

**VirtualWorkProofs.** Assumptions: works, regions, Runs and Waits are finite and works, regions and
Runs are numbered from 1 (the maps of the code are ordered by identity), sources of different
regions are apart, costs, weights, quanta, page and batch sizes are positive. Proved, for any number
of each, any policy, any interleaving of the commands and any claims of other schedulers:
`LeaseFencesClaim`, `OvertakenStaysFenced`, `RotationStaysAlive`, `NoWorkLost`, `IndexesStayExact`,
`FinishedStaysFinished`, `SettlementIsScan`. The properties are not inductive by themselves. `Inv`
says, leaf by leaf and mostly without counting, where each thing is and which other leaves name it:
a region is indexed exactly while it can be read, and a certificate means that it is closed and has
no hot work left (`RegionsKept`); a hot work names an open region and is not in the archive index
(`LeavesKept`); an occurrence leaf belongs to a hot work of its region or is a copy of the archived
one (`OccKept`, by which the occurrences of a region are those of its hot work when it is compacted,
and a later claim of a work meets no archived epoch); queues and pages hold each work once and only
work that says so (`QueuesKept`, `ParksKept`); each count is the cardinality of the set it counts
(`CountsKept`); what a region has left is in no other region and was never read (`SourceKept`).
There is one lemma per command; frame lemmas keep the parts a command leaves alone. The folds of the
model (the length of all queues, the cost of a wake, the items of the pages) are recursive functions
over the subsets of a finite set; that they exist and what they sum to is shown from a least
counterexample, which needs no induction theorem. `OvertakenStaysFenced` rests on lease epochs: a
lease is only ever replaced by one of a later epoch, and a claim carries the epoch of its own.
`ScanSettled` needs the types and, as its hypothesis, quanta within the exact range: the rounds a
Run needs are the ceiling of what it lacks over its quantum, so the fewest rounds and the earliest
visit among those that need them are where the scan stops.

Only model-checked: liveness (`DriveEnds`, `SignalsDelivered`) and what speaks of `ENABLED`
(the first half of `FenceFinishable`).

## 5. Plan

Done: 1 RunReducer, 2 HeadStore and DirectoryStore, 3 CommandRegister and DurableCommands,
4 EffectProvider and EffectDispatch (Effects of the root region), 5 WaitSources,
6 VirtualFairness and VirtualWork, 7 Evolution.

Next, in this order:

8. **ClockAuthority** and the rest of the drive: logical time from a wall clock that steps back,
   the head guard around a Store commit, component attempts with their retries and `FailRun`.
   Abstract specification: one owner at a time with increasing fences.
9. **CommandLog**: the in-memory Machine with conflict receipts, archive lookups and restore,
   as a second implementation of `CommandRegister`.
10. **Resources**, 11. **Agent targets**.
12. The SQLite store as a refinement of `HeadStore`; the launch state machine of the process
    executor; Plan-graph validation and the authenticated collections as operators checked
    against reference definitions.

## 6. Not modelled

`RecordFact`, which writes the Machine-wide map of facts (`model.rs` 2090-2101) and no Run's
projection. Encoding, hashing and size limits (identities are model values; a collision or an oversized
input is outside the model), the plugin protocol and transport, SDKs, command line, compiler
and observability. Components under "planned" above are not modelled yet. `PROJECT.json`
lists every component with its status.
