------------------------- MODULE EffectDispatchProofs -------------------------
(***************************************************************************)
(* Theorems of EffectDispatch, for any number of executors, Effects and    *)
(* Plans: who may publish, what may be dispatched, and that the outbox     *)
(* never says of the world what is not so.                                 *)
(*                                                                         *)
(* The inductive invariant has five parts.  Leases says which executor can *)
(* still hold the claim of the Run; Attempts, which intents have been      *)
(* claimed, by whom, and which requests of them can exist; License, why a  *)
(* claimed intent was allowed to leave the Run; Rows ties the requests and *)
(* the answers on their way to the provider's ledger; Finishing says what  *)
(* a drive that is about to complete the Run has seen.                     *)
(***************************************************************************)
EXTENDS EffectDispatch, TLAPS

-----------------------------------------------------------------------------

(* A drive holds the latest claim of the Run, or an older one that has     *)
(* expired or was cancelled.                                               *)
Leases ==
    /\ run.status = "Running" <=> run.claim # NoClaim
    /\ run.claim # NoClaim => run.claim.fence = run.fence
    /\ author \in {0, run.fence}
    /\ run.fenced = "Cancel" => run.status \in {"Ready", "Running"} /\ run.fence < MaxFence[run.plan]
    /\ run.fenced = "Scope" => run.status = "Running"
    /\ \A w \in Workers : worker[w].pc # "Idle" =>
          /\ worker[w].claim # NoClaim /\ worker[w].claim.owner = w
          /\ worker[w].claim.fence <= run.fence
          /\ worker[w].claim.fence = run.fence => run.claim = worker[w].claim
          /\ worker[w].claim.fence < run.fence /\ run.status # "Cancelled"
                => worker[w].claim.expires <= clock
          /\ worker[w].pc = "Closing" => run.fenced = "Scope" /\ run.claim = worker[w].claim

(* The states of an intent once it has been claimed, for good.             *)
Begun == {"Claimed", "Unknown", "Applied", "NotApplied"}

Attempts ==
    /\ \A i \in Intents :
          /\ sent[i] > 0 => sent[i] = 1 /\ out[i].state \in Begun
          /\ ledger[i].state # "Free" =>
                out[i].state \in Begun /\ ledger[i].attempt = out[i].owner
    /\ \A c \in calls \cup running :
          out[c.intent].state \in Begun /\ c.attempt = out[c.intent].owner
    /\ \A w \in Workers :
          /\ worker[w].pc \in {"Claimed", "Dispatching", "Asking"} =>
                worker[w].intent \in Intents /\ out[worker[w].intent].state \in Begun
          /\ worker[w].pc = "Claimed" =>
                sent[worker[w].intent] = 0 /\ out[worker[w].intent].owner = w
    /\ resolver.reply # None => resolver.intent \in Intents

License ==
    /\ \A i \in Intents : out[i].state \in Begun =>
          /\ run.plan.policy[i] # "Eager" => run.scope = "Committed"
          /\ run.plan.policy[i] = "Explicit" => i \in released
    /\ \A w \in Workers : worker[w].target # None => worker[w].target \in released

Rows ==
    /\ \A i \in Intents :
          /\ ledger[i].state \in {"Free", "NotApplied"} =>
                world[i] = 0 /\ \A c \in running : c.intent # i
          /\ out[i].state = "Applied" => ledger[i].state = "Applied"
          /\ out[i].state = "NotApplied" => ledger[i].state = "NotApplied"
    /\ \A w \in Workers :
          /\ worker[w].reply # None => worker[w].pc \in {"Dispatching", "Asking"}
          /\ worker[w].reply \in {"Applied", "NotApplied"} =>
                ledger[worker[w].intent].state = worker[w].reply
    /\ resolver.reply \in {"Applied", "NotApplied"} =>
          ledger[resolver.intent].state = resolver.reply

Finishing ==
    \A w \in Workers :
        /\ worker[w].root => worker[w].target = None /\ run.scope = "Committed"
        /\ worker[w].pc \in {"Drive", "Closing", "Complete"} => worker[w].target = None
        /\ worker[w].pc = "Complete" /\ run.claim = worker[w].claim => Completable

Inv == TypeOK /\ Leases /\ Attempts /\ License /\ Rows /\ Finishing

-----------------------------------------------------------------------------
(* What a step of a drive does, field by field.                            *)

Drives(w, pc, intent, target, root, reply) ==
    /\ worker' \in [Workers -> WorkerRecord]
    /\ \A v \in Workers \ {w} : worker'[v] = worker[v]
    /\ worker'[w].claim = worker[w].claim
    /\ worker'[w].pc = pc /\ worker'[w].intent = intent /\ worker'[w].target = target
    /\ worker'[w].root = root /\ worker'[w].reply = reply

(* The drive ends.                                                         *)
Idles(w) ==
    /\ worker' \in [Workers -> WorkerRecord]
    /\ \A v \in Workers \ {w} : worker'[v] = worker[v]
    /\ worker'[w].pc = "Idle" /\ worker'[w].target = None /\ ~worker'[w].root
    /\ worker'[w].reply = None

(* The claim of the Run stays, and a committed Scope stays committed.      *)
RunKept ==
    /\ run' \in RunRecord
    /\ run'.status = run.status /\ run'.claim = run.claim /\ run'.fence = run.fence
    /\ run'.fenced = run.fenced /\ run'.plan = run.plan
    /\ run'.step \in 1..(Len(run.plan.steps) + 1)
    /\ run.scope = "Committed" => run'.scope = "Committed"

(* No intent begins or is given back, and a new verdict is the provider's. *)
OutKept ==
    /\ out' \in [Intents -> OutboxRow]
    /\ \A i \in Intents :
          /\ out'[i].owner = out[i].owner
          /\ out'[i].state \in Begun <=> out[i].state \in Begun
          /\ out'[i].state \in {"Applied", "NotApplied"} => ledger[i].state = out'[i].state

LEMMA GotoDrives ==
    ASSUME TypeOK, NEW w \in Workers, NEW pc, NEW i \in Intents \cup {None}, Goto(w, pc, i),
           pc \in {"Drive", "Closing", "Outbox", "Claimed", "Dispatching", "Asking", "Yield"}
    PROVE  Drives(w, pc, i, worker[w].target, worker[w].root, worker[w].reply)
BY ZenonT(60) DEF TypeOK, Goto, Drives, WorkerRecord

LEMMA SameDrives ==
    ASSUME TypeOK, NEW w \in Workers, UNCHANGED worker
    PROVE  Drives(w, worker[w].pc, worker[w].intent, worker[w].target, worker[w].root,
                  worker[w].reply)
BY DEF TypeOK, Drives

LEMMA IdleIdles ==
    ASSUME TypeOK, NEW w \in Workers, worker' = [worker EXCEPT ![w] = Idle]
    PROVE  Idles(w)
<1>1. Idle \in WorkerRecord /\ Idle.pc = "Idle" /\ Idle.target = None /\ ~Idle.root
      /\ Idle.reply = None
    BY DEF Idle, WorkerRecord, Replies
<1>2. QED
    BY <1>1 DEF TypeOK, Idles

LEMMA SameRunKept == ASSUME TypeOK, UNCHANGED run PROVE RunKept
BY DEF TypeOK, RunKept

LEMMA SameOutKept == ASSUME TypeOK, Rows, UNCHANGED out PROVE OutKept
BY DEF TypeOK, Rows, OutKept

(* The plan of the Run.                                                    *)
LEMMA PlanFacts ==
    ASSUME TypeOK
    PROVE  /\ run.plan \in Plans /\ run.plan.steps \in Seq(Intents)
           /\ Len(run.plan.steps) \in Nat /\ MaxFence[run.plan] \in Nat
           /\ run.plan.policy \in [Intents -> {"Eager", "OnScopeCommit", "Explicit"}]
           /\ ~Finished => Current \in Intents /\ run.step + 1 \in 1..(Len(run.plan.steps) + 1)
<1>1. run.plan \in Plans
    BY DEF TypeOK, RunRecord
<1>2. /\ run.plan.steps \in Seq(Intents) /\ MaxFence[run.plan] \in Nat
      /\ run.plan.policy \in [Intents -> {"Eager", "OnScopeCommit", "Explicit"}]
    BY <1>1, PlanAssumption, LeaseAssumption
<1>3. Len(run.plan.steps) \in Nat /\ \A k \in 1..Len(run.plan.steps) : run.plan.steps[k] \in Intents
    BY <1>2
<1>4. run.step \in 1..(Len(run.plan.steps) + 1)
    BY DEF TypeOK
<1>5. QED
    BY <1>1, <1>2, <1>3, <1>4 DEF Finished, Current

-----------------------------------------------------------------------------
(* What keeps each part.                                                   *)

ClaimsKept ==
    \A v \in Workers : worker'[v].pc # "Idle" =>
        /\ worker[v].pc # "Idle" /\ worker'[v].claim = worker[v].claim
        /\ worker'[v].pc = "Closing" => worker[v].pc = "Closing"

LEMMA LeasesKept ==
    ASSUME Leases, RunKept, ClaimsKept, clock' = clock, author' \in {0, author, run.fence}
    PROVE  Leases'
BY DEF Leases, RunKept, ClaimsKept

CallsKept ==
    \A v \in Workers : worker'[v].pc \in {"Claimed", "Dispatching", "Asking"} =>
        worker'[v].pc = worker[v].pc /\ worker'[v].intent = worker[v].intent

LEMMA AttemptsKept ==
    ASSUME TypeOK, Attempts, OutKept, CallsKept, UNCHANGED <<sent, calls, running, ledger>>,
           resolver'.reply # None => resolver' = resolver
    PROVE  Attempts'
<1>1. \A c \in calls \cup running : c.intent \in Intents
    BY DEF TypeOK, Call
<1>2. QED
    BY <1>1 DEF Attempts, OutKept, CallsKept

TargetsKept == \A v \in Workers : worker'[v].target \in {worker[v].target, None}

LEMMA LicenseKept ==
    ASSUME License, OutKept, TargetsKept, released \subseteq released', run'.plan = run.plan,
           run.scope = "Committed" => run'.scope = "Committed"
    PROVE  License'
BY DEF License, OutKept, TargetsKept

RepliesKept ==
    \A v \in Workers : worker'[v].reply # None =>
        /\ worker'[v].pc \in {"Dispatching", "Asking"}
        /\ worker'[v].intent = worker[v].intent
        /\ worker'[v].reply \in {worker[v].reply, "Error"}

LEMMA RowsKept ==
    ASSUME Rows, OutKept, RepliesKept, UNCHANGED <<ledger, world, running>>,
           resolver'.reply # None => resolver' = resolver
    PROVE  Rows'
BY DEF Rows, OutKept, RepliesKept, None

(* What a drive ready to complete the Run has seen can only be changed     *)
(* under its own claim.                                                    *)
FinishKept(w) ==
    /\ \A v \in Workers \ {w} : worker'[v] = worker[v]
    /\ worker'[w].root => worker'[w].target = None /\ run'.scope = "Committed"
    /\ worker'[w].pc \in {"Drive", "Closing", "Complete"} => worker'[w].target = None
    /\ worker'[w].pc = "Complete" => Completable'

LEMMA ClaimIsUnique ==
    ASSUME Leases, NEW w \in Workers, NEW v \in Workers, worker[w].pc # "Idle",
           worker[v].pc # "Idle", run.claim = worker[w].claim, run.claim = worker[v].claim
    PROVE  v = w
<1>1. worker[w].claim.owner = w
    BY DEF Leases
<1>2. worker[v].claim.owner = v
    BY DEF Leases
<1>3. QED
    BY <1>1, <1>2

LEMMA FinishingKept ==
    ASSUME Leases, Finishing, NEW w \in Workers, RunKept, FinishKept(w),
           out' = out \/ (run.claim = worker[w].claim /\ worker[w].pc # "Idle")
    PROVE  Finishing'
<1> SUFFICES ASSUME NEW v \in Workers
             PROVE  /\ worker'[v].root => worker'[v].target = None /\ run'.scope = "Committed"
                    /\ worker'[v].pc \in {"Drive", "Closing", "Complete"} => worker'[v].target = None
                    /\ worker'[v].pc = "Complete" /\ run'.claim = worker'[v].claim => Completable'
    BY Zenon DEF Finishing
<1>1. CASE v = w
    BY <1>1 DEF FinishKept
<1>2. CASE v # w
    <2>1. worker'[v] = worker[v] /\ run'.claim = run.claim
          /\ (run.scope = "Committed" => run'.scope = "Committed")
        BY <1>2 DEF FinishKept, RunKept
    <2>2. /\ worker[v].root => worker[v].target = None /\ run.scope = "Committed"
          /\ worker[v].pc \in {"Drive", "Closing", "Complete"} => worker[v].target = None
          /\ worker[v].pc = "Complete" /\ run.claim = worker[v].claim => Completable
        BY DEF Finishing
    <2>3. worker[v].pc = "Complete" /\ run.claim = worker[v].claim => Completable'
        <3>1. CASE out' = out
            BY <3>1, <2>2 DEF Completable
        <3>2. CASE run.claim = worker[w].claim /\ worker[w].pc # "Idle"
            BY <3>2, <1>2, ClaimIsUnique
        <3>3. QED
            BY <3>1, <3>2
    <2>4. QED
        BY <2>1, <2>2, <2>3
<1>3. QED
    BY <1>1, <1>2

(* A step of a drive that neither takes nor gives up the claim, nor claims *)
(* or dispatches an intent.                                                *)
LEMMA DriveStep ==
    ASSUME Inv, NEW w \in Workers, NEW pc, NEW intent, NEW target, NEW root, NEW reply,
           Drives(w, pc, intent, target, root, reply), worker[w].pc # "Idle",
           RunKept, OutKept,
           \/ pc \in {"Drive", "Outbox", "Yield", "Complete"}
           \/ pc = worker[w].pc /\ intent = worker[w].intent,
           target \in {worker[w].target, None},
           reply # None => /\ pc \in {"Dispatching", "Asking"} /\ intent = worker[w].intent
                           /\ reply \in {worker[w].reply, "Error"},
           root => target = None /\ run'.scope = "Committed",
           pc \in {"Drive", "Closing", "Complete"} => target = None,
           pc = "Complete" => Completable',
           out' = out \/ CurrentClaim(w),
           author' \in {author, run.fence}, pinned' \subseteq Workers, Outside
    PROVE  Inv'
<1>1. TypeOK /\ Leases /\ Attempts /\ License /\ Rows /\ Finishing
    BY DEF Inv
<1>2. /\ worker' \in [Workers -> WorkerRecord]
      /\ \A v \in Workers \ {w} : worker'[v] = worker[v]
      /\ worker'[w].claim = worker[w].claim
      /\ worker'[w].pc = pc /\ worker'[w].intent = intent /\ worker'[w].target = target
      /\ worker'[w].root = root /\ worker'[w].reply = reply
    BY DEF Drives
<1>3. UNCHANGED <<clock, holder, resolver, sent, released, calls, running, ledger, world>>
    BY DEF Outside, providerVars
<1>4. TypeOK'
    <2>1. author' \in 0..run'.fence
        BY <1>1 DEF TypeOK, RunRecord, RunKept
    <2>2. run' \in RunRecord /\ run'.step \in 1..(Len(run'.plan.steps) + 1)
          /\ run'.fence <= MaxFence[run'.plan]
        BY <1>1 DEF TypeOK, RunKept
    <2>3. QED
        BY <1>1, <1>2, <1>3, <2>1, <2>2 DEF TypeOK, OutKept
<1>5. Leases'
    <2>1. ClaimsKept
        BY <1>2 DEF ClaimsKept
    <2>2. QED
        BY <2>1, <1>1, <1>3, LeasesKept
<1>6. Attempts'
    <2>1. CallsKept
        BY <1>2 DEF CallsKept
    <2>2. QED
        BY <2>1, <1>1, <1>3, AttemptsKept
<1>7. License'
    <2>1. TargetsKept
        BY <1>2 DEF TargetsKept
    <2>2. QED
        BY <2>1, <1>1, <1>3, LicenseKept DEF RunKept
<1>8. Rows'
    <2>1. RepliesKept
        BY <1>1, <1>2 DEF RepliesKept, Rows
    <2>2. QED
        BY <2>1, <1>1, <1>3, RowsKept
<1>9. Finishing'
    <2>1. FinishKept(w)
        BY <1>2 DEF FinishKept
    <2>2. QED
        BY <2>1, <1>1, FinishingKept DEF CurrentClaim
<1>10. QED
    BY <1>4, <1>5, <1>6, <1>7, <1>8, <1>9 DEF Inv

(* A drive that ends changes nothing else.                                 *)
LEMMA LeaveStep ==
    ASSUME Inv, NEW w \in Workers, Idles(w), UNCHANGED <<run, out, author>>,
           pinned' \subseteq Workers, Outside
    PROVE  Inv'
<1>1. TypeOK /\ Leases /\ Attempts /\ License /\ Rows /\ Finishing /\ RunKept /\ OutKept
    BY SameRunKept, SameOutKept DEF Inv
<1>2. /\ worker' \in [Workers -> WorkerRecord]
      /\ \A v \in Workers \ {w} : worker'[v] = worker[v]
      /\ worker'[w].pc = "Idle" /\ worker'[w].target = None /\ ~worker'[w].root
      /\ worker'[w].reply = None
    BY DEF Idles
<1>3. UNCHANGED <<clock, holder, resolver, sent, released, calls, running, ledger, world>>
    BY DEF Outside, providerVars
<1>4. TypeOK'
    BY <1>1, <1>2, <1>3 DEF TypeOK
<1>5. Leases'
    <2>1. ClaimsKept
        BY <1>2 DEF ClaimsKept
    <2>2. QED
        BY <2>1, <1>1, <1>3, LeasesKept
<1>6. Attempts'
    <2>1. CallsKept
        BY <1>2 DEF CallsKept
    <2>2. QED
        BY <2>1, <1>1, <1>3, AttemptsKept
<1>7. License'
    <2>1. TargetsKept
        BY <1>2 DEF TargetsKept
    <2>2. QED
        BY <2>1, <1>1, <1>3, LicenseKept DEF RunKept
<1>8. Rows'
    <2>1. RepliesKept
        BY <1>1, <1>2 DEF RepliesKept, Rows
    <2>2. QED
        BY <2>1, <1>1, <1>3, RowsKept
<1>9. Finishing'
    <2>1. FinishKept(w)
        BY <1>2 DEF FinishKept
    <2>2. QED
        BY <2>1, <1>1, FinishingKept
<1>10. QED
    BY <1>4, <1>5, <1>6, <1>7, <1>8, <1>9 DEF Inv

-----------------------------------------------------------------------------
(* The steps of a drive.                                                   *)

LEMMA CurrentFence ==
    ASSUME Inv, NEW w \in Workers, CurrentClaim(w)
    PROVE  worker[w].claim.fence = run.fence
BY DEF Inv, Leases, CurrentClaim

LEMMA DriveFacts ==
    ASSUME Inv, NEW w \in Workers
    PROVE  /\ worker[w].root => worker[w].target = None /\ run.scope = "Committed"
           /\ worker[w].pc \in {"Drive", "Closing", "Complete"} => worker[w].target = None
           /\ worker[w].pc \notin {"Dispatching", "Asking"} => worker[w].reply = None
           /\ worker[w].intent \in Intents \cup {None}
BY DEF Inv, Finishing, Rows, TypeOK, WorkerRecord

LEMMA GotoStep ==
    ASSUME Inv, NEW w \in Workers, worker[w].pc \in {"Drive", "Outbox"},
           NEW pc \in {"Drive", "Outbox", "Yield"}, NEW i \in Intents \cup {None},
           Goto(w, pc, i), pc = "Drive" => worker[w].pc = "Drive",
           RunKept, OutKept, out' = out \/ CurrentClaim(w),
           author' \in {author, run.fence}, pinned' \subseteq Workers, Outside
    PROVE  Inv'
<1>1. Drives(w, pc, i, worker[w].target, worker[w].root, worker[w].reply)
    BY GotoDrives DEF Inv
<1>2. worker[w].reply = None
    BY DriveFacts
<1>3. worker[w].root => worker[w].target = None /\ run'.scope = "Committed"
    BY DriveFacts DEF RunKept
<1>4. pc \in {"Drive", "Closing", "Complete"} => worker[w].target = None
    BY DriveFacts
<1>5. QED
    BY <1>1, <1>2, <1>3, <1>4, DriveStep

LEMMA StayStep ==
    ASSUME Inv, NEW w \in Workers, worker[w].pc \in {"Drive", "Outbox"}, UNCHANGED worker,
           RunKept, OutKept, out' = out \/ CurrentClaim(w),
           author' \in {author, run.fence}, pinned' \subseteq Workers, Outside
    PROVE  Inv'
<1>1. Drives(w, worker[w].pc, worker[w].intent, worker[w].target, worker[w].root, worker[w].reply)
    BY SameDrives DEF Inv
<1>2. worker[w].reply = None
    BY DriveFacts
<1>3. worker[w].root => worker[w].target = None /\ run'.scope = "Committed"
    BY DriveFacts DEF RunKept
<1>4. worker[w].pc \in {"Drive", "Closing", "Complete"} => worker[w].target = None
    BY DriveFacts
<1>5. QED
    BY <1>1, <1>2, <1>3, <1>4, DriveStep

LEMMA StepRun ==
    ASSUME Inv, ~Finished, run' = [run EXCEPT !.step = @ + 1]
    PROVE  RunKept
<1>1. run.step + 1 \in 1..(Len(run.plan.steps) + 1) /\ Len(run.plan.steps) \in Nat
    BY PlanFacts DEF Inv
<1>2. run \in RunRecord
    BY DEF Inv, TypeOK
<1>3. QED
    BY <1>1, <1>2 DEF RunKept, RunRecord

LEMMA ScopeRun ==
    ASSUME Inv, run' = [run EXCEPT !.scope = "Committed"]
    PROVE  RunKept
BY DEF Inv, TypeOK, RunKept, RunRecord

(* A new state of one intent that neither begins it nor is a verdict.      *)
LEMMA StateOut ==
    ASSUME Inv, NEW i \in Intents, NEW s, out' = [out EXCEPT ![i].state = s],
           \/ out[i].state \notin Begun /\ s \in {"Pending", "CancelledBeforeRelease"}
           \/ out[i].state \in Begun /\ s = "Unknown"
           \/ out[i].state \in Begun /\ s \in {"Applied", "NotApplied"} /\ ledger[i].state = s
    PROVE  OutKept
<1>1. /\ out \in [Intents -> OutboxRow]
      /\ \A j \in Intents : out[j].state \in {"Applied", "NotApplied"} => ledger[j].state = out[j].state
    BY DEF Inv, TypeOK, Rows
<1>2. s \in {"Pending", "CancelledBeforeRelease", "Unknown", "Applied", "NotApplied"}
    OBVIOUS
<1>3. out' \in [Intents -> OutboxRow]
    BY <1>1, <1>2 DEF OutboxRow, Settled
<1>4. /\ out'[i].state = s /\ out'[i].owner = out[i].owner
      /\ \A j \in Intents \ {i} : out'[j] = out[j]
    BY <1>1 DEF OutboxRow
<1>5. QED
    BY <1>1, <1>3, <1>4 DEF OutKept, Begun

LEMMA EnqueueStep == ASSUME Inv, NEW w \in Workers, Enqueue(w) PROVE Inv'
<1> DEFINE i == Current
           eager == run.plan.policy[i] = "Eager"
<1>1. /\ worker[w].pc = "Drive" /\ CurrentClaim(w) /\ ~Finished /\ out[i].state = None
      /\ out' = [out EXCEPT ![i].state = "Pending"]
      /\ Goto(w, IF eager THEN "Outbox" ELSE "Drive", None)
      /\ author' = worker[w].claim.fence /\ pinned' = {} /\ Outside
    BY DEF Enqueue, Step, Publish
<1>2. i \in Intents
    BY <1>1, PlanFacts DEF Inv
<1>3. OutKept
    BY <1>1, <1>2, StateOut DEF Begun, None
<1>4. RunKept
    BY <1>1, StepRun, SameRunKept DEF Inv, Enqueue
<1>5. QED
    BY <1>1, <1>3, <1>4, CurrentFence, GotoStep

LEMMA AdvanceSettledStep == ASSUME Inv, NEW w \in Workers, AdvanceSettled(w) PROVE Inv'
<1>1. /\ worker[w].pc = "Drive" /\ CurrentClaim(w) /\ ~Finished
      /\ run' = [run EXCEPT !.step = @ + 1] /\ UNCHANGED <<out, worker>>
      /\ author' = worker[w].claim.fence /\ pinned' = {} /\ Outside
    BY DEF AdvanceSettled, Step, Publish
<1>2. RunKept /\ OutKept
    BY <1>1, StepRun, SameOutKept DEF Inv
<1>3. QED
    BY <1>1, <1>2, CurrentFence, StayStep

LEMMA CommitRootScopeStep == ASSUME Inv, NEW w \in Workers, CommitRootScope(w) PROVE Inv'
<1>1. /\ worker[w].pc = "Drive" /\ CurrentClaim(w)
      /\ run' = [run EXCEPT !.scope = "Committed"] /\ UNCHANGED <<out, worker>>
      /\ author' = worker[w].claim.fence /\ pinned' = {} /\ Outside
    BY DEF CommitRootScope, Step, Publish
<1>2. RunKept /\ OutKept
    BY <1>1, ScopeRun, SameOutKept DEF Inv
<1>3. QED
    BY <1>1, <1>2, CurrentFence, StayStep

(* The steps that only decide where the drive goes on.                     *)
LEMMA TurnStep ==
    ASSUME Inv, NEW w \in Workers,
           \/ NotAppliedYield(w) \/ RetryEager(w)
           \/ \E i \in Intents : FoundUnavailable(w, i) \/ GovernanceNeeded(w, i)
    PROVE  Inv'
<1>1. PICK pc \in {"Outbox", "Yield"}, i \in Intents \cup {None} :
          /\ worker[w].pc \in {"Drive", "Outbox"} /\ Goto(w, pc, i)
          /\ UNCHANGED <<run, out, author, pinned>> /\ Outside
    <2>1. CASE NotAppliedYield(w)
        <3>1. Current \in Intents
            BY <2>1, PlanFacts DEF NotAppliedYield, Inv
        <3>2. QED
            BY <2>1, <3>1 DEF NotAppliedYield, Step, Silent
    <2>2. CASE RetryEager(w)
        BY <2>2 DEF RetryEager, Step, Silent
    <2>3. CASE \E i \in Intents : FoundUnavailable(w, i) \/ GovernanceNeeded(w, i)
        BY <2>3 DEF FoundUnavailable, GovernanceNeeded, Selected, Silent
    <2>4. QED
        BY <2>1, <2>2, <2>3
<1>2. RunKept /\ OutKept
    BY <1>1, SameRunKept, SameOutKept DEF Inv
<1>3. pinned' \subseteq Workers
    BY <1>1 DEF Inv, TypeOK
<1>4. QED
    BY <1>1, <1>2, <1>3, GotoStep

LEMMA FinishRootStep == ASSUME Inv, NEW w \in Workers, FinishRoot(w) PROVE Inv'
<1>1. /\ worker[w].pc = "Drive" /\ run.scope = "Committed"
      /\ worker' = [worker EXCEPT ![w].pc = "Outbox", ![w].root = TRUE]
      /\ UNCHANGED <<run, out, author, pinned>> /\ Outside
    BY DEF FinishRoot, Step, Silent
<1>2. RunKept /\ OutKept /\ pinned' \subseteq Workers
    BY <1>1, SameRunKept, SameOutKept DEF Inv, TypeOK
<1>3. Drives(w, "Outbox", worker[w].intent, worker[w].target, worker'[w].root, worker[w].reply)
    BY <1>1, ZenonT(60) DEF Inv, TypeOK, WorkerRecord, Drives
<1>4. worker[w].target = None /\ worker[w].reply = None /\ run'.scope = "Committed"
    BY <1>1, DriveFacts
<1>5. out' = out /\ author' = author /\ Outside /\ worker[w].pc # "Idle"
    BY <1>1
<1>6. worker'[w].root => worker[w].target = None /\ run'.scope = "Committed"
    BY <1>4
<1>7. QED
    BY <1>2, <1>3, <1>4, <1>5, <1>6, DriveStep

(* At the end of the Plan, nothing to dispatch and nothing to release is   *)
(* nothing left.                                                           *)
LEMMA NothingLeft ==
    ASSUME Inv, run.scope = "Committed", \A i \in Intents : ~Dispatchable(i, None),
           Unreleased = {}
    PROVE  Completable
<1> SUFFICES ASSUME NEW i \in Intents PROVE out[i].state \in Settled \cup {None}
    BY DEF Completable
<1>1. out[i].state \in {None, "Pending", "Claimed", "Unknown"} \cup Settled
    BY DEF Inv, TypeOK, OutboxRow
<1>2. run.plan.policy[i] \in {"Eager", "OnScopeCommit", "Explicit"}
    BY PlanFacts DEF Inv
<1>3. out[i].state \notin {"Claimed", "Unknown"}
    BY DEF Dispatchable
<1>4. out[i].state # "Pending"
    BY <1>2 DEF Dispatchable, Unreleased
<1>5. QED
    BY <1>1, <1>3, <1>4

LEMMA OutboxDoneStep == ASSUME Inv, NEW w \in Workers, OutboxDone(w) PROVE Inv'
<1> DEFINE pc == IF ~worker[w].root THEN "Drive"
                 ELSE IF Unreleased = {} THEN "Complete" ELSE "Yield"
<1>1. /\ worker[w].pc = "Outbox" /\ \A i \in Intents : ~Dispatchable(i, worker[w].target)
      /\ worker' = [worker EXCEPT ![w].pc = pc, ![w].intent = None, ![w].target = None]
      /\ UNCHANGED <<run, out, author, pinned>> /\ Outside
    BY DEF OutboxDone, Silent
<1>2. RunKept /\ OutKept /\ pinned' \subseteq Workers
    BY <1>1, SameRunKept, SameOutKept DEF Inv, TypeOK
<1>3. pc \in {"Drive", "Complete", "Yield"}
    OBVIOUS
<1>4. /\ worker[w].root => worker[w].target = None /\ run.scope = "Committed"
      /\ worker[w].reply = None
    BY <1>1, DriveFacts
<1>5. pc = "Complete" => Completable'
    <2>1. ASSUME pc = "Complete" PROVE Completable
        BY <2>1, <1>1, <1>4, NothingLeft
    <2>2. QED
        BY <2>1, <1>1 DEF Completable
<1> HIDE DEF pc
<1>6. Drives(w, pc, None, None, worker[w].root, worker[w].reply)
    BY <1>1, <1>3, ZenonT(60) DEF Inv, TypeOK, WorkerRecord, Drives
<1>7. worker[w].root => run'.scope = "Committed"
    BY <1>1, <1>4
<1>8. QED
    BY <1>1, <1>2, <1>3, <1>4, <1>5, <1>6, <1>7, DriveStep

LEMMA MarkUnavailableStep ==
    ASSUME Inv, NEW w \in Workers, NEW i \in Intents, MarkUnavailable(w, i) PROVE Inv'
<1> DEFINE s == IF out[i].state = "Pending" THEN "CancelledBeforeRelease" ELSE "Unknown"
           pc == IF out[i].state = "Pending" THEN "Outbox" ELSE "Yield"
           j == IF out[i].state = "Pending" THEN None ELSE i
<1>1. /\ worker[w].pc = "Outbox" /\ CurrentClaim(w) /\ Dispatchable(i, worker[w].target)
      /\ out' = [out EXCEPT ![i].avail = FALSE, ![i].state = s]
      /\ Goto(w, pc, j)
      /\ author' = worker[w].claim.fence /\ pinned' = {} /\ UNCHANGED run /\ Outside
    BY DEF MarkUnavailable, Selected, Publish
<1>2. out[i].state = "Pending" \/ out[i].state \in {"Claimed", "Unknown"}
    BY <1>1 DEF Dispatchable
<1>3. s \in {"CancelledBeforeRelease", "Unknown"}
    OBVIOUS
<1>4. s \in Begun <=> out[i].state \in Begun
    BY <1>2 DEF Begun
<1> HIDE DEF s
<1>5. /\ out \in [Intents -> OutboxRow]
      /\ \A k \in Intents : out[k].state \in {"Applied", "NotApplied"} => ledger[k].state = out[k].state
    BY DEF Inv, TypeOK, Rows
<1>6. out' \in [Intents -> OutboxRow]
    BY <1>1, <1>3, <1>5, ZenonT(60) DEF OutboxRow, Settled
<1>7. /\ out'[i].state = s /\ out'[i].owner = out[i].owner
      /\ \A k \in Intents \ {i} : out'[k] = out[k]
    BY <1>1, <1>5 DEF OutboxRow
<1>8. OutKept /\ RunKept
    BY <1>1, <1>3, <1>4, <1>5, <1>6, <1>7, SameRunKept DEF OutKept, Begun, Inv
<1>9. QED
    BY <1>1, <1>8, CurrentFence, GotoStep

LEMMA ObserveUnknownStep ==
    ASSUME Inv, NEW w \in Workers, NEW i \in Intents, ObserveUnknown(w, i) PROVE Inv'
<1>1. /\ worker[w].pc = "Outbox" /\ CurrentClaim(w) /\ out[i].state = "Claimed"
      /\ out' = [out EXCEPT ![i].state = "Unknown"]
      /\ author' = worker[w].claim.fence /\ pinned' = {} /\ UNCHANGED <<run, worker>> /\ Outside
    BY DEF ObserveUnknown, Selected, Publish
<1>2. OutKept /\ RunKept
    BY <1>1, StateOut, SameRunKept DEF Begun, Inv
<1>3. QED
    BY <1>1, <1>2, CurrentFence, StayStep

(* An answer of the provider is published.                                 *)
LEMMA SettleStep ==
    ASSUME Inv, NEW w \in Workers, SettleDispatch(w) \/ SettleReconcile(w) PROVE Inv'
<1> DEFINE i == worker[w].intent
           s == IF worker[w].reply = "Error" THEN "Unknown" ELSE worker[w].reply
           pc == IF s = "Unknown" THEN "Yield" ELSE "Outbox"
           j == IF s = "Unknown" THEN i ELSE None
<1>1. /\ worker[w].pc \in {"Dispatching", "Asking"} /\ worker[w].reply # None /\ CurrentClaim(w)
      /\ out' = [out EXCEPT ![i].state = s]
      /\ worker' = [worker EXCEPT ![w].pc = pc, ![w].intent = j, ![w].reply = None]
      /\ author' = worker[w].claim.fence /\ pinned' = {} /\ UNCHANGED run /\ Outside
    BY DEF SettleDispatch, SettleReconcile, Publish
<1>2. i \in Intents /\ out[i].state \in Begun
    BY <1>1 DEF Inv, Attempts
<1>3. worker[w].reply \in Replies /\ worker[w] \in WorkerRecord
    BY DEF Inv, TypeOK, WorkerRecord
<1>4. s \in {"Applied", "NotApplied"} => ledger[i].state = s
    BY DEF Inv, Rows
<1>5. s \in {"Applied", "NotApplied", "Unknown"}
    BY <1>1, <1>3 DEF Replies, None
<1>6. pc \in {"Yield", "Outbox"} /\ j \in Intents \cup {None}
    BY <1>2
<1> HIDE DEF i, s, pc, j
<1>7. OutKept /\ RunKept
    BY <1>1, <1>2, <1>4, <1>5, StateOut, SameRunKept DEF Inv
<1>8. Drives(w, pc, j, worker[w].target, worker[w].root, None)
    BY <1>1, <1>6 DEF Inv, TypeOK, WorkerRecord, Drives, Replies
<1>9. worker[w].root => worker[w].target = None /\ run'.scope = "Committed"
    BY <1>1, DriveFacts
<1>10. QED
    BY <1>1, <1>6, <1>7, <1>8, <1>9, CurrentFence, DriveStep

(* A call that ends without an answer.                                     *)
LEMMA UnansweredStep ==
    ASSUME Inv, NEW w \in Workers, UnansweredReconcile(w) \/ Timeout(w) PROVE Inv'
<1>1. /\ worker[w].pc \in {"Dispatching", "Asking"} /\ UNCHANGED <<run, out, author>> /\ Outside
      /\ pinned' \subseteq Workers
    BY DEF UnansweredReconcile, Timeout, Silent, Inv, TypeOK
<1>2. OutKept /\ RunKept
    BY <1>1, SameOutKept, SameRunKept DEF Inv
<1>3. worker[w].root => worker[w].target = None /\ run'.scope = "Committed"
    BY <1>1, DriveFacts
<1>4. CASE UnansweredReconcile(w)
    <2>1. Drives(w, "Yield", worker[w].intent, worker[w].target, worker[w].root, None)
        BY <1>4 DEF UnansweredReconcile, Inv, TypeOK, WorkerRecord, Drives, Replies
    <2>2. QED
        BY <1>1, <1>2, <1>3, <2>1, DriveStep
<1>5. CASE Timeout(w)
    <2>1. Drives(w, worker[w].pc, worker[w].intent, worker[w].target, worker[w].root, "Error")
        BY <1>5, ZenonT(60) DEF Timeout, Inv, TypeOK, WorkerRecord, Drives, Replies
    <2>2. QED
        BY <1>1, <1>2, <1>3, <2>1, DriveStep
<1>6. QED
    BY <1>4, <1>5

LEMMA EndStep ==
    ASSUME Inv, NEW w \in Workers, ReadbackMismatch(w) \/ Refused(w) \/ Crash(w) PROVE Inv'
<1>1. /\ worker' = [worker EXCEPT ![w] = Idle] /\ UNCHANGED <<run, out, author>> /\ Outside
      /\ pinned' \subseteq Workers
    BY DEF ReadbackMismatch, Refused, Crash, Leave, Silent, Inv, TypeOK
<1>2. QED
    BY <1>1, IdleIdles, LeaveStep DEF Inv

-----------------------------------------------------------------------------
(* The clock and the claim of the Run.                                     *)

LEMMA ObserveStep == ASSUME Inv, NEW w \in Workers, Observe(w) PROVE Inv'
<1>1. /\ clock' \in (clock + 1)..MaxTime /\ holder' = w
      /\ UNCHANGED <<run, out, worker, pinned, resolver, sent, released, author,
                     calls, running, ledger, world>>
    BY DEF Observe, providerVars
<1>2. clock \in Nat /\ MaxTime \in Nat
    BY LeaseAssumption DEF Inv, TypeOK
<1>3. clock' \in 0..MaxTime /\ clock <= clock' /\ clock' \in Nat
    BY <1>1, <1>2
<1>4. TypeOK'
    BY <1>1, <1>3 DEF Inv, TypeOK
<1>5. Leases'
    <2>1. \A v \in Workers : worker[v].pc # "Idle" /\ worker[v].claim.expires <= clock
              => worker[v].claim.expires <= clock'
        <3>1. \A v \in Workers : worker[v].pc # "Idle" => worker[v].claim \in Claim
            BY DEF Inv, TypeOK, WorkerRecord, Leases
        <3>2. \A v \in Workers : worker[v].pc # "Idle" => worker[v].claim.expires \in Int
            BY <3>1, LeaseAssumption DEF Claim
        <3>3. QED
            BY <1>2, <1>3, <3>2
    <2>2. QED
        BY <1>1, <2>1 DEF Inv, Leases
<1>6. Attempts' /\ License' /\ Rows' /\ Finishing'
    BY <1>1 DEF Inv, Attempts, License, Rows, Finishing, Completable
<1>7. QED
    BY <1>4, <1>5, <1>6 DEF Inv

(* A claim is taken when the Run has none, or one that has expired: every  *)
(* older drive has lost it.                                                *)
LEMMA AcquireStep ==
    ASSUME Inv, NEW w \in Workers, NEW pc \in {"Drive", "Outbox"}, NEW target \in Intents \cup {None},
           Acquire(w, pc, target), pc = "Drive" => target = None,
           released \subseteq released', released' \subseteq Intents,
           target # None => target \in released',
           run.claim # NoClaim => run.claim.expires <= clock,
           run.fenced = None, run.status # "Cancelled"
    PROVE  Inv'
<1> DEFINE claim == [owner |-> w, fence |-> run.fence + 1, expires |-> clock + TTL]
<1>1. /\ worker[w].pc = "Idle" /\ holder = w /\ run.fence < MaxFence[run.plan]
      /\ run' = [run EXCEPT !.status = "Running", !.fence = @ + 1, !.claim = claim]
      /\ worker' = [worker EXCEPT ![w] = [Idle EXCEPT !.pc = pc, !.claim = claim, !.target = target]]
      /\ author' = claim.fence /\ pinned' = {}
      /\ UNCHANGED <<out, clock, holder, resolver, sent, calls, running, ledger, world>>
    BY DEF Acquire, providerVars
<1>2. TypeOK /\ Leases /\ Attempts /\ License /\ Rows /\ Finishing /\ OutKept
    BY SameOutKept, <1>1 DEF Inv
<1>3. run \in RunRecord /\ run.fence \in Nat /\ clock \in 0..MaxTime /\ MaxFence[run.plan] \in Nat
      /\ MaxTime \in Nat /\ TTL \in Nat
    BY <1>2, PlanFacts, LeaseAssumption DEF TypeOK, RunRecord
<1>4. claim \in Claim /\ claim.owner = w /\ claim.fence = run.fence + 1
    BY <1>3 DEF Claim
<1>5. claim # NoClaim
    BY <1>4, PlanAssumption DEF NoClaim, Workers
<1> HIDE DEF claim
<1>6. /\ run' \in RunRecord /\ run'.status = "Running" /\ run'.fence = run.fence + 1
      /\ run'.claim = claim /\ run'.fenced = None /\ run'.plan = run.plan
      /\ run'.step = run.step /\ run'.scope = run.scope
    <2>1. run.fence + 1 \in Nat /\ claim \in Claim \cup {NoClaim}
        BY <1>3, <1>4
    <2>2. run' \in RunRecord
        BY <2>1, <1>1, <1>3 DEF RunRecord
    <2>3. QED
        BY <2>2, <1>1, <1>3 DEF RunRecord
<1>7. /\ worker' \in [Workers -> WorkerRecord]
      /\ \A v \in Workers \ {w} : worker'[v] = worker[v]
      /\ worker'[w].pc = pc /\ worker'[w].claim = claim /\ worker'[w].target = target
      /\ ~worker'[w].root /\ worker'[w].reply = None
    BY <1>1, <1>2, <1>4, ZenonT(60) DEF TypeOK, WorkerRecord, Idle, Replies
<1>8. TypeOK'
    <2>1. author' \in 0..run'.fence
        BY <1>1, <1>3, <1>4, <1>6
    <2>2. run'.step \in 1..(Len(run'.plan.steps) + 1) /\ run'.fence <= MaxFence[run'.plan]
        BY <1>1, <1>2, <1>3, <1>6 DEF TypeOK
    <2>3. QED
        BY <1>1, <1>2, <1>6, <1>7, <2>1, <2>2 DEF TypeOK
<1>9. Leases'
    <2>1. \A v \in Workers : worker'[v].pc # "Idle" =>
              /\ worker'[v].claim # NoClaim /\ worker'[v].claim.owner = v
              /\ worker'[v].claim.fence <= run'.fence
              /\ worker'[v].claim.fence = run'.fence => run'.claim = worker'[v].claim
              /\ worker'[v].claim.fence < run'.fence /\ run'.status # "Cancelled"
                    => worker'[v].claim.expires <= clock'
              /\ worker'[v].pc = "Closing" => run'.fenced = "Scope" /\ run'.claim = worker'[v].claim
        <3> SUFFICES ASSUME NEW v \in Workers, worker'[v].pc # "Idle"
                     PROVE  /\ worker'[v].claim # NoClaim /\ worker'[v].claim.owner = v
                            /\ worker'[v].claim.fence <= run'.fence
                            /\ worker'[v].claim.fence = run'.fence => run'.claim = worker'[v].claim
                            /\ worker'[v].claim.fence < run'.fence /\ run'.status # "Cancelled"
                                  => worker'[v].claim.expires <= clock'
                            /\ worker'[v].pc = "Closing" =>
                                  run'.fenced = "Scope" /\ run'.claim = worker'[v].claim
            OBVIOUS
        <3>1. CASE v = w
            BY <3>1, <1>3, <1>4, <1>5, <1>6, <1>7
        <3>2. CASE v # w
            <4>1. worker'[v] = worker[v] /\ worker[v].pc # "Idle"
                BY <3>2, <1>7
            <4>2. /\ worker[v].claim # NoClaim /\ worker[v].claim.owner = v
                  /\ worker[v].claim.fence <= run.fence
                  /\ worker[v].claim.fence = run.fence => run.claim = worker[v].claim
                  /\ worker[v].claim.fence < run.fence => worker[v].claim.expires <= clock
                  /\ worker[v].pc # "Closing"
                BY <4>1, <1>2 DEF Leases, None
            <4>3. worker[v].claim \in Claim
                BY <4>2, <1>2 DEF TypeOK, WorkerRecord
            <4>4. worker[v].claim.fence \in Nat
                BY <4>3 DEF Claim
            <4>5. worker[v].claim.expires <= clock
                BY <4>2, <4>4, <1>3
            <4>6. QED
                BY <4>1, <4>2, <4>4, <4>5, <1>1, <1>3, <1>6
        <3>3. QED
            BY <3>1, <3>2
    <2>2. run'.fenced # "Cancel" /\ run'.fenced # "Scope" /\ run'.claim # NoClaim
          /\ run'.claim.fence = run'.fence /\ author' = run'.fence
        BY <1>1, <1>4, <1>5, <1>6 DEF None
    <2>3. QED
        BY <2>1, <2>2, <1>6 DEF Leases
<1>10. Attempts'
    <2>1. CallsKept
        BY <1>7 DEF CallsKept
    <2>2. QED
        BY <2>1, <1>1, <1>2, AttemptsKept
<1>11. License'
    BY <1>1, <1>2, <1>6, <1>7 DEF License
<1>12. Rows'
    <2>1. RepliesKept
        BY <1>2, <1>7 DEF RepliesKept, Rows
    <2>2. QED
        BY <2>1, <1>1, <1>2, RowsKept
<1>13. Finishing'
    <2> SUFFICES ASSUME NEW v \in Workers
                 PROVE  /\ worker'[v].root => worker'[v].target = None /\ run'.scope = "Committed"
                        /\ worker'[v].pc \in {"Drive", "Closing", "Complete"} => worker'[v].target = None
                        /\ worker'[v].pc = "Complete" /\ run'.claim = worker'[v].claim => Completable'
        BY Zenon DEF Finishing
    <2>1. CASE v = w
        BY <2>1, <1>7
    <2>2. CASE v # w
        <3>1. worker'[v] = worker[v]
            BY <2>2, <1>7
        <3>2. worker[v].pc = "Complete" => worker[v].claim # run'.claim
            BY <2>2, <1>2, <1>4, <1>6 DEF Leases
        <3>3. QED
            BY <3>1, <3>2, <1>2, <1>6 DEF Finishing
    <2>3. QED
        BY <2>1, <2>2
<1>14. QED
    BY <1>8, <1>9, <1>10, <1>11, <1>12, <1>13 DEF Inv

LEMMA ClaimStep ==
    ASSUME Inv, NEW w \in Workers,
           \/ StartRun(w) \/ Resume(w) \/ Takeover(w)
           \/ \E i \in Intents : ReleaseEffect(w, i)
    PROVE  Inv'
<1>1. /\ run.status \notin {"Running", "Cancelled"} => run.claim = NoClaim
      /\ run.fenced \in {None, "Scope", "Cancel"} /\ released \subseteq Intents
      /\ run.status = "Absent" => run.fenced = None
    BY DEF Inv, TypeOK, RunRecord, Leases
<1>2. CASE StartRun(w)
    BY <1>1, <1>2, AcquireStep DEF StartRun
<1>3. CASE Resume(w)
    BY <1>1, <1>3, AcquireStep DEF Resume
<1>4. CASE Takeover(w)
    <2>1. run.claim.expires <= clock
        <3>1. run.claim \in Claim
            BY <1>4 DEF Takeover, Inv, TypeOK, RunRecord, Leases
        <3>2. run.claim.expires \in Int /\ clock \in Int
            BY <3>1, LeaseAssumption DEF Claim, Inv, TypeOK
        <3>3. QED
            BY <3>2, <1>4 DEF Takeover
    <2>2. QED
        BY <1>1, <2>1, <1>4, AcquireStep DEF Takeover
<1>5. CASE \E i \in Intents : ReleaseEffect(w, i)
    <2>1. PICK i \in Intents : ReleaseEffect(w, i)
        BY <1>5
    <2>2. QED
        BY <1>1, <2>1, AcquireStep DEF ReleaseEffect
<1>6. QED
    BY <1>2, <1>3, <1>4, <1>5

-----------------------------------------------------------------------------
(* The paged close of a wide root Scope.                                   *)

(* The Run is fenced, or the fence is taken away, by the holder of its     *)
(* claim.                                                                  *)
LEMMA FenceStep ==
    ASSUME Inv, NEW w \in Workers, NEW pc \in {"Closing", "Drive"}, Goto(w, pc, None),
           worker[w].pc \in {"Drive", "Closing"}, run.claim = worker[w].claim,
           run.status = "Running", run.fenced # "Cancel",
           \A v \in Workers \ {w} : worker[v].pc # "Closing",
           run' \in RunRecord, run'.status = run.status, run'.fence = run.fence,
           run'.claim = run.claim, run'.plan = run.plan, run'.step = run.step,
           run'.scope \in {run.scope, "Committed"},
           run'.fenced = IF pc = "Closing" THEN "Scope" ELSE None,
           Publish(w), UNCHANGED out, Outside
    PROVE  Inv'
<1>1. TypeOK /\ Leases /\ Attempts /\ License /\ Rows /\ Finishing /\ OutKept
    BY SameOutKept DEF Inv
<1>2. Drives(w, pc, None, worker[w].target, worker[w].root, worker[w].reply)
    BY <1>1, GotoDrives
<1>3. /\ worker' \in [Workers -> WorkerRecord]
      /\ \A v \in Workers \ {w} : worker'[v] = worker[v]
      /\ worker'[w].claim = worker[w].claim
      /\ worker'[w].pc = pc /\ worker'[w].target = worker[w].target
      /\ worker'[w].root = worker[w].root /\ worker'[w].reply = worker[w].reply
    BY <1>2 DEF Drives
<1>4. UNCHANGED <<clock, holder, resolver, sent, released, calls, running, ledger, world>>
    BY DEF Outside, providerVars
<1>5. author' = run.fence /\ pinned' = {}
    BY <1>1 DEF Publish, Leases
<1>6. worker[w].reply = None /\ worker[w].target = None
    BY DriveFacts
<1>7. TypeOK'
    BY <1>1, <1>3, <1>4, <1>5 DEF TypeOK, RunRecord
<1>8. Leases'
    <2>1. \A v \in Workers : worker'[v].pc # "Idle" =>
              /\ worker[v].pc # "Idle" /\ worker'[v].claim = worker[v].claim
              /\ worker'[v].pc = "Closing" => v = w
        BY <1>3
    <2>2. worker'[w].pc = "Closing" => run'.fenced = "Scope"
        BY <1>3
    <2>3. run'.fenced # "Cancel"
        BY DEF None
    <2>4. QED
        BY <1>1, <1>4, <1>5, <2>1, <2>2, <2>3 DEF Leases
<1>9. Attempts'
    <2>1. CallsKept
        BY <1>3 DEF CallsKept
    <2>2. QED
        BY <2>1, <1>1, <1>4, AttemptsKept
<1>10. License'
    <2>1. TargetsKept
        BY <1>3 DEF TargetsKept
    <2>2. QED
        BY <2>1, <1>1, <1>4, LicenseKept
<1>11. Rows'
    <2>1. RepliesKept
        BY <1>1, <1>3, <1>6 DEF RepliesKept, Rows
    <2>2. QED
        BY <2>1, <1>1, <1>4, RowsKept
<1>12. Finishing'
    <2> SUFFICES ASSUME NEW v \in Workers
                 PROVE  /\ worker'[v].root => worker'[v].target = None /\ run'.scope = "Committed"
                        /\ worker'[v].pc \in {"Drive", "Closing", "Complete"} => worker'[v].target = None
                        /\ worker'[v].pc = "Complete" /\ run'.claim = worker'[v].claim => Completable'
        BY Zenon DEF Finishing
    <2>1. worker'[v].target = worker[v].target /\ worker'[v].root = worker[v].root
          /\ worker'[v].claim = worker[v].claim
        BY <1>3
    <2>2. worker'[v].pc = worker[v].pc \/ (v = w /\ worker'[v].pc # "Complete")
        BY <1>3
    <2>3. Completable => Completable'
        BY DEF Completable
    <2>4. QED
        BY <2>1, <2>2, <2>3, <1>1, <1>6 DEF Finishing
<1>13. QED
    BY <1>7, <1>8, <1>9, <1>10, <1>11, <1>12 DEF Inv

LEMMA BeginCommitRootScopeStep ==
    ASSUME Inv, NEW w \in Workers, BeginCommitRootScope(w) PROVE Inv'
<1>1. /\ worker[w].pc = "Drive" /\ CurrentClaim(w) /\ Goto(w, "Closing", None)
      /\ run' = [run EXCEPT !.fenced = "Scope"] /\ Publish(w) /\ UNCHANGED out /\ Outside
    BY DEF BeginCommitRootScope, Step
<1>2. \A v \in Workers : worker[v].pc # "Closing"
    BY <1>1 DEF CurrentClaim, Inv, Leases, None
<1>3. /\ run' \in RunRecord /\ run'.status = run.status /\ run'.fence = run.fence
      /\ run'.claim = run.claim /\ run'.plan = run.plan /\ run'.step = run.step
      /\ run'.scope = run.scope /\ run'.fenced = "Scope"
    BY <1>1 DEF Inv, TypeOK, RunRecord
<1>4. run.status = "Running" /\ run.claim = worker[w].claim /\ run.fenced # "Cancel"
    BY <1>1 DEF CurrentClaim, None
<1>5. QED
    BY <1>1, <1>2, <1>3, <1>4, FenceStep

LEMMA FinishCommitRootScopeStep ==
    ASSUME Inv, NEW w \in Workers, FinishCommitRootScope(w) PROVE Inv'
<1>1. /\ worker[w].pc = "Closing" /\ Goto(w, "Drive", None)
      /\ run' = [run EXCEPT !.fenced = None, !.scope = "Committed"]
      /\ Publish(w) /\ UNCHANGED out /\ Outside
    BY DEF FinishCommitRootScope
<1>2. run.fenced = "Scope" /\ run.claim = worker[w].claim /\ run.status = "Running"
    BY <1>1 DEF Inv, Leases
<1>3. \A v \in Workers \ {w} : worker[v].pc # "Closing"
    <2> SUFFICES ASSUME NEW v \in Workers, worker[v].pc = "Closing" PROVE v = w
        OBVIOUS
    <2>1. run.claim = worker[v].claim
        BY DEF Inv, Leases
    <2>2. QED
        BY <2>1, <1>1, <1>2, ClaimIsUnique DEF Inv
<1>4. /\ run' \in RunRecord /\ run'.status = run.status /\ run'.fence = run.fence
      /\ run'.claim = run.claim /\ run'.plan = run.plan /\ run'.step = run.step
      /\ run'.scope = "Committed" /\ run'.fenced = None
    BY <1>1 DEF Inv, TypeOK, RunRecord
<1>5. QED
    BY <1>1, <1>2, <1>3, <1>4, FenceStep

(* The drive gives the claim back: no other drive can hold it.             *)
LEMMA GiveBackStep ==
    ASSUME Inv, NEW w \in Workers, YieldReady(w) \/ CompleteRun(w) PROVE Inv'
<1>1. PICK s \in {"Ready", "Completed"} : run' = [run EXCEPT !.status = s, !.claim = NoClaim]
    BY DEF YieldReady, CompleteRun
<1>2. /\ worker[w].pc # "Idle" /\ CurrentClaim(w) /\ worker' = [worker EXCEPT ![w] = Idle]
      /\ author' = worker[w].claim.fence /\ pinned' = {} /\ UNCHANGED out /\ Outside
    BY DEF YieldReady, CompleteRun, Publish
<1>3. TypeOK /\ Leases /\ Attempts /\ License /\ Rows /\ Finishing /\ OutKept
    BY <1>2, SameOutKept DEF Inv
<1>4. /\ worker' \in [Workers -> WorkerRecord]
      /\ \A v \in Workers \ {w} : worker'[v] = worker[v]
      /\ worker'[w].pc = "Idle" /\ worker'[w].target = None /\ ~worker'[w].root
      /\ worker'[w].reply = None
    BY <1>2, <1>3, IdleIdles DEF Idles
<1>5. UNCHANGED <<clock, holder, resolver, sent, released, calls, running, ledger, world>>
    BY <1>2 DEF Outside, providerVars
<1>6. /\ run' \in RunRecord /\ run'.status = s /\ run'.fence = run.fence
      /\ run'.claim = NoClaim /\ run'.plan = run.plan /\ run'.step = run.step
      /\ run'.scope = run.scope /\ run'.fenced = run.fenced
    BY <1>1, <1>3 DEF TypeOK, RunRecord
<1>7. author' = run.fence /\ run.fenced = None
    BY <1>2, CurrentFence DEF CurrentClaim
<1>8. TypeOK'
    BY <1>2, <1>3, <1>4, <1>5, <1>6, <1>7 DEF TypeOK, RunRecord
<1>9. Leases'
    <2>1. \A v \in Workers : worker'[v].pc # "Idle" =>
              /\ worker'[v] = worker[v] /\ v # w
              /\ worker[v].claim.fence # run.fence /\ worker[v].pc # "Closing"
        <3> SUFFICES ASSUME NEW v \in Workers, worker'[v].pc # "Idle"
                     PROVE  /\ worker'[v] = worker[v] /\ v # w
                            /\ worker[v].claim.fence # run.fence /\ worker[v].pc # "Closing"
            OBVIOUS
        <3>1. worker'[v] = worker[v] /\ v # w
            BY <1>4
        <3>2. run.claim # worker[v].claim
            BY <3>1, <1>2, <1>3, ClaimIsUnique DEF CurrentClaim
        <3>3. QED
            BY <3>1, <3>2, <1>3 DEF Leases
    <2>2. \A v \in Workers : worker[v].pc # "Idle" =>
              /\ worker[v].claim # NoClaim /\ worker[v].claim.owner = v
              /\ worker[v].claim.fence <= run.fence
              /\ worker[v].claim.fence < run.fence => worker[v].claim.expires <= clock
        BY <1>2, <1>3 DEF Leases, CurrentClaim
    <2>3. run'.status # "Running" /\ run'.fenced # "Cancel" /\ run'.fenced # "Scope"
        BY <1>6, <1>7 DEF None
    <2>4. QED
        BY <2>1, <2>2, <2>3, <1>5, <1>6, <1>7 DEF Leases
<1>10. Attempts'
    <2>1. CallsKept
        BY <1>4 DEF CallsKept
    <2>2. QED
        BY <2>1, <1>3, <1>5, AttemptsKept
<1>11. License'
    <2>1. TargetsKept
        BY <1>4 DEF TargetsKept
    <2>2. QED
        BY <2>1, <1>3, <1>5, <1>6, LicenseKept
<1>12. Rows'
    <2>1. RepliesKept
        BY <1>3, <1>4 DEF RepliesKept, Rows
    <2>2. QED
        BY <2>1, <1>3, <1>5, RowsKept
<1>13. Finishing'
    <2> SUFFICES ASSUME NEW v \in Workers
                 PROVE  /\ worker'[v].root => worker'[v].target = None /\ run'.scope = "Committed"
                        /\ worker'[v].pc \in {"Drive", "Closing", "Complete"} => worker'[v].target = None
                        /\ worker'[v].pc = "Complete" => run'.claim # worker'[v].claim
        BY Zenon DEF Finishing
    <2>1. CASE v = w
        BY <2>1, <1>4
    <2>2. CASE v # w
        BY <2>2, <1>3, <1>4, <1>6 DEF Finishing, Leases
    <2>3. QED
        BY <2>1, <2>2
<1>14. QED
    BY <1>8, <1>9, <1>10, <1>11, <1>12, <1>13 DEF Inv

-----------------------------------------------------------------------------
(* Cancellation.                                                           *)

LEMMA BeginCancelStep == ASSUME Inv, BeginCancel PROVE Inv'
<1>1. /\ run.status \in {"Ready", "Running"} /\ run.fenced = None /\ run.fence < MaxFence[run.plan]
      /\ run' = [run EXCEPT !.fenced = "Cancel"] /\ author' = 0 /\ pinned' = {}
      /\ UNCHANGED <<out, worker, clock, holder, resolver, sent, released,
                     calls, running, ledger, world>>
    BY DEF BeginCancel, Outside, providerVars
<1>2. /\ run' \in RunRecord /\ run'.status = run.status /\ run'.fence = run.fence
      /\ run'.claim = run.claim /\ run'.plan = run.plan /\ run'.step = run.step
      /\ run'.scope = run.scope /\ run'.fenced = "Cancel"
    BY <1>1 DEF Inv, TypeOK, RunRecord
<1>3. TypeOK'
    BY <1>1, <1>2 DEF Inv, TypeOK, RunRecord
<1>4. Leases'
    <2>1. \A v \in Workers : worker[v].pc # "Closing"
        BY <1>1 DEF Inv, Leases, None
    <2>2. QED
        BY <1>1, <1>2, <2>1 DEF Inv, Leases
<1>5. Attempts' /\ Rows'
    BY <1>1 DEF Inv, Attempts, Rows
<1>6. License' /\ Finishing'
    BY <1>1, <1>2 DEF Inv, License, Finishing, Completable
<1>7. QED
    BY <1>3, <1>4, <1>5, <1>6 DEF Inv

(* Every claim of the Run is older than its last fence from now on.        *)
LEMMA FinishCancelStep == ASSUME Inv, FinishCancel PROVE Inv'
<1> DEFINE state(i) == CASE out[i].state = "Pending" -> "CancelledBeforeRelease"
                         [] out[i].state = "Claimed" -> "Unknown"
                         [] OTHER -> out[i].state
           scope == IF run.scope = "Open" THEN "Aborted" ELSE run.scope
<1>1. /\ run.fenced = "Cancel"
      /\ run' = [run EXCEPT !.status = "Cancelled", !.fenced = None, !.claim = NoClaim,
                            !.fence = @ + 1, !.scope = scope]
      /\ out' = [i \in Intents |-> [out[i] EXCEPT !.state = state(i)]]
      /\ author' = 0 /\ pinned' = {}
      /\ UNCHANGED <<worker, clock, holder, resolver, sent, released,
                     calls, running, ledger, world>>
    BY DEF FinishCancel, Outside, providerVars
<1>2. TypeOK /\ Leases /\ Attempts /\ License /\ Rows /\ Finishing
    BY DEF Inv
<1>3. /\ run \in RunRecord /\ run.fence \in Nat /\ run.fence < MaxFence[run.plan]
      /\ MaxFence[run.plan] \in Nat
    BY <1>1, <1>2, PlanFacts DEF TypeOK, RunRecord, Leases
<1>4. scope \in {"Open", "Committed", "Aborted"} /\ (run.scope = "Committed" => scope = "Committed")
    BY <1>3 DEF RunRecord
<1> HIDE DEF scope
<1>5. /\ run' \in RunRecord /\ run'.status = "Cancelled" /\ run'.fence = run.fence + 1
      /\ run'.claim = NoClaim /\ run'.plan = run.plan /\ run'.step = run.step
      /\ run'.scope = scope /\ run'.fenced = None
    <2>1. run.fence + 1 \in Nat
        BY <1>3
    <2>2. run' \in RunRecord
        BY <2>1, <1>1, <1>3, <1>4 DEF RunRecord
    <2>3. QED
        BY <2>2, <1>1, <1>3 DEF RunRecord
<1>6. OutKept
    <2>1. \A i \in Intents :
              /\ state(i) \in {None, "Pending", "Claimed", "Unknown"} \cup Settled
              /\ state(i) \in Begun <=> out[i].state \in Begun
              /\ state(i) \in {"Applied", "NotApplied"} => state(i) = out[i].state
        BY <1>2 DEF TypeOK, OutboxRow, Begun, Settled
    <2> HIDE DEF state
    <2>2. out \in [Intents -> OutboxRow]
        BY <1>2 DEF TypeOK
    <2>3. out' \in [Intents -> OutboxRow]
        BY <1>1, <2>1, <2>2 DEF OutboxRow
    <2>4. \A i \in Intents : out'[i].state = state(i) /\ out'[i].owner = out[i].owner
        BY <1>1, <2>2 DEF OutboxRow
    <2>5. QED
        BY <1>2, <2>1, <2>3, <2>4 DEF OutKept, Rows
<1>7. TypeOK'
    <2>1. run'.step \in 1..(Len(run'.plan.steps) + 1) /\ run'.fence <= MaxFence[run'.plan]
          /\ author' \in 0..run'.fence
        BY <1>1, <1>2, <1>3, <1>5 DEF TypeOK
    <2>2. QED
        BY <1>1, <1>2, <1>5, <1>6, <2>1 DEF TypeOK, OutKept
<1>8. Leases'
    <2>1. \A v \in Workers : worker[v].pc # "Idle" =>
              /\ worker[v].claim # NoClaim /\ worker[v].claim.owner = v
              /\ worker[v].claim.fence <= run.fence /\ worker[v].pc # "Closing"
        BY <1>1, <1>2 DEF Leases
    <2>2. \A v \in Workers : worker[v].pc # "Idle" => worker[v].claim.fence \in Nat
        BY <2>1, <1>2 DEF TypeOK, WorkerRecord, Claim
    <2>3. \A v \in Workers : worker[v].pc # "Idle" =>
              worker[v].claim.fence <= run'.fence /\ worker[v].claim.fence # run'.fence
        BY <2>1, <2>2, <1>3, <1>5
    <2>4. run'.fenced # "Cancel" /\ run'.fenced # "Scope"
        BY <1>5 DEF None
    <2>5. QED
        BY <1>1, <1>5, <2>1, <2>3, <2>4 DEF Leases
<1>9. Attempts'
    <2>1. CallsKept
        BY <1>1 DEF CallsKept
    <2>2. QED
        BY <2>1, <1>1, <1>2, <1>6, AttemptsKept
<1>10. License'
    <2>1. TargetsKept
        BY <1>1 DEF TargetsKept
    <2>2. QED
        BY <2>1, <1>1, <1>2, <1>4, <1>5, <1>6, LicenseKept
<1>11. Rows'
    <2>1. RepliesKept
        BY <1>1, <1>2 DEF RepliesKept, Rows
    <2>2. QED
        BY <2>1, <1>1, <1>2, <1>6, RowsKept
<1>12. Finishing'
    <2>1. \A v \in Workers : worker[v].pc = "Complete" => run'.claim # worker[v].claim
        BY <1>2, <1>5 DEF Leases
    <2>2. QED
        BY <1>1, <1>2, <1>4, <1>5, <2>1 DEF Finishing
<1>13. QED
    BY <1>7, <1>8, <1>9, <1>10, <1>11, <1>12 DEF Inv

-----------------------------------------------------------------------------
(* Claiming an intent, and calling the provider.                           *)

(* What a selected intent is licensed by.                                  *)
LEMMA SelectedLicense ==
    ASSUME Inv, NEW w \in Workers, NEW i \in Intents, Dispatchable(i, worker[w].target),
           out[i].state = "Pending"
    PROVE  /\ run.plan.policy[i] # "Eager" => run.scope = "Committed"
           /\ run.plan.policy[i] = "Explicit" => i \in released
<1>1. run.plan.policy[i] \in {"Eager", "OnScopeCommit", "Explicit"}
    BY PlanFacts DEF Inv
<1>2. worker[w].target # None => worker[w].target \in released
    BY DEF Inv, License
<1>3. QED
    BY <1>1, <1>2 DEF Dispatchable

LEMMA ClaimEffectStep ==
    ASSUME Inv, NEW w \in Workers, NEW i \in Intents, ClaimEffect(w, i) PROVE Inv'
<1>1. /\ worker[w].pc = "Outbox" /\ CurrentClaim(w) /\ Dispatchable(i, worker[w].target)
      /\ out[i].state = "Pending"
      /\ out' = [out EXCEPT ![i].state = "Claimed", ![i].owner = w]
      /\ Goto(w, "Claimed", i)
      /\ author' = worker[w].claim.fence /\ pinned' = {w} /\ UNCHANGED run /\ Outside
    BY DEF ClaimEffect, Selected
<1>2. TypeOK /\ Leases /\ Attempts /\ License /\ Rows /\ Finishing /\ RunKept
    BY <1>1, SameRunKept DEF Inv
<1>3. UNCHANGED <<clock, holder, resolver, sent, released, calls, running, ledger, world>>
    BY <1>1 DEF Outside, providerVars
<1>4. /\ worker' \in [Workers -> WorkerRecord]
      /\ \A v \in Workers \ {w} : worker'[v] = worker[v]
      /\ worker'[w].claim = worker[w].claim
      /\ worker'[w].pc = "Claimed" /\ worker'[w].intent = i
      /\ worker'[w].target = worker[w].target
      /\ worker'[w].root = worker[w].root /\ worker'[w].reply = worker[w].reply
    BY <1>1, <1>2, GotoDrives DEF Drives
<1>5. out \in [Intents -> OutboxRow]
    BY <1>2 DEF TypeOK
<1>6. /\ out' \in [Intents -> OutboxRow]
      /\ out'[i].state = "Claimed" /\ out'[i].owner = w
      /\ \A j \in Intents \ {i} : out'[j] = out[j]
    BY <1>1, <1>5 DEF OutboxRow
<1>7. worker[w].reply = None /\ author' = run.fence
      /\ (worker[w].root => worker[w].target = None /\ run.scope = "Committed")
    BY <1>1, DriveFacts, CurrentFence
<1>8. TypeOK'
    BY <1>1, <1>2, <1>3, <1>4, <1>6, <1>7 DEF TypeOK, RunRecord
<1>9. Leases'
    <2>1. ClaimsKept
        BY <1>1, <1>4 DEF ClaimsKept
    <2>2. QED
        BY <2>1, <1>2, <1>3, <1>7, LeasesKept
<1>10. Attempts'
    <2>1. out[i].state \notin Begun
        BY <1>1 DEF Begun
    <2>2. sent[i] = 0 /\ ledger[i].state = "Free"
        BY <2>1, <1>2 DEF Attempts, TypeOK
    <2>3. \A c \in calls \cup running : c.intent \in Intents \ {i}
        BY <2>1, <1>2 DEF Attempts, TypeOK, Call
    <2>4. \A v \in Workers : worker[v].pc \in {"Claimed", "Dispatching", "Asking"} =>
              worker[v].intent \in Intents \ {i}
        BY <2>1, <1>2 DEF Attempts
    <2>5. /\ \A j \in Intents :
                /\ sent'[j] > 0 => sent'[j] = 1 /\ out'[j].state \in Begun
                /\ ledger'[j].state # "Free" =>
                      out'[j].state \in Begun /\ ledger'[j].attempt = out'[j].owner
        BY <1>2, <1>3, <1>6, <2>2 DEF Attempts
    <2>6. \A c \in calls' \cup running' :
              out'[c.intent].state \in Begun /\ c.attempt = out'[c.intent].owner
        BY <1>2, <1>3, <1>6, <2>3 DEF Attempts
    <2>7. \A v \in Workers :
              /\ worker'[v].pc \in {"Claimed", "Dispatching", "Asking"} =>
                    worker'[v].intent \in Intents /\ out'[worker'[v].intent].state \in Begun
              /\ worker'[v].pc = "Claimed" =>
                    sent'[worker'[v].intent] = 0 /\ out'[worker'[v].intent].owner = v
        <3> SUFFICES ASSUME NEW v \in Workers
                     PROVE  /\ worker'[v].pc \in {"Claimed", "Dispatching", "Asking"} =>
                                  worker'[v].intent \in Intents /\ out'[worker'[v].intent].state \in Begun
                            /\ worker'[v].pc = "Claimed" =>
                                  sent'[worker'[v].intent] = 0 /\ out'[worker'[v].intent].owner = v
            OBVIOUS
        <3>1. CASE v = w
            BY <3>1, <1>3, <1>4, <1>6, <2>2 DEF Begun
        <3>2. CASE v # w
            BY <3>2, <1>2, <1>3, <1>4, <1>6, <2>4 DEF Attempts
        <3>3. QED
            BY <3>1, <3>2
    <2>8. QED
        BY <1>2, <1>3, <2>5, <2>6, <2>7 DEF Attempts
<1>11. License'
    <2>1. \A v \in Workers : worker'[v].target = worker[v].target
        BY <1>4
    <2>2. QED
        BY <1>1, <1>2, <1>3, <1>6, <2>1, SelectedLicense DEF License, Begun
<1>12. Rows'
    <2>1. RepliesKept
        BY <1>2, <1>4, <1>7 DEF RepliesKept, Rows
    <2>2. \A j \in Intents : out'[j].state \in {"Applied", "NotApplied"} => ledger[j].state = out'[j].state
        BY <1>2, <1>6 DEF Rows
    <2>3. QED
        BY <1>2, <1>3, <2>1, <2>2 DEF Rows, RepliesKept, None
<1>13. Finishing'
    <2>1. FinishKept(w)
        BY <1>1, <1>4, <1>7 DEF FinishKept
    <2>2. QED
        BY <2>1, <1>1, <1>2, FinishingKept DEF CurrentClaim
<1>14. QED
    BY <1>8, <1>9, <1>10, <1>11, <1>12, <1>13 DEF Inv

(* A request for an intent that has begun joins the calls.                 *)
LEMMA CallStep ==
    ASSUME Inv, NEW w \in Workers, NEW i \in Intents, NEW op \in {"Dispatch", "Observe"},
           NEW attempt, attempt = out[i].owner, out[i].state \in Begun,
           worker[w].pc \in {"Outbox", "Claimed"},
           Goto(w, IF op = "Dispatch" THEN "Dispatching" ELSE "Asking", i),
           calls' = calls \cup {Request(w, op, i, attempt)},
           pinned' \subseteq Workers, sent' \in [Intents -> Nat],
           \A j \in Intents : sent'[j] = sent[j] \/ (j = i /\ sent'[j] = 1),
           \A v \in Workers \ {w} : worker[v].pc = "Claimed" /\ worker[v].intent = i => sent'[i] = 0,
           UNCHANGED <<run, out, clock, holder, resolver, released, author, running, ledger, world>>
    PROVE  Inv'
<1> DEFINE pc == IF op = "Dispatch" THEN "Dispatching" ELSE "Asking"
           call == Request(w, op, i, attempt)
<1>1. TypeOK /\ Leases /\ Attempts /\ License /\ Rows /\ Finishing /\ RunKept /\ OutKept
    BY SameRunKept, SameOutKept DEF Inv
<1>2. pc \in {"Dispatching", "Asking"}
    OBVIOUS
<1>3. /\ worker' \in [Workers -> WorkerRecord]
      /\ \A v \in Workers \ {w} : worker'[v] = worker[v]
      /\ worker'[w].claim = worker[w].claim
      /\ worker'[w].pc = pc /\ worker'[w].intent = i
      /\ worker'[w].target = worker[w].target
      /\ worker'[w].root = worker[w].root /\ worker'[w].reply = worker[w].reply
    BY <1>1, <1>2, GotoDrives DEF Drives
<1>4. worker[w].reply = None
      /\ (worker[w].root => worker[w].target = None /\ run.scope = "Committed")
    BY DriveFacts
<1>5. call \in Call /\ call.intent = i /\ call.attempt = attempt
    <2>1. worker[w].claim.fence \in Nat
        BY <1>1 DEF TypeOK, WorkerRecord, Claim, NoClaim
    <2>2. out[i].owner \in Owners \cup {None} /\ w \in Owners
        BY <1>1 DEF TypeOK, OutboxRow, Workers
    <2>3. QED
        BY <2>1, <2>2 DEF Request, Call, Decisions
<1> HIDE DEF pc, call
<1>6. calls' = calls \cup {call}
    BY DEF call
<1>7. TypeOK'
    BY <1>1, <1>3, <1>5, <1>6 DEF TypeOK
<1>8. Leases'
    <2>1. ClaimsKept
        BY <1>2, <1>3 DEF ClaimsKept
    <2>2. QED
        BY <2>1, <1>1, LeasesKept
<1>9. Attempts'
    <2>1. \A j \in Intents : sent'[j] > 0 => sent'[j] = 1 /\ out[j].state \in Begun
        BY <1>1 DEF Attempts
    <2>2. \A c \in calls' \cup running' :
              out'[c.intent].state \in Begun /\ c.attempt = out'[c.intent].owner
        BY <1>1, <1>5, <1>6 DEF Attempts
    <2>3. \A v \in Workers :
              /\ worker'[v].pc \in {"Claimed", "Dispatching", "Asking"} =>
                    worker'[v].intent \in Intents /\ out'[worker'[v].intent].state \in Begun
              /\ worker'[v].pc = "Claimed" =>
                    sent'[worker'[v].intent] = 0 /\ out'[worker'[v].intent].owner = v
        <3> SUFFICES ASSUME NEW v \in Workers
                     PROVE  /\ worker'[v].pc \in {"Claimed", "Dispatching", "Asking"} =>
                                  worker'[v].intent \in Intents /\ out'[worker'[v].intent].state \in Begun
                            /\ worker'[v].pc = "Claimed" =>
                                  sent'[worker'[v].intent] = 0 /\ out'[worker'[v].intent].owner = v
            OBVIOUS
        <3>1. CASE v = w
            BY <3>1, <1>2, <1>3
        <3>2. CASE v # w
            BY <3>2, <1>1, <1>3 DEF Attempts
        <3>3. QED
            BY <3>1, <3>2
    <2>4. QED
        BY <1>1, <2>1, <2>2, <2>3 DEF Attempts
<1>10. License'
    <2>1. TargetsKept
        BY <1>3 DEF TargetsKept
    <2>2. QED
        BY <2>1, <1>1, LicenseKept
<1>11. Rows'
    <2>1. RepliesKept
        BY <1>1, <1>3, <1>4 DEF RepliesKept, Rows
    <2>2. QED
        BY <2>1, <1>1, RowsKept
<1>12. Finishing'
    <2>1. FinishKept(w)
        BY <1>2, <1>3, <1>4 DEF FinishKept
    <2>2. QED
        BY <2>1, <1>1, FinishingKept
<1>13. QED
    BY <1>7, <1>8, <1>9, <1>10, <1>11, <1>12 DEF Inv

LEMMA AskProviderStep ==
    ASSUME Inv, NEW w \in Workers, NEW i \in Intents, AskProvider(w, i) PROVE Inv'
<1>1. /\ worker[w].pc = "Outbox" /\ out[i].state = "Unknown" /\ Goto(w, "Asking", i)
      /\ calls' = calls \cup {Request(w, "Observe", i, out[i].owner)}
      /\ pinned' = pinned \cup {w}
      /\ UNCHANGED <<run, out, clock, holder, resolver, sent, released, author,
                     running, ledger, world>>
    BY DEF AskProvider, Selected
<1>2. pinned' \subseteq Workers /\ sent' \in [Intents -> Nat]
    BY <1>1 DEF Inv, TypeOK
<1>3. \A v \in Workers : worker[v].pc = "Claimed" /\ worker[v].intent = i => sent'[i] = 0
    BY <1>1 DEF Inv, Attempts
<1>4. out[i].state \in Begun
    BY <1>1 DEF Begun
<1>5. QED
    BY <1>1, <1>2, <1>3, <1>4, CallStep

(* The intent's only claim is the caller's, so nobody else dispatches it.  *)
LEMMA DispatchStep == ASSUME Inv, NEW w \in Workers, Dispatch(w) PROVE Inv'
<1> DEFINE i == worker[w].intent
<1>1. /\ worker[w].pc = "Claimed" /\ out[i].owner = w /\ Goto(w, "Dispatching", i)
      /\ calls' = calls \cup {Request(w, "Dispatch", i, w)}
      /\ sent' = [sent EXCEPT ![i] = @ + 1]
      /\ UNCHANGED <<run, out, clock, holder, pinned, resolver, released, author,
                     running, ledger, world>>
    BY DEF Dispatch
<1>2. i \in Intents /\ out[i].state \in Begun /\ sent[i] = 0
    BY <1>1 DEF Inv, Attempts
<1>3. pinned' \subseteq Workers /\ sent \in [Intents -> Nat]
    BY <1>1 DEF Inv, TypeOK
<1>4. /\ sent' \in [Intents -> Nat]
      /\ \A j \in Intents : sent'[j] = sent[j] \/ (j = i /\ sent'[j] = 1)
    BY <1>1, <1>2, <1>3
<1>5. \A v \in Workers \ {w} : worker[v].pc = "Claimed" => worker[v].intent # i
    BY <1>1 DEF Inv, Attempts
<1> HIDE DEF i
<1>6. QED
    BY <1>1, <1>2, <1>3, <1>4, <1>5, CallStep

-----------------------------------------------------------------------------
(* The provider.                                                           *)

(* An answer changes nothing of an executor but the reply it waited for.   *)
Answered(c, reply) ==
    /\ worker' \in [Workers -> WorkerRecord]
    /\ \A v \in Workers : worker'[v] # worker[v] =>
          /\ worker[v].pc \in {"Dispatching", "Asking"} /\ worker[v].intent = c.intent
          /\ worker'[v].pc = worker[v].pc /\ worker'[v].claim = worker[v].claim
          /\ worker'[v].intent = worker[v].intent /\ worker'[v].target = worker[v].target
          /\ worker'[v].root = worker[v].root /\ worker'[v].reply = reply
    /\ resolver' \in ResolverRecord
    /\ resolver' # resolver => resolver.intent = c.intent /\ resolver'.intent = c.intent
                               /\ resolver'.reply = reply

LEMMA AnswerAnswers ==
    ASSUME Inv, NEW c, NEW reply \in Replies, Answer(c, reply) \/ NoAnswer
    PROVE  Answered(c, reply)
<1>1. worker \in [Workers -> WorkerRecord] /\ resolver \in ResolverRecord
    BY DEF Inv, TypeOK
<1>2. CASE NoAnswer
    BY <1>1, <1>2 DEF NoAnswer, Answered
<1>3. CASE Answer(c, reply)
    <2>1. /\ worker' = [w \in Workers |-> IF WorkerAwaits(w, c)
                                         THEN [worker[w] EXCEPT !.reply = reply] ELSE worker[w]]
          /\ resolver' = IF ResolverAwaits(c) THEN [resolver EXCEPT !.reply = reply] ELSE resolver
        BY <1>3 DEF Answer
    <2>2. worker' \in [Workers -> WorkerRecord]
        BY <1>1, <2>1 DEF WorkerRecord
    <2>3. \A v \in Workers : worker'[v] # worker[v] =>
              /\ worker[v].pc \in {"Dispatching", "Asking"} /\ worker[v].intent = c.intent
        BY <2>1 DEF WorkerAwaits
    <2>4. \A v \in Workers : worker'[v] # worker[v] =>
              /\ worker'[v].pc = worker[v].pc /\ worker'[v].claim = worker[v].claim
              /\ worker'[v].intent = worker[v].intent /\ worker'[v].target = worker[v].target
              /\ worker'[v].root = worker[v].root /\ worker'[v].reply = reply
        BY <1>1, <2>1 DEF WorkerRecord
    <2>5. resolver' \in ResolverRecord
        BY <1>1, <2>1 DEF ResolverRecord
    <2>6. resolver' # resolver => resolver.intent = c.intent /\ resolver'.intent = c.intent
                                  /\ resolver'.reply = reply
        BY <1>1, <2>1 DEF ResolverAwaits, ResolverRecord
    <2>7. QED
        BY <2>2, <2>3, <2>4, <2>5, <2>6 DEF Answered
<1>4. QED
    BY <1>2, <1>3

(* One request is taken up: its row is written once, bound to the attempt  *)
(* of the request, and the answer, if any, is what the row says.           *)
LEMMA ProviderCallStep ==
    ASSUME Inv, NEW c \in calls \cup running, NEW reply \in Replies, Answered(c, reply),
           reply \in {"Applied", "NotApplied"} /\ <<worker, resolver>>' # <<worker, resolver>>
               => ledger'[c.intent].state = reply,
           calls' \subseteq calls, running' \subseteq calls \cup running,
           ledger' \in [Intents -> Row], world' \in [Intents -> Nat],
           \A i \in Intents : ledger'[i] = ledger[i] \/
               /\ i = c.intent /\ ledger[i].state \in {"Free", "Dispatching"}
               /\ ledger'[i].state # "Free" /\ ledger'[i].attempt = c.attempt,
           \A i \in Intents : ledger'[i].state \in {"Free", "NotApplied"} =>
               world'[i] = 0 /\ \A d \in running' : d.intent # i,
           UNCHANGED <<run, out, clock, holder, pinned, sent, released, author>>
    PROVE  Inv'
<1>1. TypeOK /\ Leases /\ Attempts /\ License /\ Rows /\ Finishing /\ RunKept
    BY SameRunKept DEF Inv
<1>2. /\ worker' \in [Workers -> WorkerRecord] /\ resolver' \in ResolverRecord
      /\ \A v \in Workers : /\ worker'[v].pc = worker[v].pc /\ worker'[v].claim = worker[v].claim
                            /\ worker'[v].intent = worker[v].intent
                            /\ worker'[v].target = worker[v].target
                            /\ worker'[v].root = worker[v].root
    BY DEF Answered
<1>3. TypeOK'
    BY <1>1, <1>2 DEF TypeOK
<1>4. Leases'
    <2>1. ClaimsKept
        BY <1>2 DEF ClaimsKept
    <2>2. QED
        BY <2>1, <1>1, LeasesKept
<1>5. c.intent \in Intents /\ out[c.intent].state \in Begun /\ c.attempt = out[c.intent].owner
    BY <1>1 DEF TypeOK, Call, Attempts
<1>6. Attempts'
    <2>1. \A i \in Intents : ledger'[i].state # "Free" =>
              out[i].state \in Begun /\ ledger'[i].attempt = out[i].owner
        BY <1>1, <1>5 DEF Attempts
    <2>2. resolver'.reply # None => resolver'.intent \in Intents
        BY <1>1, <1>5 DEF Answered, Attempts
    <2>3. QED
        BY <1>1, <1>2, <2>1, <2>2 DEF Attempts
<1>7. License'
    BY <1>1, <1>2 DEF License
<1>8. Rows'
    <2>1. \A i \in Intents : ledger[i].state \in {"Applied", "NotApplied"} => ledger'[i] = ledger[i]
        OBVIOUS
    <2>2. \A i \in Intents :
              /\ out[i].state = "Applied" => ledger'[i].state = "Applied"
              /\ out[i].state = "NotApplied" => ledger'[i].state = "NotApplied"
        BY <1>1, <2>1 DEF Rows
    <2>3. \A v \in Workers :
              /\ worker'[v].reply # None => worker'[v].pc \in {"Dispatching", "Asking"}
              /\ worker'[v].reply \in {"Applied", "NotApplied"} =>
                    ledger'[worker'[v].intent].state = worker'[v].reply
        <3> SUFFICES ASSUME NEW v \in Workers
                     PROVE  /\ worker'[v].reply # None => worker'[v].pc \in {"Dispatching", "Asking"}
                            /\ worker'[v].reply \in {"Applied", "NotApplied"} =>
                                  ledger'[worker'[v].intent].state = worker'[v].reply
            OBVIOUS
        <3>1. CASE worker'[v] = worker[v]
            <4>1. worker[v].reply # None => worker[v].pc \in {"Dispatching", "Asking"}
                BY <1>1 DEF Rows
            <4>2. worker[v].pc \in {"Dispatching", "Asking"} => worker[v].intent \in Intents
                BY <1>1 DEF Attempts
            <4>3. worker[v].reply \in {"Applied", "NotApplied"} =>
                      ledger[worker[v].intent].state = worker[v].reply
                BY <1>1 DEF Rows
            <4>4. QED
                BY <3>1, <4>1, <4>2, <4>3, <2>1 DEF None
        <3>2. CASE worker'[v] # worker[v]
            BY <3>2 DEF Answered
        <3>3. QED
            BY <3>1, <3>2
    <2>4. resolver'.reply \in {"Applied", "NotApplied"} =>
              ledger'[resolver'.intent].state = resolver'.reply
        <3>1. CASE resolver' = resolver
            <4>1. resolver.reply \in {"Applied", "NotApplied"} =>
                      resolver.intent \in Intents /\ ledger[resolver.intent].state = resolver.reply
                BY <1>1 DEF Rows, Attempts, None
            <4>2. QED
                BY <3>1, <4>1, <2>1
        <3>2. CASE resolver' # resolver
            BY <3>2 DEF Answered
        <3>3. QED
            BY <3>1, <3>2
    <2>5. QED
        BY <2>2, <2>3, <2>4 DEF Rows
<1>9. Finishing'
    BY <1>1, <1>2 DEF Finishing, Completable
<1>10. QED
    BY <1>3, <1>4, <1>6, <1>7, <1>8, <1>9 DEF Inv

LEMMA ProviderStep == ASSUME Inv, Provider PROVE Inv'
<1>1. TypeOK /\ Attempts /\ Rows
    BY DEF Inv
<1>2. UNCHANGED <<run, out, clock, holder, pinned, sent, released, author>>
    BY DEF Provider
<1>3. /\ ledger \in [Intents -> Row] /\ world \in [Intents -> Nat]
      /\ \A c \in calls \cup running : c.intent \in Intents /\ c.attempt \in Owners \cup {None}
      /\ \A c \in calls \cup running : ledger[c.intent].state # "Free" => ledger[c.intent].attempt = c.attempt
    BY <1>1 DEF TypeOK, Call, Attempts
<1>4. \A i \in Intents : ledger[i].state \in {"Free", "NotApplied"} =>
          world[i] = 0 /\ \A d \in running : d.intent # i
    BY <1>1 DEF Rows
<1>5. ASSUME NEW c \in calls, Admit(c), NoAnswer PROVE Inv'
    <2>1. /\ ledger[c.intent].state = "Free" /\ calls' = calls \ {c} /\ running' = running \cup {c}
          /\ ledger' = [ledger EXCEPT ![c.intent] = [state |-> "Dispatching", attempt |-> c.attempt]]
          /\ world' = world /\ UNCHANGED <<worker, resolver>>
        BY <1>5 DEF Admit, NoAnswer
    <2>2. /\ ledger' \in [Intents -> Row]
          /\ ledger'[c.intent].state = "Dispatching" /\ ledger'[c.intent].attempt = c.attempt
          /\ \A i \in Intents \ {c.intent} : ledger'[i] = ledger[i]
        BY <1>3, <2>1 DEF Row
    <2>3. Answered(c, "Unknown")
        BY <1>5, AnswerAnswers DEF Replies
    <2>4. \A i \in Intents : ledger'[i].state \in {"Free", "NotApplied"} =>
              world'[i] = 0 /\ \A d \in running' : d.intent # i
        BY <1>4, <2>1, <2>2
    <2>5. "Unknown" \in Replies /\ calls' \subseteq calls /\ running' \subseteq calls \cup running
          /\ world' \in [Intents -> Nat]
        BY <1>3, <2>1 DEF Replies
    <2>6. QED
        BY <1>2, <1>3, <2>1, <2>2, <2>3, <2>4, <2>5, ProviderCallStep
<1>6. ASSUME NEW c \in calls \cup running, NEW reply \in Replies, Answer(c, reply) \/ NoAnswer,
             reply \in {"Applied", "NotApplied"} => ledger[c.intent].state = reply \/ NoAnswer,
             calls' \subseteq calls, running' \subseteq running, UNCHANGED <<ledger, world>>
      PROVE  Inv'
    <2>1. Answered(c, reply)
        BY <1>6, AnswerAnswers
    <2>2. reply \in {"Applied", "NotApplied"} /\ <<worker, resolver>>' # <<worker, resolver>>
              => ledger'[c.intent].state = reply
        BY <1>6 DEF NoAnswer
    <2>3. \A i \in Intents : ledger'[i].state \in {"Free", "NotApplied"} =>
              world'[i] = 0 /\ \A d \in running' : d.intent # i
        BY <1>4, <1>6
    <2>4. QED
        BY <1>2, <1>3, <1>6, <2>1, <2>2, <2>3, ProviderCallStep
<1>7. ASSUME NEW c \in calls, c.op = "Dispatch", ledger[c.intent].state # "Free",
             Drop(c), Answer(c, DispatchAnswer(c))
      PROVE  Inv'
    <2>1. PICK reply : reply = DispatchAnswer(c)
        OBVIOUS
    <2>2. ledger[c.intent] \in Row
        BY <1>3
    <2>3. /\ reply \in Replies
          /\ reply \in {"Applied", "NotApplied"} => ledger[c.intent].state = reply
        BY <2>1, <2>2, <1>7, <1>3 DEF DispatchAnswer, Bound, Replies, Row
    <2>4. QED
        BY <1>6, <1>7, <2>1, <2>3 DEF Drop
<1>8. ASSUME NEW c \in calls, Reconcile(c), Answer(c, ReconcileAnswer(c)) PROVE Inv'
    <2>1. PICK reply : reply = ReconcileAnswer(c)
        OBVIOUS
    <2>2. ledger[c.intent] \in Row
        BY <1>3
    <2>3. CASE ledger[c.intent].state # "Free"
        <3>1. /\ reply \in Replies
              /\ reply \in {"Applied", "NotApplied"} => ledger[c.intent].state = reply
            BY <2>1, <2>2, <2>3, <1>3 DEF ReconcileAnswer, Bound, Replies, Row
        <3>2. UNCHANGED <<ledger, world, running>> /\ calls' \subseteq calls
            BY <2>3, <1>8 DEF Reconcile
        <3>3. QED
            BY <1>6, <1>8, <2>1, <3>1, <3>2
    <2>4. CASE ledger[c.intent].state = "Free"
        <3> DEFINE s == IF c.op = "ResolveApplied" THEN "Applied" ELSE "NotApplied"
        <3>1. reply = s
            BY <2>1, <2>4 DEF ReconcileAnswer
        <3>2. s \in {"Applied", "NotApplied"}
            OBVIOUS
        <3>3. /\ ledger' = [ledger EXCEPT ![c.intent] = [state |-> s, attempt |-> c.attempt]]
              /\ UNCHANGED <<running, world>> /\ calls' = calls \ {c}
            BY <2>4, <1>8 DEF Reconcile
        <3> HIDE DEF s
        <3>4. /\ ledger' \in [Intents -> Row]
              /\ ledger'[c.intent].state = s /\ ledger'[c.intent].attempt = c.attempt
              /\ \A i \in Intents \ {c.intent} : ledger'[i] = ledger[i]
            BY <1>3, <3>2, <3>3 DEF Row
        <3>5. reply \in Replies
            BY <3>1, <3>2 DEF Replies
        <3>6. Answered(c, reply)
            BY <1>8, <2>1, <3>5, AnswerAnswers
        <3>7. \A i \in Intents : ledger'[i].state \in {"Free", "NotApplied"} =>
                  world'[i] = 0 /\ \A d \in running' : d.intent # i
            BY <1>4, <2>4, <3>3, <3>4
        <3>8. \A i \in Intents : ledger'[i] = ledger[i] \/
                  /\ i = c.intent /\ ledger[i].state \in {"Free", "Dispatching"}
                  /\ ledger'[i].state # "Free" /\ ledger'[i].attempt = c.attempt
            BY <2>4, <3>2, <3>4
        <3>9. QED
            BY <1>2, <1>3, <3>1, <3>3, <3>4, <3>5, <3>6, <3>7, <3>8, ProviderCallStep
    <2>5. QED
        BY <2>3, <2>4
<1>9. ASSUME NEW c \in running, Apply(c), Answer(c, "Applied") PROVE Inv'
    <2>1. /\ ledger[c.intent].state = "Dispatching" /\ calls' = calls /\ running' = running \ {c}
          /\ ledger' = [ledger EXCEPT ![c.intent].state = "Applied"]
          /\ world' = [world EXCEPT ![c.intent] = @ + 1]
        BY <1>9 DEF Apply
    <2>2. /\ ledger' \in [Intents -> Row]
          /\ ledger'[c.intent].state = "Applied" /\ ledger'[c.intent].attempt = c.attempt
          /\ \A i \in Intents \ {c.intent} : ledger'[i] = ledger[i]
        BY <1>3, <2>1 DEF Row
    <2>3. world' \in [Intents -> Nat] /\ \A i \in Intents \ {c.intent} : world'[i] = world[i]
        BY <1>3, <2>1
    <2>4. "Applied" \in Replies /\ Answered(c, "Applied")
        BY <1>9, AnswerAnswers DEF Replies
    <2>5. \A i \in Intents : ledger'[i].state \in {"Free", "NotApplied"} =>
              world'[i] = 0 /\ \A d \in running' : d.intent # i
        BY <1>4, <2>1, <2>2, <2>3
    <2>6. QED
        BY <1>2, <1>3, <2>1, <2>2, <2>3, <2>4, <2>5, ProviderCallStep
<1>10. ASSUME NEW c \in calls, Drop(c), NoAnswer PROVE Inv'
    BY <1>6, <1>10 DEF Drop, Replies
<1>11. ASSUME NEW c \in running, Stop(c), NoAnswer PROVE Inv'
    BY <1>6, <1>11 DEF Stop, Replies
<1>12. QED
    BY <1>5, <1>7, <1>8, <1>9, <1>10, <1>11 DEF Provider

-----------------------------------------------------------------------------
(* The operator.                                                           *)

LEMMA QuietType ==
    ASSUME NEW i \in Intents \cup {None}, NEW a \in Workers \cup {None}, NEW op \in Decided \cup {None}
    PROVE  /\ Quiet \in ResolverRecord /\ Quiet.reply = None
           /\ [Quiet EXCEPT !.intent = i, !.attempt = a, !.op = op] \in ResolverRecord
           /\ [Quiet EXCEPT !.intent = i, !.attempt = a, !.op = op].reply = None
BY DEF Quiet, ResolverRecord, Replies

LEMMA AskResolutionStep ==
    ASSUME Inv, NEW i \in Intents, NEW op \in Decided, AskResolution(i, op) PROVE Inv'
<1> DEFINE call == [op |-> op, intent |-> i, attempt |-> out[i].owner, by |-> None, fence |-> 0]
<1>1. /\ out[i].state = "Unknown"
      /\ resolver' = [Quiet EXCEPT !.intent = i, !.attempt = out[i].owner, !.op = op]
      /\ calls' = calls \cup {call}
      /\ UNCHANGED <<run, out, clock, holder, worker, pinned, sent, released, author,
                     running, ledger, world>>
    BY DEF AskResolution
<1>2. TypeOK /\ Leases /\ Attempts /\ License /\ Rows /\ Finishing
    BY DEF Inv
<1>3. out[i].owner \in Workers \cup {None}
    BY <1>2 DEF TypeOK, OutboxRow
<1>4. call \in Call /\ call.intent = i /\ call.attempt = out[i].owner
    BY <1>3, PlanAssumption DEF Call, Workers
<1> HIDE DEF call
<1>5. resolver' \in ResolverRecord /\ resolver'.reply = None
    <2>1. PICK a \in Workers \cup {None} : a = out[i].owner
        BY <1>3
    <2>2. resolver' = [Quiet EXCEPT !.intent = i, !.attempt = a, !.op = op]
        BY <1>1, <2>1
    <2>3. /\ [Quiet EXCEPT !.intent = i, !.attempt = a, !.op = op] \in ResolverRecord
          /\ [Quiet EXCEPT !.intent = i, !.attempt = a, !.op = op].reply = None
        BY QuietType
    <2>4. QED
        BY <2>2, <2>3, Zenon
<1>6. TypeOK'
    BY <1>1, <1>2, <1>4, <1>5 DEF TypeOK
<1>7. Leases' /\ License' /\ Finishing'
    BY <1>1, <1>2 DEF Leases, License, Finishing, Completable
<1>8. Attempts'
    BY <1>1, <1>2, <1>4, <1>5 DEF Attempts, Begun
<1>9. Rows'
    BY <1>1, <1>2, <1>5 DEF Rows, None
<1>10. QED
    BY <1>6, <1>7, <1>8, <1>9 DEF Inv

(* An Effect that is Unknown keeps every drive from completing the Run, so *)
(* its resolution takes nothing away from one.                             *)
LEMMA CommitResolutionStep == ASSUME Inv, CommitResolution PROVE Inv'
<1> DEFINE i == resolver.intent
<1>1. /\ resolver.reply \in {"Applied", "NotApplied"} /\ out[i].state = "Unknown"
      /\ out' = [out EXCEPT ![i].state = resolver.reply]
      /\ resolver' = Quiet /\ author' = 0 /\ pinned' = {}
      /\ UNCHANGED <<run, clock, holder, worker, sent, released, calls, running, ledger, world>>
    BY DEF CommitResolution, providerVars
<1>2. TypeOK /\ Leases /\ Attempts /\ License /\ Rows /\ Finishing /\ RunKept
    BY <1>1, SameRunKept DEF Inv
<1>3. i \in Intents /\ ledger[i].state = resolver.reply
    BY <1>1, <1>2 DEF Attempts, Rows, None
<1>4. OutKept
    <2>1. out[i].state \in Begun
        BY <1>1 DEF Begun
    <2>2. PICK s : s = resolver.reply
        OBVIOUS
    <2>3. QED
        BY <1>1, <1>3, <2>1, <2>2, StateOut
<1>5. resolver' \in ResolverRecord /\ resolver'.reply = None
    BY <1>1, QuietType
<1>6. TypeOK'
    BY <1>1, <1>2, <1>4, <1>5 DEF TypeOK, OutKept, RunRecord
<1>7. Leases'
    <2>1. ClaimsKept
        BY <1>1 DEF ClaimsKept
    <2>2. QED
        BY <2>1, <1>1, <1>2, LeasesKept
<1>8. Attempts'
    <2>1. CallsKept
        BY <1>1 DEF CallsKept
    <2>2. QED
        BY <2>1, <1>1, <1>2, <1>4, <1>5, AttemptsKept
<1>9. License'
    <2>1. TargetsKept
        BY <1>1 DEF TargetsKept
    <2>2. QED
        BY <2>1, <1>1, <1>2, <1>4, LicenseKept
<1>10. Rows'
    <2>1. RepliesKept
        BY <1>1, <1>2 DEF RepliesKept, Rows
    <2>2. QED
        BY <2>1, <1>1, <1>2, <1>4, <1>5, RowsKept
<1>11. Finishing'
    <2>1. ~Completable
        BY <1>1, <1>3 DEF Completable, Settled, None
    <2>2. QED
        BY <1>1, <1>2, <2>1 DEF Finishing
<1>12. QED
    BY <1>6, <1>7, <1>8, <1>9, <1>10, <1>11 DEF Inv

LEMMA DropResolutionStep == ASSUME Inv, DropResolution PROVE Inv'
<1>1. /\ resolver' = Quiet
      /\ UNCHANGED <<run, out, clock, holder, worker, pinned, sent, released, author,
                     calls, running, ledger, world>>
    BY DEF DropResolution, providerVars
<1>2. resolver' \in ResolverRecord /\ resolver'.reply = None
    BY <1>1, QuietType
<1>3. TypeOK' /\ Leases' /\ License' /\ Finishing'
    BY <1>1, <1>2 DEF Inv, TypeOK, Leases, License, Finishing, Completable
<1>4. Attempts' /\ Rows'
    BY <1>1, <1>2 DEF Inv, Attempts, Rows, None
<1>5. QED
    BY <1>3, <1>4 DEF Inv

-----------------------------------------------------------------------------
(* The invariant.                                                          *)

LEMMA InitInv == ASSUME Init PROVE Inv
<1>1. PICK plan \in Plans :
          run = [status |-> "Absent", fence |-> 0, claim |-> NoClaim, fenced |-> None,
                 step |-> 1, scope |-> "Open", plan |-> plan]
    BY DEF Init
<1>2. /\ out = [i \in Intents |-> [state |-> None, owner |-> None, avail |-> TRUE]]
      /\ clock = 0 /\ holder = None
      /\ worker = [w \in Workers |-> Idle]
      /\ pinned = {} /\ resolver = Quiet
      /\ sent = [i \in Intents |-> 0] /\ released = {} /\ author = 0
      /\ calls = {} /\ running = {}
      /\ ledger = [i \in Intents |-> NoRow] /\ world = [i \in Intents |-> 0]
    BY DEF Init, ProviderInit
<1>3. plan.steps \in Seq(Intents) /\ MaxFence[plan] \in Nat /\ MaxTime \in Nat
    BY PlanAssumption, LeaseAssumption
<1>4. Len(plan.steps) \in Nat
    BY <1>3
<1>5. /\ Idle \in WorkerRecord /\ Idle.pc = "Idle" /\ Idle.target = None /\ ~Idle.root
      /\ Idle.reply = None
    BY DEF Idle, WorkerRecord, Replies
<1>6. NoRow \in Row /\ NoRow.state = "Free"
    BY DEF NoRow, Row
<1>7. resolver \in ResolverRecord /\ resolver.reply = None
    BY <1>2, QuietType
<1>8. TypeOK
    <2>1. run \in RunRecord
        BY <1>1 DEF RunRecord
    <2>2. run.step \in 1..(Len(run.plan.steps) + 1) /\ run.fence <= MaxFence[run.plan]
          /\ author \in 0..run.fence
        BY <1>1, <1>2, <1>3, <1>4
    <2>3. out \in [Intents -> OutboxRow]
        BY <1>2 DEF OutboxRow
    <2>4. worker \in [Workers -> WorkerRecord] /\ ledger \in [Intents -> Row]
        BY <1>2, <1>5, <1>6
    <2>5. world \in [Intents -> Nat] /\ sent \in [Intents -> Nat]
        BY <1>2
    <2>6. clock \in 0..MaxTime /\ holder \in Workers \cup {None}
        BY <1>2, <1>3
    <2>7. pinned \subseteq Workers /\ calls \subseteq Call /\ running \subseteq Call /\ released \subseteq Intents
        BY <1>2
    <2>8. QED
        BY <1>7, <2>1, <2>2, <2>3, <2>4, <2>5, <2>6, <2>7 DEF TypeOK
<1>9. Leases
    BY <1>1, <1>2, <1>5 DEF Leases, None
<1>10. Attempts /\ License
    BY <1>2, <1>5, <1>6, <1>7 DEF Attempts, License, Begun, None
<1>11. Rows /\ Finishing
    BY <1>2, <1>5, <1>6, <1>7 DEF Rows, Finishing, None
<1>12. QED
    BY <1>8, <1>9, <1>10, <1>11 DEF Inv

LEMMA NextInv == ASSUME Inv, [Next]_vars PROVE Inv'
<1>1. ASSUME NEW w \in Workers, Drive(w) PROVE Inv'
    <2>1. CASE Enqueue(w) \/ AdvanceSettled(w) \/ CommitRootScope(w)
        BY <2>1, EnqueueStep, AdvanceSettledStep, CommitRootScopeStep
    <2>2. CASE NotAppliedYield(w) \/ RetryEager(w)
        BY <2>2, TurnStep
    <2>3. CASE BeginCommitRootScope(w) \/ FinishCommitRootScope(w)
        BY <2>3, BeginCommitRootScopeStep, FinishCommitRootScopeStep
    <2>4. CASE FinishRoot(w) \/ OutboxDone(w)
        BY <2>4, FinishRootStep, OutboxDoneStep
    <2>5. CASE YieldReady(w) \/ CompleteRun(w)
        BY <2>5, GiveBackStep
    <2>6. ASSUME NEW i \in Intents, FoundUnavailable(w, i) \/ GovernanceNeeded(w, i) PROVE Inv'
        BY <2>6, TurnStep
    <2>7. ASSUME NEW i \in Intents, \/ MarkUnavailable(w, i) \/ ObserveUnknown(w, i)
                                    \/ ClaimEffect(w, i) \/ AskProvider(w, i)
          PROVE  Inv'
        BY <2>7, MarkUnavailableStep, ObserveUnknownStep, ClaimEffectStep, AskProviderStep
    <2>8. CASE Dispatch(w)
        BY <2>8, DispatchStep
    <2>9. CASE SettleDispatch(w) \/ SettleReconcile(w)
        BY <2>9, SettleStep
    <2>10. CASE UnansweredReconcile(w)
        BY <2>10, UnansweredStep
    <2>11. CASE ReadbackMismatch(w) \/ Refused(w)
        BY <2>11, EndStep
    <2>12. QED
        BY <1>1, <2>1, <2>2, <2>3, <2>4, <2>5, <2>6, <2>7, <2>8, <2>9, <2>10, <2>11 DEF Drive
<1>2. ASSUME NEW w \in Workers, \/ Observe(w) \/ StartRun(w) \/ Resume(w) \/ Takeover(w)
                                \/ \E i \in Intents : ReleaseEffect(w, i)
                                \/ Timeout(w) \/ Crash(w)
      PROVE  Inv'
    <2>1. CASE Observe(w)
        BY <2>1, ObserveStep
    <2>2. CASE \/ StartRun(w) \/ Resume(w) \/ Takeover(w)
               \/ \E i \in Intents : ReleaseEffect(w, i)
        BY <2>2, ClaimStep
    <2>3. CASE Timeout(w)
        BY <2>3, UnansweredStep
    <2>4. CASE Crash(w)
        BY <2>4, EndStep
    <2>5. QED
        BY <1>2, <2>1, <2>2, <2>3, <2>4
<1>3. CASE Provider
    BY <1>3, ProviderStep
<1>4. ASSUME NEW i \in Intents, NEW op \in Decided, AskResolution(i, op) PROVE Inv'
    BY <1>4, AskResolutionStep
<1>5. CASE CommitResolution \/ DropResolution
    BY <1>5, CommitResolutionStep, DropResolutionStep
<1>6. CASE BeginCancel \/ FinishCancel
    BY <1>6, BeginCancelStep, FinishCancelStep
<1>7. CASE UNCHANGED vars
    <2>1. UNCHANGED <<run, out, clock, holder, worker, pinned, resolver, sent, released, author,
                      calls, running, ledger, world>>
        BY <1>7 DEF vars, ownVars, providerVars
    <2>2. QED
        BY <2>1 DEF Inv, TypeOK, Leases, Attempts, License, Rows, Finishing, Completable
<1>8. QED
    BY <1>1, <1>2, <1>3, <1>4, <1>5, <1>6, <1>7 DEF Next

LEMMA InvHolds == Spec => []Inv
<1>1. Init => Inv
    BY InitInv
<1>2. Inv /\ [Next]_vars => Inv'
    BY NextInv
<1>3. QED
    BY <1>1, <1>2, PTL DEF Spec

(* The state of the Run, its outbox, the executors, the operator and the   *)
(* provider keep their types, whatever interrupts a drive.                 *)
THEOREM TypesCorrect == Spec => []TypeOK
<1>1. Inv => TypeOK
    BY DEF Inv
<1>2. QED
    BY <1>1, InvHolds, PTL

(* The fence and the lease of a claim do what takeover_running relies on:  *)
(* an executor whose lease has not run out owns the Run until it gives it  *)
(* up or the Run is cancelled, and nothing is published under an older     *)
(* claim (require_execution_claim_pinned before every publication).        *)
THEOREM OwnershipIsExclusive == Spec => []OwnershipExclusive
<1>1. Inv => OwnershipExclusive
    <2> SUFFICES ASSUME Inv PROVE OwnershipExclusive
        OBVIOUS
    <2>1. author \in {0, run.fence}
        BY DEF Inv, Leases
    <2>2. ASSUME NEW w \in Workers, worker[w].pc # "Idle", clock < worker[w].claim.expires,
                 run.status # "Cancelled"
          PROVE  run.claim = worker[w].claim
        <3>1. /\ worker[w].claim # NoClaim
              /\ worker[w].claim.fence <= run.fence
              /\ worker[w].claim.fence = run.fence => run.claim = worker[w].claim
              /\ worker[w].claim.fence < run.fence => worker[w].claim.expires <= clock
            BY <2>2 DEF Inv, Leases
        <3>2. worker[w].claim \in Claim
            BY <3>1 DEF Inv, TypeOK, WorkerRecord
        <3>3. worker[w].claim.fence \in Nat /\ worker[w].claim.expires \in Int
            BY <3>2, LeaseAssumption DEF Claim
        <3>4. clock \in Int /\ run.fence \in Nat
            BY LeaseAssumption DEF Inv, TypeOK, RunRecord
        <3>5. QED
            BY <2>2, <3>1, <3>3, <3>4
    <2>3. QED
        BY <2>1, <2>2 DEF OwnershipExclusive
<1>2. QED
    BY <1>1, InvHolds, PTL

(* An intent is dispatched at most once, after the Scope it belongs to     *)
(* committed unless it is eager, and if explicit after its release         *)
(* (dispatch_selected_effect, release_effect), for any number of crashes,  *)
(* takeovers and retries.                                                  *)
THEOREM DispatchesLicensed == Spec => []DispatchLicensed
<1>1. Inv => DispatchLicensed
    BY DEF Inv, Attempts, License, DispatchLicensed
<1>2. QED
    BY <1>1, InvHolds, PTL

(* A verdict of the outbox is true of the world for good: what is recorded *)
(* NotApplied or cancelled before its release was not done and cannot be   *)
(* done any more, what is recorded Applied the provider has recorded, and  *)
(* every row of the provider is bound to the attempt the outbox retains.   *)
THEOREM VerdictsTrue == Spec => []VerdictTrue
<1>1. Inv => VerdictTrue
    <2> SUFFICES ASSUME Inv, NEW i \in Intents
                 PROVE  /\ out[i].state \in {"NotApplied", "CancelledBeforeRelease"}
                              => world[i] = 0 /\ \A c \in running: c.intent # i
                        /\ out[i].state = "Applied" => ledger[i].state = "Applied"
                        /\ ledger[i].state # "Free" => ledger[i].attempt = out[i].owner
        BY DEF VerdictTrue
    <2>1. out[i].state = "CancelledBeforeRelease" => ledger[i].state = "Free"
        BY DEF Inv, Attempts, Begun
    <2>2. QED
        BY <2>1 DEF Inv, Attempts, Rows
<1>2. QED
    BY <1>1, InvHolds, PTL

(* When a drive asks to complete the Run under its current claim, no       *)
(* Effect is left pending, claimed or unknown: what finish_root_frame saw  *)
(* before its last publication still holds at it.                          *)
THEOREM CompletionsAccepted == Spec => []CompletionAccepted
<1>1. Inv => CompletionAccepted
    BY DEF Inv, Finishing, CompletionAccepted, CurrentClaim
<1>2. QED
    BY <1>1, InvHolds, PTL
===============================================================================
