--------------------------- MODULE DirectoryStore ----------------------------
(***************************************************************************)
(* The directory Store adapter (plugins/directory-store): several          *)
(* processes share one directory.  objects.lock serialises everything that *)
(* adds or deletes an object file, head.lock everything that touches the   *)
(* head or its staging file; both are try-locks, so a busy lock is a       *)
(* Conflict and never a wait.  Readers take no lock: they read the head,   *)
(* then files, then the head again.                                        *)
(*                                                                         *)
(* A step is one file-system operation another process can observe, or a   *)
(* run of operations under a lock that excludes every other process from   *)
(* what it touches.  A process may die between any two steps (Crash: the   *)
(* locks go, the files stay) and any operation may fail (Fail).  A         *)
(* definition named Faulty... is one that follows it with a plausible      *)
(* coding error; nothing here uses it.                                     *)
(***************************************************************************)
EXTENDS HeadStore

CONSTANTS
    Procs,          \* handles on the directory, each used by one process
    Calls,          \* the operations those processes call
    PageSize,       \* DIRECTORY_GC_PAGE_OBJECTS
    StableReads     \* attempts of read_stable_head

Operations == {"Load", "Read", "Commit", "Advance", "Reconcile"}

ASSUME DirectoryAssumption ==
    /\ Calls \subseteq Operations
    /\ None \notin Procs
    /\ PageSize \in Nat \ {0} /\ StableReads \in Nat \ {0}
    /\ IsFiniteSet(Ids)

VARIABLES
    pc, op,         \* where each process is, in which trait operation
    exp,            \* the head its caller expects, or that it read first
    next,           \* the head it is going to publish
    todo,           \* files it still has to read, write or delete
    missing,        \* a file it needed was absent
    tries,          \* attempts of read_stable_head so far
    published,      \* it has renamed its head into place
    result,         \* how its last operation returned
    objLock, headLock,          \* owners of objects.lock and head.lock
    stagedObjects,  \* files in the object staging directory: <<owner, id>>
    stagedHead      \* head.next, or NoHead

locals == <<op, exp, next, todo, missing, tries>>
outcome == <<published, result>>
locks == <<objLock, headLock>>
staging == <<stagedObjects, stagedHead>>
vars == <<storeVars, pc, locals, outcome, locks, staging>>

Results == {"Ok", "Conflict", "Integrity", "Unknown", "Failed"}
Labels == {"idle", "load_objects", "load_clean", "load_claim", "load_tidy", "load_read",
           "load_verify", "observe", "receipt", "fetch", "claim_objects", "tidy", "write",
           "link", "inspect", "claim_sweep", "authorize", "sweep_page", "scan",
           "claim_head", "stage", "rename", "sync", "sweep", "release"}

DirectoryTypeOK ==
    /\ StoreTypeOK
    /\ pc \in [Procs -> Labels]
    /\ op \in [Procs -> Operations \cup {None}]
    /\ exp \in [Procs -> StoreHead]
    /\ next \in [Procs -> StoreHead]
    /\ todo \in [Procs -> SUBSET Ids]
    /\ missing \in [Procs -> BOOLEAN]
    /\ tries \in [Procs -> 0..StableReads]
    /\ result \in [Procs -> Results \cup {None}]
    /\ published \in [Procs -> BOOLEAN]
    /\ objLock \in Procs \cup {None} /\ headLock \in Procs \cup {None}
    /\ stagedObjects \subseteq Procs \X Ids
    /\ stagedHead \in StoreHead

Init ==
    /\ StoreInit
    /\ pc = [p \in Procs |-> "idle"] /\ op = [p \in Procs |-> None]
    /\ exp = [p \in Procs |-> NoHead] /\ next = [p \in Procs |-> NoHead]
    /\ todo = [p \in Procs |-> {}] /\ missing = [p \in Procs |-> FALSE]
    /\ tries = [p \in Procs |-> 0]
    /\ result = [p \in Procs |-> None] /\ published = [p \in Procs |-> FALSE]
    /\ objLock = None /\ headLock = None
    /\ stagedObjects = {} /\ stagedHead = NoHead

-------------------------------------------------------------------------------
(* How a step moves its process.                                           *)

At(p, label) == pc[p] = label
Goto(p, label) == pc' = [pc EXCEPT ![p] = label]
Released(lock, p) == IF lock = p THEN None ELSE lock

(* The operation returns: whatever it holds is released, on every path     *)
(* (finish_locked_operation, finish_publishing_operation).                 *)
Return(p, outcomeOf) ==
    /\ Goto(p, "idle")
    /\ result' = [result EXCEPT ![p] = outcomeOf]
    /\ objLock' = Released(objLock, p) /\ headLock' = Released(headLock, p)
    /\ exp' = [exp EXCEPT ![p] = NoHead] /\ next' = [next EXCEPT ![p] = NoHead]
    /\ todo' = [todo EXCEPT ![p] = {}] /\ missing' = [missing EXCEPT ![p] = FALSE]
    /\ tries' = [tries EXCEPT ![p] = 0]
    /\ op' = [op EXCEPT ![p] = None]
    /\ published' = [published EXCEPT ![p] = FALSE]

Begin(p, kind, label, nextHead) ==
    /\ At(p, "idle") /\ kind \in Calls
    /\ Goto(p, label)
    /\ op' = [op EXCEPT ![p] = kind]
    /\ exp' = [exp EXCEPT ![p] = head]
    /\ next' = [next EXCEPT ![p] = nextHead]
    /\ result' = [result EXCEPT ![p] = None]
    /\ UNCHANGED <<storeVars, todo, missing, tries, published, locks, staging>>

-------------------------------------------------------------------------------
(* The calls of the DurableStore trait.  The head a caller expects is the  *)
(* one it loaded last; it may be stale by the time it is compared.         *)

StartLoad(p) == Begin(p, "Load", "load_objects", NoHead)
StartRead(p) == head # NoHead /\ Begin(p, "Read", "observe", NoHead)
StartCommit(p, m) ==
    /\ m # head.manifest
    /\ head.sequence < MaxSequence
    /\ Begin(p, "Commit", "observe", CommitHead(head, m))

(* Bound: every advance under way finds an unused receipt identity.        *)
StartAdvance(p) ==
    /\ head # NoHead /\ head.gc < MaxGc
    /\ Cardinality({r \in Receipts : content[r] = NoContent}) >
          Cardinality({q \in Procs : op[q] = "Advance"})
    /\ Begin(p, "Advance", "observe", NoHead)
StartReconcile(p) == head # NoHead /\ Begin(p, "Reconcile", "observe", NoHead)

-------------------------------------------------------------------------------
(* load_head of a writable handle: tidy what a dead writer left, then read *)
(* the head twice until both reads agree.                                  *)

FaultyLoadClaimObjects(p) ==   \* cleans although a writer holds the lock
    /\ At(p, "load_objects")
    /\ Goto(p, "load_clean")
    /\ UNCHANGED <<storeVars, locals, outcome, locks, staging>>

LoadClaimObjects(p) ==
    /\ At(p, "load_objects")
    /\ IF objLock = None
          THEN objLock' = p /\ Goto(p, "load_clean")
          ELSE UNCHANGED objLock /\ Goto(p, "load_claim")
    /\ UNCHANGED <<storeVars, locals, outcome, headLock, staging>>

LoadClean(p) ==
    /\ At(p, "load_clean")
    /\ stagedObjects' = {}
    /\ objLock' = Released(objLock, p)
    /\ Goto(p, "load_claim")
    /\ UNCHANGED <<storeVars, locals, outcome, headLock, stagedHead>>

LoadClaimHead(p) ==
    /\ At(p, "load_claim")
    /\ headLock = None
    /\ headLock' = p
    /\ Goto(p, "load_tidy")
    /\ UNCHANGED <<storeVars, locals, outcome, objLock, staging>>

LoadTidy(p) ==
    /\ At(p, "load_tidy")
    /\ stagedHead' = NoHead
    /\ headLock' = Released(headLock, p)
    /\ Goto(p, "load_read")
    /\ UNCHANGED <<storeVars, locals, outcome, objLock, stagedObjects>>

LoadRead(p) ==
    /\ At(p, "load_read")
    /\ exp' = [exp EXCEPT ![p] = head]
    /\ tries' = [tries EXCEPT ![p] = @ + 1]
    /\ Goto(p, "load_verify")
    /\ UNCHANGED <<storeVars, op, next, todo, missing, outcome, locks, staging>>

FaultyLoadVerify(p) ==   \* retries without a limit
    /\ At(p, "load_verify")
    /\ \/ head = exp[p] /\ Return(p, "Ok")
       \/ /\ head # exp[p]
          /\ Goto(p, "load_read")
          /\ UNCHANGED <<locals, outcome, locks>>
    /\ UNCHANGED <<storeVars, staging>>

LoadVerify(p) ==
    /\ At(p, "load_verify")
    /\ \/ head = exp[p] /\ Return(p, "Ok")
       \/ head # exp[p] /\ tries[p] = StableReads /\ Return(p, "Conflict")
       \/ /\ head # exp[p] /\ tries[p] < StableReads
          /\ Goto(p, "load_read")
          /\ UNCHANGED <<locals, outcome, locks>>
    /\ UNCHANGED <<storeVars, staging>>

-------------------------------------------------------------------------------
(* Refusals shared by the operations.                                      *)

(* acquire_named_lock: WouldBlock is a Conflict.                           *)
LockBusy(p) ==
    /\ \/ At(p, "claim_objects") /\ objLock # None
       \/ pc[p] \in {"load_claim", "claim_sweep", "claim_head"} /\ headLock # None
    /\ Return(p, "Conflict")
    /\ UNCHANGED <<storeVars, staging>>

(* Every comparison of the head with the expected one; under head.lock the *)
(* staging residue has been removed just before.                           *)
HeadMoved(p) ==
    /\ \/ pc[p] \in {"inspect", "authorize", "stage"}
       \/ At(p, "observe") /\ op[p] # "Read"
    /\ head # exp[p]
    /\ Return(p, "Conflict")
    /\ stagedHead' = IF pc[p] \in {"authorize", "stage"} THEN NoHead ELSE stagedHead
    /\ UNCHANGED <<storeVars, stagedObjects>>

-------------------------------------------------------------------------------
(* Before any lock: the head, then the files it pins, then the head again. *)

(* A reader fixes on the head it finds, provided it has the manifest the   *)
(* caller holds (with_current_head_manifest).                              *)
ObserveRead(p) ==
    /\ At(p, "observe") /\ op[p] = "Read"
    /\ IF head.manifest # exp[p].manifest
          THEN Return(p, "Conflict")
          ELSE /\ exp' = [exp EXCEPT ![p] = head]
               /\ todo' = [todo EXCEPT ![p] = Needed(head)]
               /\ Goto(p, "fetch")
               /\ UNCHANGED <<op, next, missing, tries, outcome, locks>>
    /\ UNCHANGED <<storeVars, staging>>

(* A commit reads only the parent manifest; a reclamation first the pinned *)
(* receipt, if there is one, and then the whole closure.                   *)
Observe(p) ==
    /\ At(p, "observe") /\ op[p] # "Read"
    /\ head = exp[p]
    /\ \/ /\ op[p] = "Commit"
          /\ todo' = [todo EXCEPT ![p] = {exp[p].manifest} \ {None}]
          /\ Goto(p, "fetch")
       \/ /\ op[p] = "Advance" /\ exp[p].receipt = None
          /\ todo' = [todo EXCEPT ![p] = Needed(exp[p])]
          /\ Goto(p, "fetch")
       \/ /\ op[p] = "Reconcile" \/ exp[p].receipt # None
          /\ op[p] # "Commit"
          /\ Goto(p, "receipt")
          /\ UNCHANGED todo
    /\ UNCHANGED <<storeVars, op, exp, next, missing, tries, outcome, locks, staging>>

ReadReceipt(p) ==
    /\ At(p, "receipt")
    /\ \/ exp[p].receipt = None /\ Return(p, "Failed")
       \/ exp[p].receipt \notin files \cup {None} /\ Return(p, "Integrity")
       \/ /\ exp[p].receipt \in files
          /\ todo' = [todo EXCEPT ![p] = Needed(exp[p])]
          /\ Goto(p, "fetch")
          /\ UNCHANGED <<op, exp, next, missing, tries, outcome, locks>>
    /\ UNCHANGED <<storeVars, staging>>

Fetch(p) ==
    /\ At(p, "fetch")
    /\ \E x \in todo[p] :
          /\ todo' = [todo EXCEPT ![p] = IF x \in files THEN @ \ {x} ELSE {}]
          /\ missing' = [missing EXCEPT ![p] = x \notin files]
    /\ UNCHANGED <<storeVars, pc, op, exp, next, tries, outcome, locks, staging>>

FaultyRecheck(p) ==   \* the reads are judged before the head
    /\ At(p, "fetch") /\ todo[p] = {}
    /\ IF head # exp[p] \/ missing[p] \/ op[p] = "Read"
          THEN Return(p, IF missing[p] THEN "Integrity"
                         ELSE IF head # exp[p] THEN "Conflict" ELSE "Ok")
          ELSE /\ todo' = [todo EXCEPT ![p] = IF op[p] = "Commit"
                                              THEN Needed(next[p]) \ Needed(exp[p]) ELSE {}]
               /\ Goto(p, "claim_objects")
               /\ UNCHANGED <<op, exp, next, missing, tries, outcome, locks>>
    /\ UNCHANGED <<storeVars, staging>>

(* A head that moved explains whatever was missing, so it is compared      *)
(* before the reads are judged.  A commit goes on to write the objects its *)
(* manifest adds to those of the parent.                                   *)
Recheck(p) ==
    /\ At(p, "fetch") /\ todo[p] = {}
    /\ IF head # exp[p] \/ missing[p] \/ op[p] = "Read"
          THEN Return(p, IF head # exp[p] THEN "Conflict"
                         ELSE IF missing[p] THEN "Integrity" ELSE "Ok")
          ELSE /\ todo' = [todo EXCEPT ![p] = IF op[p] = "Commit"
                                              THEN Needed(next[p]) \ Needed(exp[p]) ELSE {}]
               /\ Goto(p, "claim_objects")
               /\ UNCHANGED <<op, exp, next, missing, tries, outcome, locks>>
    /\ UNCHANGED <<storeVars, staging>>
-------------------------------------------------------------------------------
(* Under objects.lock.                                                     *)

ClaimObjects(p) ==
    /\ At(p, "claim_objects")
    /\ objLock = None
    /\ objLock' = p
    /\ Goto(p, IF op[p] = "Reconcile" THEN "inspect" ELSE "tidy")
    /\ UNCHANGED <<storeVars, locals, outcome, headLock, staging>>

Tidy(p) ==
    /\ At(p, "tidy")
    /\ stagedObjects' = {}
    /\ Goto(p, IF op[p] = "Commit" THEN "write" ELSE "inspect")
    /\ UNCHANGED <<storeVars, locals, outcome, locks, stagedHead>>

(* write_immutable_bytes: an object that exists already is kept; any other *)
(* is staged under a unique name and then hard-linked.                     *)
Write(p) ==
    /\ At(p, "write")
    /\ \E x \in todo[p] :
          IF x \in files
          THEN /\ todo' = [todo EXCEPT ![p] = @ \ {x}]
               /\ UNCHANGED <<pc, stagedObjects>>
          ELSE /\ stagedObjects' = stagedObjects \cup {<<p, x>>}
               /\ Goto(p, "link")
               /\ UNCHANGED todo
    /\ UNCHANGED <<storeVars, op, exp, next, missing, tries, outcome, locks, stagedHead>>

Link(p) ==
    /\ At(p, "link")
    /\ \E x \in todo[p] :
          /\ <<p, x>> \in stagedObjects
          /\ files' = files \cup {x}
          /\ stagedObjects' = stagedObjects \ {<<p, x>>}
          /\ todo' = [todo EXCEPT ![p] = @ \ {x}]
    /\ Goto(p, "write")
    /\ UNCHANGED <<head, content, op, exp, next, missing, tries, outcome, locks, stagedHead>>

FaultyLocated(r) == content[r].ids \cap files \cap Objects   \* misses the receipt family

(* prepare_reclamation: a page may name nothing its head needs; what is    *)
(* already gone is skipped.                                                *)
PageLegal(h, r) == content[r].ids \cap (Needed(h) \cup {r}) = {}
Located(r) == content[r].ids \cap files

(* After the last write an advance locates the page of its new receipt.    *)
WriteDone(p) ==
    /\ At(p, "write") /\ todo[p] = {}
    /\ IF op[p] = "Advance" /\ ~PageLegal(exp[p], next[p].receipt)
          THEN Return(p, "Integrity")
          ELSE /\ todo' = [todo EXCEPT ![p] = IF op[p] = "Advance"
                                              THEN Located(next[p].receipt) ELSE {}]
               /\ Goto(p, "claim_head")
               /\ UNCHANGED <<op, exp, next, missing, tries, outcome, locks>>
    /\ UNCHANGED <<storeVars, staging>>

(* The page of the receipt the head pins comes first: an earlier sweep of  *)
(* it may have died halfway (reconcile_previous_reclamation,               *)
(* replay_gc_receipt).                                                     *)
Inspect(p) ==
    /\ At(p, "inspect")
    /\ head = exp[p]
    /\ \/ /\ exp[p].receipt = None
          /\ Goto(p, "scan")
          /\ UNCHANGED <<locals, outcome, locks>>
       \/ /\ exp[p].receipt # None
          /\ IF exp[p].receipt \notin files \/ ~PageLegal(exp[p], exp[p].receipt)
                THEN Return(p, "Integrity")
                ELSE /\ todo' = [todo EXCEPT ![p] = Located(exp[p].receipt)]
                     /\ Goto(p, "claim_sweep")
                     /\ UNCHANGED <<op, exp, next, missing, tries, outcome, locks>>
    /\ UNCHANGED <<storeVars, staging>>

ClaimSweep(p) ==
    /\ At(p, "claim_sweep")
    /\ headLock = None
    /\ headLock' = p
    /\ Goto(p, "authorize")
    /\ UNCHANGED <<storeVars, locals, outcome, objLock, staging>>

Authorize(p) ==
    /\ At(p, "authorize")
    /\ head = exp[p]
    /\ stagedHead' = NoHead
    /\ IF exp[p].receipt \notin files
          THEN Return(p, "Integrity")
          ELSE Goto(p, "sweep_page") /\ UNCHANGED <<locals, outcome, locks>>
    /\ UNCHANGED <<storeVars, stagedObjects>>

(* sweep_reclamation: one unlink at a time, in both sweeps.                *)
SweepFile(p) ==
    /\ pc[p] \in {"sweep_page", "sweep"}
    /\ \E x \in todo[p] :
          /\ files' = files \ {x}
          /\ todo' = [todo EXCEPT ![p] = @ \ {x}]
    /\ UNCHANGED <<head, content, pc, op, exp, next, missing, tries, outcome, locks, staging>>

SweepPageDone(p) ==
    /\ At(p, "sweep_page") /\ todo[p] = {}
    /\ \/ op[p] = "Reconcile" /\ Goto(p, "release") /\ UNCHANGED headLock
       \/ op[p] = "Advance" /\ Goto(p, "scan") /\ headLock' = Released(headLock, p)
    /\ UNCHANGED <<storeVars, locals, outcome, objLock, staging>>

(* ReclamationPage: the pinned receipt first, then the other receipts,     *)
(* then ordinary objects, each tier in digest order, which can be any      *)
(* order; the page is full unless it holds every candidate.                *)
Pages(candidates, required) ==
    {page \in SUBSET candidates :
        /\ required \subseteq page
        /\ \/ page = candidates
           \/ Cardinality(page) = PageSize
        /\ Cardinality(page) <= PageSize
        /\ page \subseteq Receipts \/ candidates \cap Receipts \subseteq page}

(* A receipt identity is the digest of its content: the same page of the   *)
(* same head has the same identity when an advance is tried again.         *)
DigestOf(r, c) ==
    /\ content[r] \in {c, NoContent}
    /\ \A q \in Receipts : content[q] = c => q = r

Scan(p) ==
    LET candidates == files \ Needed(exp[p])
    IN  /\ At(p, "scan")
        /\ IF ~(Pinned(exp[p]) \subseteq candidates)
           THEN Return(p, "Integrity") /\ UNCHANGED content
           ELSE \E page \in Pages(candidates, Pinned(exp[p])), r \in Receipts :
                  LET c == [parent |-> exp[p], ids |-> page,
                            remaining |-> Cardinality(candidates) - Cardinality(page)]
                  IN  /\ DigestOf(r, c)
                      /\ content' = [content EXCEPT ![r] = c]
                      /\ next' = [next EXCEPT ![p] = ReclaimHead(exp[p], r)]
                      /\ todo' = [todo EXCEPT ![p] = {r}]
                      /\ Goto(p, "write")
                      /\ UNCHANGED <<op, exp, missing, tries, outcome, locks>>
        /\ UNCHANGED <<head, files, staging>>

-------------------------------------------------------------------------------
(* Under head.lock as well: the publication of a head.                     *)

ClaimHead(p) ==
    /\ At(p, "claim_head")
    /\ headLock = None
    /\ headLock' = p
    /\ Goto(p, "stage")
    /\ UNCHANGED <<storeVars, locals, outcome, objLock, staging>>

FaultyStageHead(p) ==   \* no comparison under head.lock
    /\ At(p, "stage")
    /\ stagedHead' = next[p]
    /\ Goto(p, "rename")
    /\ UNCHANGED <<storeVars, locals, outcome, locks, stagedObjects>>

StageHead(p) ==
    /\ At(p, "stage")
    /\ head = exp[p]
    /\ IF op[p] = "Commit" /\ exp[p] # NoHead /\ exp[p].manifest \notin files
          THEN Return(p, "Integrity") /\ stagedHead' = NoHead
          ELSE /\ stagedHead' = next[p]
               /\ Goto(p, "rename")
               /\ UNCHANGED <<locals, outcome, locks>>
    /\ UNCHANGED <<storeVars, stagedObjects>>

Rename(p) ==
    /\ At(p, "rename")
    /\ stagedHead # NoHead
    /\ head' = stagedHead
    /\ stagedHead' = NoHead
    /\ published' = [published EXCEPT ![p] = TRUE]
    /\ Goto(p, "sync")
    /\ UNCHANGED <<files, content, locals, result, locks, stagedObjects>>

Sync(p) ==
    /\ At(p, "sync")
    /\ Goto(p, IF op[p] = "Commit" THEN "release" ELSE "sweep")
    /\ UNCHANGED <<storeVars, locals, outcome, locks, staging>>

SweepDone(p) ==
    /\ At(p, "sweep") /\ todo[p] = {}
    /\ Goto(p, "release")
    /\ UNCHANGED <<storeVars, locals, outcome, locks, staging>>

Release(p) ==
    /\ At(p, "release")
    /\ Return(p, "Ok")
    /\ UNCHANGED <<storeVars, staging>>

-------------------------------------------------------------------------------
(* Failures.                                                               *)

(* After the rename only the outcome is in doubt: a failed directory sync, *)
(* sweep or unlock is CommitOutcomeUnknown.                                *)
FailureOf(p) ==
    IF pc[p] \in {"sync", "sweep"} \/ (At(p, "release") /\ op[p] # "Reconcile")
    THEN "Unknown" ELSE "Failed"

(* A read that fails is judged after the head, like one that finds nothing.*)
Fail(p) ==
    /\ pc[p] # "idle"
    /\ At(p, "fetch") => head = exp[p]
    /\ Return(p, FailureOf(p))
    /\ UNCHANGED <<storeVars, staging>>

(* The process dies; the operating system drops its locks.                 *)
Crash(p) ==
    /\ pc[p] # "idle"
    /\ Return(p, None)
    /\ UNCHANGED <<storeVars, staging>>

-------------------------------------------------------------------------------

Start(p) ==
    \/ StartLoad(p) \/ StartRead(p) \/ StartAdvance(p) \/ StartReconcile(p)
    \/ \E m \in Manifests : StartCommit(p, m)

Step(p) ==
    \/ LoadClaimObjects(p) \/ LoadClean(p) \/ LoadClaimHead(p) \/ LoadTidy(p)
    \/ LoadRead(p) \/ LoadVerify(p)
    \/ LockBusy(p) \/ HeadMoved(p)
    \/ ObserveRead(p) \/ Observe(p) \/ ReadReceipt(p) \/ Fetch(p) \/ Recheck(p)
    \/ ClaimObjects(p) \/ Tidy(p) \/ Write(p) \/ Link(p) \/ WriteDone(p)
    \/ Inspect(p) \/ ClaimSweep(p) \/ Authorize(p) \/ SweepFile(p) \/ SweepPageDone(p)
    \/ Scan(p) \/ ClaimHead(p) \/ StageHead(p) \/ Rename(p) \/ Sync(p) \/ SweepDone(p)
    \/ Release(p)

Next == \E p \in Procs : Start(p) \/ Step(p) \/ Fail(p) \/ Crash(p)

Spec == Init /\ [][Next]_vars

-------------------------------------------------------------------------------
(* Properties.                                                             *)

(* What an operation answers is true of the Store, whoever it raced: a     *)
(* definite refusal or failure means its head was not published, so that   *)
(* only CommitOutcomeUnknown leaves the caller in doubt                    *)
(* (write_head_atomic, finish_publishing_operation), and a reader or a     *)
(* committer is never told that the Store is damaged: the second look at   *)
(* the head turns what it missed into a Conflict                           *)
(* (with_current_head_manifest, compare_and_commit).                       *)
AnswersTruthful ==
    [][\A p \in Procs :
          /\ published[p] => result'[p] \notin {"Conflict", "Integrity", "Failed"}
          /\ op[p] \in {"Load", "Read", "Commit"} => result'[p] # "Integrity"]_vars

(* head.next holds the head of the process about to rename it: nobody else *)
(* removed or replaced it since it was written.                            *)
StagedHeadOwned == \A p \in Procs : At(p, "rename") => stagedHead = next[p]

(* A process never finds its staged object gone when it links it, and no   *)
(* residue of a dead writer is there beside it.                            *)
StagedObjectOwned ==
    \A p \in Procs :
        At(p, "link") => \E x \in todo[p] : stagedObjects = {<<p, x>>}

(* Whoever tidies takes only what a dead writer left: the staging files of *)
(* a live one, its head and its object, are there when it comes to them.   *)
StagedOwned == StagedHeadOwned /\ StagedObjectOwned

(* An advance that is about to succeed with nothing remaining has left     *)
(* exactly what the head needs and its own receipt: every older receipt    *)
(* and every object of a dead commit is gone.                              *)
FinalGenerationExact ==
    \A p \in Procs :
        (At(p, "release") /\ op[p] = "Advance" /\ content[head.receipt].remaining = 0)
            => files = Needed(head) \cup Pinned(head)

(* A reconciliation about to succeed has finished the page the head pins,  *)
(* whichever process died in the middle of it.                             *)
ReconciledPageGone ==
    \A p \in Procs :
        (At(p, "release") /\ op[p] = "Reconcile")
            => content[head.receipt].ids \cap files = {}

(* What the receipts promise about a generation is so when the operation   *)
(* that says so returns.                                                   *)
GenerationsExact == FinalGenerationExact /\ ReconciledPageGone

(* An Integrity result means damage, and nothing damages this directory.   *)
IntegrityMeansDamage == \A p \in Procs : result[p] # "Integrity"
=============================================================================
