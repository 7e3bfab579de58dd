------------------------ MODULE DirectoryStoreProofs -------------------------
(***************************************************************************)
(* The directory adapter implements HeadStore, for every number of         *)
(* processes, objects and receipts, every page size and every interleaving *)
(* of calls, failures and deaths.                                          *)
(*                                                                         *)
(* The argument: only the owner of objects.lock changes head, files or     *)
(* content, and only the owner of head.lock changes head.next (LocksOwned  *)
(* says at which labels a process is an owner).  So what a process learned *)
(* under its locks stays true until it acts on it (Local), and what it     *)
(* learned before them is compared again.  A second invariant (Deep) is    *)
(* built on the first for the answers, the sweeps and the staging files.   *)
(***************************************************************************)
EXTENDS DirectoryStore, FiniteSetTheorems, TLAPS

-----------------------------------------------------------------------------
(* The abstract Store keeps its head reopenable, for every set of objects, *)
(* manifests and receipts.                                                 *)

(* A head always names a manifest.                                         *)
HeadNamed == head # NoHead => head.manifest \in Manifests

StoreInv == StoreTypeOK /\ HeadNamed /\ HeadClosed /\ PinnedReceiptSafe

(* The first head is initial, an unpinned receipt is not described by it.  *)
LEMMA NoHeadFacts ==
    /\ NoHead \in StoreHead
    /\ NoHead.manifest = None /\ NoHead.receipt = None
    /\ NoHead.sequence = 0 /\ NoHead.gc = 0
    /\ NoContent \in GcReceipt
    /\ NoContent.parent = NoHead
    BY StoreAssumption DEF NoHead, StoreHead, NoContent, GcReceipt

(* The successor of a semantic commit needs the manifest's closure and     *)
(* pins nothing.                                                           *)
LEMMA CommitHeadFacts ==
    ASSUME NEW h \in StoreHead, NEW m \in Manifests
    PROVE  /\ CommitHead(h, m) # NoHead
           /\ CommitHead(h, m).manifest = m
           /\ CommitHead(h, m).receipt = None
           /\ Needed(CommitHead(h, m)) = Closure[m]
           /\ Pinned(CommitHead(h, m)) = {}
<1>1. None \notin Manifests
    BY StoreAssumption DEF Ids
<1>2. CommitHead(h, m).manifest = m /\ CommitHead(h, m).receipt = None
    BY DEF CommitHead
<1>3. CommitHead(h, m) # NoHead
    BY <1>1, <1>2, NoHeadFacts
<1> QED
    BY <1>2, <1>3 DEF Needed, Pinned

(* The successor of a reclamation needs what its parent needed.            *)
LEMMA ReclaimHeadFacts ==
    ASSUME NEW h \in StoreHead, h # NoHead, NEW r \in Receipts
    PROVE  /\ ReclaimHead(h, r) # NoHead
           /\ ReclaimHead(h, r).manifest = h.manifest
           /\ ReclaimHead(h, r).receipt = r
           /\ Needed(ReclaimHead(h, r)) = Needed(h)
           /\ Pinned(ReclaimHead(h, r)) = {r}
<1>1. None \notin Receipts
    BY StoreAssumption DEF Ids
<1>2. ReclaimHead(h, r).manifest = h.manifest /\ ReclaimHead(h, r).receipt = r
    BY DEF ReclaimHead
<1>3. ReclaimHead(h, r) # NoHead
    BY <1>1, <1>2, NoHeadFacts
<1> QED
    BY <1>1, <1>2, <1>3 DEF Needed, Pinned

LEMMA StoreInitInv == StoreInit => StoreInv
<1> SUFFICES ASSUME StoreInit PROVE StoreInv
    OBVIOUS
<1>1. StoreTypeOK
    BY NoHeadFacts DEF StoreInit, StoreTypeOK
<1>2. HeadNamed /\ HeadClosed /\ PinnedReceiptSafe
    BY NoHeadFacts DEF StoreInit, HeadNamed, HeadClosed, PinnedReceiptSafe, Needed, Pinned
<1> QED
    BY <1>1, <1>2 DEF StoreInv

LEMMA StoreStage ==
    ASSUME StoreInv, NEW x \in Ids, Stage(x)
    PROVE  StoreInv'
    BY DEF StoreInv, Stage, StoreTypeOK, HeadNamed, HeadClosed, PinnedReceiptSafe, Needed, Pinned

(* A pinned receipt has content, because its parent is a head.             *)
LEMMA PinnedIsDescribed ==
    ASSUME StoreInv, head.receipt # None
    PROVE  content[head.receipt] # NoContent /\ head.receipt \in Receipts /\ head # NoHead
<1>1. head.receipt \in Receipts /\ head # NoHead
    BY NoHeadFacts DEF StoreInv, StoreTypeOK, StoreHead
<1>2. SUFFICES ASSUME content[head.receipt] = NoContent PROVE FALSE
    BY <1>1
<1>3. head = ReclaimHead(NoHead, head.receipt)
    BY <1>2, NoHeadFacts DEF StoreInv, PinnedReceiptSafe
<1>4. head.manifest = None
    BY <1>3, NoHeadFacts DEF ReclaimHead
<1>5. None \notin Manifests
    BY StoreAssumption DEF Ids
<1> QED
    BY <1>1, <1>4, <1>5 DEF StoreInv, HeadNamed

LEMMA StoreDescribe ==
    ASSUME StoreInv, NEW r \in Receipts, Describe(r)
    PROVE  StoreInv'
<1>1. StoreTypeOK' /\ HeadNamed' /\ HeadClosed'
    BY DEF StoreInv, Describe, StoreTypeOK, HeadNamed, HeadClosed, Needed, Pinned
<1>2. ASSUME head.receipt # None
      PROVE  content'[head.receipt] = content[head.receipt]
    <2>1. r # head.receipt
        BY <1>2, PinnedIsDescribed DEF Describe
    <2> QED
        BY <1>2, <2>1, PinnedIsDescribed DEF Describe, StoreInv, StoreTypeOK
<1>3. PinnedReceiptSafe'
    BY <1>2 DEF PinnedReceiptSafe, StoreInv, Describe, Needed
<1> QED
    BY <1>1, <1>3 DEF StoreInv

LEMMA StoreCommit ==
    ASSUME StoreInv, NEW m \in Manifests, Commit(m)
    PROVE  StoreInv'
<1>1. /\ head' # NoHead /\ head'.manifest = m /\ head'.receipt = None
      /\ Needed(head') = Closure[m] /\ Pinned(head') = {}
    BY CommitHeadFacts DEF Commit, StoreInv, StoreTypeOK
<1>2. StoreTypeOK'
    BY DEF Commit, StoreInv, StoreTypeOK
<1>3. HeadNamed'
    BY <1>1 DEF HeadNamed
<1>4. HeadClosed'
    BY <1>1 DEF HeadClosed, Commit
<1>5. PinnedReceiptSafe'
    BY <1>1 DEF PinnedReceiptSafe
<1> QED
    BY <1>2, <1>3, <1>4, <1>5 DEF StoreInv

LEMMA StoreAdvance ==
    ASSUME StoreInv, NEW r \in Receipts, Advance(r)
    PROVE  StoreInv'
<1>1. /\ head' # NoHead /\ head'.manifest = head.manifest /\ head'.receipt = r
      /\ Needed(head') = Needed(head) /\ Pinned(head') = {r}
    BY ReclaimHeadFacts DEF Advance, StoreInv, StoreTypeOK
<1>2. StoreTypeOK'
    BY DEF Advance, StoreInv, StoreTypeOK
<1>3. HeadNamed'
    BY <1>1 DEF HeadNamed, StoreInv, Advance
<1>4. HeadClosed'
    BY <1>1 DEF HeadClosed, Advance, StoreInv
<1>5. PinnedReceiptSafe'
    BY <1>1 DEF PinnedReceiptSafe, Advance
<1> QED
    BY <1>2, <1>3, <1>4, <1>5 DEF StoreInv

(* The page of the pinned receipt is disjoint from what the head needs.    *)
LEMMA StoreSweep ==
    ASSUME StoreInv, NEW x \in Ids, Sweep(x)
    PROVE  StoreInv'
<1>1. x \notin Needed(head) \cup Pinned(head)
    BY DEF StoreInv, PinnedReceiptSafe, Sweep, Pinned
<1>2. HeadClosed'
    BY <1>1 DEF HeadClosed, StoreInv, Sweep, Needed, Pinned
<1> QED
    BY <1>2 DEF StoreInv, Sweep, StoreTypeOK, HeadNamed, PinnedReceiptSafe, Needed

LEMMA StoreStep == StoreInv /\ [StoreNext]_storeVars => StoreInv'
<1> SUFFICES ASSUME StoreInv, [StoreNext]_storeVars PROVE StoreInv'
    OBVIOUS
<1>1. ASSUME NEW x \in Ids, Stage(x) \/ Sweep(x) PROVE StoreInv'
    BY <1>1, StoreStage, StoreSweep
<1>2. ASSUME NEW r \in Receipts, Advance(r) \/ Describe(r) PROVE StoreInv'
    BY <1>2, StoreAdvance, StoreDescribe
<1>3. ASSUME NEW m \in Manifests, Commit(m) PROVE StoreInv'
    BY <1>3, StoreCommit
<1>4. CASE UNCHANGED storeVars
    BY <1>4 DEF StoreInv, StoreTypeOK, HeadNamed, HeadClosed, PinnedReceiptSafe, storeVars, Needed, Pinned
<1> QED
    BY <1>1, <1>2, <1>3, <1>4 DEF StoreNext

(* Whatever implements the contract keeps its head reopenable and its      *)
(* pinned page safe to sweep.                                              *)
THEOREM HeadStaysClosed == StoreSpec => [](HeadClosed /\ PinnedReceiptSafe)
<1>1. StoreSpec => []StoreInv
    BY StoreInitInv, StoreStep, PTL DEF StoreSpec
<1>2. StoreInv => HeadClosed /\ PinnedReceiptSafe
    BY DEF StoreInv
<1> QED
    BY <1>1, <1>2, PTL

-----------------------------------------------------------------------------
(* The directory adapter.                                                  *)

ObjectLabels == {"load_clean", "tidy", "write", "link", "inspect", "claim_sweep", "authorize",
                 "sweep_page", "scan", "claim_head", "stage", "rename", "sync", "sweep",
                 "release"}
HeadLabels == {"load_tidy", "authorize", "sweep_page", "stage", "rename", "sync", "sweep",
               "release"}
LoadLabels == {"load_objects", "load_clean", "load_claim", "load_tidy", "load_read",
               "load_verify"}
PageLabels == {"claim_sweep", "authorize", "sweep_page"}
PublishLabels == {"claim_head", "stage", "rename"}

LocksOwned ==
    \A p \in Procs : /\ (objLock = p) <=> (pc[p] \in ObjectLabels)
                     /\ (headLock = p) <=> (pc[p] \in HeadLabels)

(* Which operation a process at a label can be in.                         *)
LocalCall(p) ==
    /\ pc[p] \in {"tidy", "write", "link", "sync"} \cup PublishLabels =>
          op[p] \in {"Commit", "Advance"}
    /\ pc[p] \in {"receipt", "inspect"} \cup PageLabels => op[p] \in {"Advance", "Reconcile"}
    /\ pc[p] \in {"scan", "sweep"} => op[p] = "Advance"
    /\ pc[p] \in {"observe", "fetch", "claim_objects"} => op[p] \in Operations \ {"Load"}
    /\ pc[p] = "claim_objects" => op[p] # "Read"
    /\ pc[p] \in LoadLabels => op[p] = "Load"

(* The head it expects, as far as it knows before any lock.                *)
LocalExpected(p) ==
    /\ exp[p] # NoHead => exp[p].manifest \in Manifests
    /\ op[p] \in {"Advance", "Reconcile"} => exp[p] # NoHead
    /\ op[p] = "Advance" => exp[p].gc < MaxGc
    /\ (op[p] = "Reconcile" /\ pc[p] \in {"fetch", "claim_objects", "inspect"}) =>
          exp[p].receipt # None

(* A commit: what it writes and what it already knows to be there.         *)
LocalCommit(p) ==
    op[p] = "Commit" =>
        /\ pc[p] \in {"observe", "fetch", "claim_objects", "tidy", "write", "link"}
                        \cup PublishLabels =>
              next[p] \in StoreHead /\ \E m \in Manifests : next[p] = CommitHead(exp[p], m)
        /\ pc[p] \in {"claim_objects", "tidy", "write", "link"} => todo[p] \subseteq Objects
        /\ pc[p] \in {"claim_objects", "tidy"} => Needed(next[p]) \subseteq Needed(exp[p]) \cup todo[p]
        /\ pc[p] \in {"write", "link"} =>
              Needed(next[p]) \subseteq Needed(exp[p]) \cup todo[p] \cup files
        /\ pc[p] \in {"claim_head", "stage"} => Needed(next[p]) \subseteq Needed(exp[p]) \cup files
        /\ pc[p] = "rename" => Needed(next[p]) \subseteq files /\ head = exp[p]

(* The sweep of the page that the expected head pins.                      *)
LocalPage(p) ==
    /\ pc[p] \in PageLabels =>
          /\ head = exp[p] /\ exp[p].receipt # None
          /\ todo[p] \subseteq content[exp[p].receipt].ids
    /\ pc[p] = "scan" => head = exp[p]

(* An advance: its receipt is described for the expected head.             *)
LocalAdvance(p) ==
    op[p] = "Advance" =>
        /\ pc[p] \in {"write", "link"} \cup PublishLabels =>
              /\ head = exp[p]
              /\ next[p].receipt \in Receipts
              /\ next[p] = ReclaimHead(exp[p], next[p].receipt)
              /\ content[next[p].receipt].parent = exp[p]
        /\ pc[p] \in {"write", "link"} =>
              /\ todo[p] \subseteq {next[p].receipt}
              /\ next[p].receipt \in files \cup todo[p]
        /\ pc[p] \in PublishLabels =>
              /\ next[p].receipt \in files
              /\ PageLegal(exp[p], next[p].receipt)
              /\ todo[p] \subseteq content[next[p].receipt].ids
        /\ pc[p] \in {"sync", "sweep"} =>
              head.receipt # None /\ todo[p] \subseteq content[head.receipt].ids

LocalStaged(p) == pc[p] = "rename" => stagedHead = next[p]

(* The rename is behind a process exactly where a failure is an unknown    *)
(* outcome.                                                                *)
LocalPublished(p) ==
    published[p] => pc[p] \in {"sync", "sweep"} \/ (pc[p] = "release" /\ op[p] # "Reconcile")

LocalTries(p) == pc[p] # "load_verify" => tries[p] < StableReads

Local(p) ==
    /\ LocalCall(p) /\ LocalExpected(p) /\ LocalCommit(p) /\ LocalPage(p)
    /\ LocalAdvance(p) /\ LocalStaged(p) /\ LocalPublished(p) /\ LocalTries(p)

Inv == DirectoryTypeOK /\ StoreInv /\ LocksOwned /\ \A p \in Procs : Local(p)

-------------------------------------------------------------------------------

THEOREM InitInv == Init => Inv
<1> SUFFICES ASSUME Init PROVE Inv
    OBVIOUS
<1>1. StoreInv
    BY StoreInitInv DEF Init
<1>2. DirectoryTypeOK
    <2>1. StoreTypeOK
        BY <1>1 DEF StoreInv
    <2>2. missing \in [Procs -> BOOLEAN] /\ published \in [Procs -> BOOLEAN]
        BY Zenon DEF Init
    <2>3. /\ exp \in [Procs -> StoreHead] /\ next \in [Procs -> StoreHead]
          /\ stagedHead \in StoreHead
        BY NoHeadFacts DEF Init
    <2>4. pc \in [Procs -> Labels] /\ op \in [Procs -> Operations \cup {None}]
        BY DEF Init, Labels
    <2>5. todo \in [Procs -> SUBSET Ids] /\ result \in [Procs -> Results \cup {None}]
        BY DEF Init
    <2>6. tries \in [Procs -> 0..StableReads]
        BY DirectoryAssumption DEF Init
    <2>7. /\ objLock \in Procs \cup {None} /\ headLock \in Procs \cup {None}
          /\ stagedObjects \subseteq Procs \X Ids
        BY DEF Init
    <2> QED
        BY <2>1, <2>2, <2>3, <2>4, <2>5, <2>6, <2>7 DEF DirectoryTypeOK
<1>3. LocksOwned
    BY DirectoryAssumption DEF Init, LocksOwned, ObjectLabels, HeadLabels
<1>4. ASSUME NEW p \in Procs PROVE Local(p)
    <2>1. LocalTries(p)
        BY DirectoryAssumption DEF Init, LocalTries
    <2> QED
        BY <2>1 DEF Init, Local, LocalCall, LocalExpected, LocalCommit, LocalPage, LocalAdvance,
               LocalStaged, LocalPublished, PageLabels, PublishLabels, LoadLabels, None
<1> QED
    BY <1>1, <1>2, <1>3, <1>4 DEF Inv

-------------------------------------------------------------------------------
(* What one process does never touches what another one relies on.         *)

Frame(q) ==
    /\ pc'[q] = pc[q] /\ op'[q] = op[q] /\ exp'[q] = exp[q] /\ next'[q] = next[q]
    /\ todo'[q] = todo[q] /\ published'[q] = published[q] /\ tries'[q] = tries[q]

LEMMA LocalFrame ==
    ASSUME NEW q \in Procs, Local(q), Frame(q),
           pc[q] \in ObjectLabels => UNCHANGED <<head, files, content>>,
           pc[q] = "rename" => UNCHANGED stagedHead
    PROVE  Local(q)'
<1>1. LocalCall(q)' /\ LocalExpected(q)' /\ LocalPublished(q)'
    BY DEF Local, Frame, LocalCall, LocalExpected, LocalPublished, PageLabels, PublishLabels, LoadLabels
<1>2. LocalStaged(q)' /\ LocalTries(q)'
    BY DEF Local, Frame, LocalStaged, LocalTries
<1>3. LocalPage(q)'
    BY DEF Local, Frame, LocalPage, PageLabels, ObjectLabels
<1>4. LocalAdvance(q)'
    <2>1. CASE pc[q] \in ObjectLabels
        BY <2>1 DEF Local, Frame, LocalAdvance, PageLegal, Needed
    <2>2. CASE pc[q] \notin ObjectLabels
        BY <2>2 DEF Local, Frame, LocalAdvance, PublishLabels, ObjectLabels
    <2> QED
        BY <2>1, <2>2
<1>5. LocalCommit(q)'
    <2>1. CASE pc[q] \in ObjectLabels
        BY <2>1 DEF Local, Frame, LocalCommit, Needed
    <2>2. CASE pc[q] \notin ObjectLabels
        BY <2>2 DEF Local, Frame, LocalCommit, PublishLabels, ObjectLabels, Needed
    <2> QED
        BY <2>1, <2>2
<1> QED
    BY <1>1, <1>2, <1>3, <1>4, <1>5 DEF Local

(* A step of p that meets its own obligations preserves the invariant.     *)
LEMMA StepOf ==
    ASSUME Inv, NEW p \in Procs,
           DirectoryTypeOK', StoreInv', LocksOwned', Local(p)',
           \A q \in Procs \ {p} : Frame(q),
           UNCHANGED <<head, files, content>> \/ pc[p] \in ObjectLabels,
           UNCHANGED stagedHead \/ pc[p] \in HeadLabels
    PROVE  Inv'
<1>1. ASSUME NEW q \in Procs, q # p PROVE Local(q)'
    <2>1. pc[q] \in ObjectLabels => pc[p] \notin ObjectLabels
        BY <1>1 DEF Inv, LocksOwned
    <2>2. pc[q] = "rename" => pc[p] \notin HeadLabels
        BY <1>1 DEF Inv, LocksOwned, HeadLabels
    <2>3. Frame(q) /\ Local(q)
        BY <1>1 DEF Inv
    <2> QED
        BY <2>1, <2>2, <2>3, LocalFrame
<1> QED
    BY <1>1 DEF Inv

(* A step that moves p to another label with the same locks, and changes   *)
(* nothing else but its todo set.                                          *)
LEMMA MoveOf ==
    ASSUME Inv, NEW p \in Procs, NEW l \in Labels, NEW T \in SUBSET Ids,
           Goto(p, l), todo' = [todo EXCEPT ![p] = T],
           UNCHANGED <<storeVars, op, exp, next, missing, tries, outcome, locks, staging>>,
           (l \in ObjectLabels) <=> (pc[p] \in ObjectLabels),
           (l \in HeadLabels) <=> (pc[p] \in HeadLabels),
           Local(p)'
    PROVE  Inv'
<1>1. DirectoryTypeOK'
    BY DEF Inv, DirectoryTypeOK, StoreTypeOK, Goto, storeVars, outcome, locks, staging
<1>2. StoreInv'
    BY StoreStep DEF Inv, storeVars
<1>3. LocksOwned'
    BY DEF Inv, DirectoryTypeOK, LocksOwned, Goto, locks
<1>4. \A q \in Procs \ {p} : Frame(q)
    BY DEF Inv, DirectoryTypeOK, Goto, Frame, outcome
<1> QED
    BY <1>1, <1>2, <1>3, <1>4, StepOf DEF storeVars, staging

(* Returning preserves the invariant, whatever the outcome.                *)
LEMMA ReturnOf ==
    ASSUME Inv, NEW p \in Procs, NEW o \in Results \cup {None}, Return(p, o),
           UNCHANGED <<storeVars, stagedObjects>>,
           stagedHead' = stagedHead \/ (stagedHead' = NoHead /\ pc[p] \in HeadLabels)
    PROVE  Inv'
<1>1. DirectoryTypeOK'
    <2>1. StoreTypeOK' /\ stagedObjects' \subseteq Procs \X Ids /\ stagedHead' \in StoreHead
        BY NoHeadFacts DEF Inv, DirectoryTypeOK, StoreTypeOK, storeVars
    <2>2. pc' \in [Procs -> Labels] /\ op' \in [Procs -> Operations \cup {None}]
        BY DEF Inv, DirectoryTypeOK, Return, Goto, Labels
    <2>3. exp' \in [Procs -> StoreHead] /\ next' \in [Procs -> StoreHead]
        BY NoHeadFacts DEF Inv, DirectoryTypeOK, Return
    <2>4. todo' \in [Procs -> SUBSET Ids]
        BY DEF Inv, DirectoryTypeOK, Return
    <2>5. missing' \in [Procs -> BOOLEAN] /\ published' \in [Procs -> BOOLEAN]
        BY Zenon DEF Inv, DirectoryTypeOK, Return
    <2>6. tries' \in [Procs -> 0..StableReads]
        BY DirectoryAssumption DEF Inv, DirectoryTypeOK, Return
    <2>7. result' \in [Procs -> Results \cup {None}]
        BY DEF Inv, DirectoryTypeOK, Return
    <2>8. objLock' \in Procs \cup {None} /\ headLock' \in Procs \cup {None}
        BY DEF Inv, DirectoryTypeOK, Return, Released
    <2> QED
        BY <2>1, <2>2, <2>3, <2>4, <2>5, <2>6, <2>7, <2>8 DEF DirectoryTypeOK
<1>2. StoreInv'
    BY StoreStep DEF Inv, storeVars
<1>3. LocksOwned'
    BY DirectoryAssumption DEF Inv, DirectoryTypeOK, LocksOwned, Return, Goto, Released, ObjectLabels, HeadLabels
<1>4. \A q \in Procs \ {p} : Frame(q)
    BY DEF Inv, DirectoryTypeOK, Return, Goto, Frame
<1>5. Local(p)'
    <2>1. /\ pc'[p] = "idle" /\ op'[p] = None /\ exp'[p] = NoHead
          /\ ~published'[p]
        BY DEF Inv, DirectoryTypeOK, Return, Goto
    <2>2. LocalTries(p)'
        BY DirectoryAssumption DEF Inv, DirectoryTypeOK, Return, LocalTries
    <2> QED
        BY <2>1, <2>2 DEF Local, LocalCall, LocalExpected, LocalCommit, LocalPage, LocalAdvance,
               LocalStaged, LocalPublished, PageLabels, PublishLabels, LoadLabels, None
<1> QED
    BY <1>1, <1>2, <1>3, <1>4, <1>5, StepOf DEF storeVars

-------------------------------------------------------------------------------
(* The steps before any lock.                                              *)

LEMMA BeginOf ==
    ASSUME Inv, NEW p \in Procs, NEW kind \in Operations,
           NEW label \in {"load_objects", "observe"}, NEW h \in StoreHead,
           Begin(p, kind, label, h),
           (label = "observe") <=> (kind # "Load"),
           kind \in {"Advance", "Reconcile"} => head # NoHead,
           kind = "Advance" => head.gc < MaxGc,
           kind = "Commit" => \E m \in Manifests : h = CommitHead(head, m)
    PROVE  Inv'
<1>1. DirectoryTypeOK'
    BY DEF Inv, DirectoryTypeOK, StoreTypeOK, Begin, Goto, storeVars, locks, staging, Labels
<1>2. StoreInv'
    BY StoreStep DEF Inv, storeVars, Begin
<1>3. LocksOwned'
    BY DEF Inv, DirectoryTypeOK, LocksOwned, Begin, At, Goto, locks, ObjectLabels, HeadLabels
<1>4. \A q \in Procs \ {p} : Frame(q)
    BY DEF Inv, DirectoryTypeOK, Begin, Goto, Frame
<1>5. Local(p)'
    <2>1. /\ pc'[p] = label /\ op'[p] = kind /\ exp'[p] = head /\ next'[p] = h
          /\ pc[p] = "idle" /\ published'[p] = published[p]
        BY DEF Inv, DirectoryTypeOK, Begin, At, Goto
    <2>2. LocalCall(p)' /\ LocalPage(p)' /\ LocalAdvance(p)' /\ LocalStaged(p)'
        BY <2>1 DEF LocalCall, LocalPage, LocalAdvance, LocalStaged, PageLabels, PublishLabels, LoadLabels
    <2>3. LocalExpected(p)'
        BY <2>1 DEF LocalExpected, Inv, StoreInv, HeadNamed
    <2>4. LocalCommit(p)'
        BY <2>1 DEF LocalCommit, PublishLabels
    <2>5. LocalPublished(p)'
        BY <2>1 DEF LocalPublished, Inv, Local
    <2>6. LocalTries(p)'
        BY <2>1 DEF LocalTries, Inv, Local, Begin
    <2> QED
        BY <2>2, <2>3, <2>4, <2>5, <2>6 DEF Local
<1> QED
    BY <1>1, <1>2, <1>3, <1>4, <1>5, StepOf DEF Begin, storeVars, staging

LEMMA StartOf ==
    ASSUME Inv, NEW p \in Procs, Start(p)
    PROVE  Inv'
<1> USE DEF Operations
<1>1. CASE StartLoad(p)
    BY <1>1, BeginOf, NoHeadFacts DEF StartLoad
<1>2. CASE StartRead(p)
    BY <1>2, BeginOf, NoHeadFacts DEF StartRead
<1>3. CASE StartAdvance(p)
    BY <1>3, BeginOf, NoHeadFacts DEF StartAdvance
<1>4. CASE StartReconcile(p)
    BY <1>4, BeginOf, NoHeadFacts DEF StartReconcile
<1>5. ASSUME NEW m \in Manifests, StartCommit(p, m) PROVE Inv'
    <2>1. CommitHead(head, m) \in StoreHead
        BY <1>5, StoreAssumption DEF StartCommit, CommitHead, StoreHead, Inv, DirectoryTypeOK, StoreTypeOK
    <2> QED
        BY <1>5, <2>1, BeginOf DEF StartCommit
<1> QED
    BY <1>1, <1>2, <1>3, <1>4, <1>5 DEF Start

LEMMA LoadOf ==
    ASSUME Inv, NEW p \in Procs,
           \/ LoadClaimObjects(p) \/ LoadClean(p) \/ LoadClaimHead(p) \/ LoadTidy(p)
           \/ LoadRead(p) \/ LoadVerify(p)
    PROVE  Inv'
<1>1. ASSUME NEW l \in LoadLabels, Goto(p, l), pc[p] \in LoadLabels,
             UNCHANGED <<op, next, todo, published>>,
             UNCHANGED exp \/ exp' = [exp EXCEPT ![p] = head],
             \/ UNCHANGED tries /\ (pc[p] # "load_verify" \/ tries[p] < StableReads)
             \/ l = "load_verify" /\ tries' = [tries EXCEPT ![p] = @ + 1]
      PROVE  Local(p)' /\ \A q \in Procs \ {p} : Frame(q)
    <2>1. /\ pc'[p] = l /\ op'[p] = op[p] /\ op[p] = "Load" /\ published'[p] = published[p]
          /\ exp'[p] \in {exp[p], head}
        BY <1>1 DEF Inv, DirectoryTypeOK, Goto, Local, LocalCall
    <2>2. LocalExpected(p)'
        BY <2>1 DEF LocalExpected, Inv, Local, StoreInv, HeadNamed
    <2>5. LocalTries(p)'
        BY <1>1, <2>1 DEF LocalTries, Inv, Local
    <2>3. Local(p)'
        BY <1>1, <2>1, <2>2, <2>5 DEF Local, LocalCall, LocalCommit, LocalPage, LocalAdvance,
               LocalStaged, LocalPublished, PageLabels, PublishLabels, LoadLabels, Inv
    <2>4. \A q \in Procs \ {p} : Frame(q)
        BY <1>1 DEF Inv, DirectoryTypeOK, Goto, Frame
    <2> QED
        BY <2>3, <2>4
<1>2. ASSUME UNCHANGED storeVars PROVE StoreInv'
    BY <1>2, StoreStep DEF Inv
<1>3. CASE LoadClaimObjects(p)
    <2>1. PICK l \in {"load_clean", "load_claim"} :
            /\ Goto(p, l)
            /\ IF l = "load_clean" THEN objLock = None /\ objLock' = p ELSE UNCHANGED objLock
        BY <1>3 DEF LoadClaimObjects
    <2>2. DirectoryTypeOK'
        BY <1>3, <2>1 DEF Inv, LoadClaimObjects, DirectoryTypeOK, StoreTypeOK, Goto, storeVars, locals, outcome, staging, Labels
    <2>3. LocksOwned'
        BY <1>3, <2>1, DirectoryAssumption DEF Inv, LoadClaimObjects, At, DirectoryTypeOK, LocksOwned, Goto, ObjectLabels, HeadLabels
    <2>4. Local(p)' /\ \A q \in Procs \ {p} : Frame(q)
        BY <1>1, <1>3, <2>1 DEF LoadClaimObjects, At, LoadLabels, locals, outcome
    <2> QED
        BY <1>2, <1>3, <2>2, <2>3, <2>4, StepOf DEF LoadClaimObjects, storeVars, staging
<1>4. CASE LoadClean(p)
    <2>1. Goto(p, "load_claim") /\ pc[p] = "load_clean"
        BY <1>4 DEF LoadClean, At
    <2>2. DirectoryTypeOK'
        BY <1>4 DEF Inv, LoadClean, DirectoryTypeOK, StoreTypeOK, Goto, storeVars, locals, outcome, Labels, Released
    <2>3. LocksOwned'
        BY <1>4, <2>1, DirectoryAssumption DEF Inv, LoadClean, DirectoryTypeOK, LocksOwned, Goto, ObjectLabels, HeadLabels, Released
    <2>4. Local(p)' /\ \A q \in Procs \ {p} : Frame(q)
        BY <1>1, <1>4, <2>1 DEF LoadClean, LoadLabels, locals, outcome
    <2> QED
        BY <1>2, <1>4, <2>2, <2>3, <2>4, StepOf DEF LoadClean, storeVars
<1>5. CASE LoadClaimHead(p)
    <2>1. Goto(p, "load_tidy") /\ pc[p] = "load_claim"
        BY <1>5 DEF LoadClaimHead, At
    <2>2. DirectoryTypeOK'
        BY <1>5 DEF Inv, LoadClaimHead, DirectoryTypeOK, StoreTypeOK, Goto, storeVars, locals, outcome, staging, Labels
    <2>3. LocksOwned'
        BY <1>5, <2>1, DirectoryAssumption DEF Inv, LoadClaimHead, DirectoryTypeOK, LocksOwned, Goto, ObjectLabels, HeadLabels
    <2>4. Local(p)' /\ \A q \in Procs \ {p} : Frame(q)
        BY <1>1, <1>5, <2>1 DEF LoadClaimHead, LoadLabels, locals, outcome
    <2> QED
        BY <1>2, <1>5, <2>2, <2>3, <2>4, StepOf DEF LoadClaimHead, storeVars, staging
<1>6. CASE LoadTidy(p)
    <2>1. Goto(p, "load_read") /\ pc[p] = "load_tidy"
        BY <1>6 DEF LoadTidy, At
    <2>2. DirectoryTypeOK'
        BY <1>6, NoHeadFacts DEF Inv, LoadTidy, DirectoryTypeOK, StoreTypeOK, Goto, storeVars, locals, outcome, Labels, Released
    <2>3. LocksOwned'
        BY <1>6, <2>1, DirectoryAssumption DEF Inv, LoadTidy, DirectoryTypeOK, LocksOwned, Goto, ObjectLabels, HeadLabels, Released
    <2>4. Local(p)' /\ \A q \in Procs \ {p} : Frame(q)
        BY <1>1, <1>6, <2>1 DEF LoadTidy, LoadLabels, locals, outcome
    <2> QED
        BY <1>2, <1>6, <2>1, <2>2, <2>3, <2>4, StepOf DEF LoadTidy, storeVars, HeadLabels
<1>7. CASE LoadRead(p)
    <2>1. Goto(p, "load_verify") /\ pc[p] = "load_read"
        BY <1>7 DEF LoadRead, At
    <2>2. DirectoryTypeOK'
        <3>1. tries[p] < StableReads
            BY <2>1 DEF Inv, Local, LocalTries
        <3> QED
            BY <1>7, <3>1, DirectoryAssumption DEF Inv, LoadRead, DirectoryTypeOK, StoreTypeOK, Goto, storeVars, outcome, locks, staging, Labels
    <2>3. LocksOwned'
        BY <1>7, <2>1 DEF Inv, LoadRead, DirectoryTypeOK, LocksOwned, Goto, ObjectLabels, HeadLabels, locks
    <2>4. Local(p)' /\ \A q \in Procs \ {p} : Frame(q)
        BY <1>1, <1>7, <2>1 DEF LoadRead, LoadLabels, outcome
    <2> QED
        BY <1>2, <1>7, <2>2, <2>3, <2>4, StepOf DEF LoadRead, storeVars, staging
<1>8. CASE LoadVerify(p)
    <2>1. pc[p] = "load_verify" /\ UNCHANGED <<storeVars, staging>>
        BY <1>8 DEF LoadVerify, At
    <2>2. CASE Return(p, "Ok") \/ Return(p, "Conflict")
        BY <2>1, <2>2, ReturnOf DEF Results, staging
    <2>3. CASE /\ tries[p] < StableReads /\ Goto(p, "load_read")
               /\ UNCHANGED <<locals, outcome, locks>>
        <3>1. Local(p)' /\ \A q \in Procs \ {p} : Frame(q)
            BY <1>1, <2>1, <2>3 DEF LoadLabels, locals, outcome
        <3>2. todo' = [todo EXCEPT ![p] = todo[p]] /\ todo[p] \in SUBSET Ids
            BY <2>3 DEF Inv, DirectoryTypeOK, locals
        <3>3. UNCHANGED <<storeVars, op, exp, next, missing, tries, outcome, locks, staging>>
            BY <2>1, <2>3 DEF locals
        <3>4. /\ "load_read" \in Labels
              /\ "load_read" \notin ObjectLabels \cup HeadLabels
              /\ pc[p] \notin ObjectLabels \cup HeadLabels
            BY <2>1 DEF Labels, ObjectLabels, HeadLabels
        <3> QED
            BY <2>3, <3>1, <3>2, <3>3, <3>4, MoveOf
    <2> QED
        BY <1>8, <2>2, <2>3 DEF LoadVerify
<1> QED
    BY <1>3, <1>4, <1>5, <1>6, <1>7, <1>8

(* Refusals, failures and deaths only return.                              *)
LEMMA EndOf ==
    ASSUME Inv, NEW p \in Procs,
           LockBusy(p) \/ HeadMoved(p) \/ Release(p) \/ Fail(p) \/ Crash(p)
    PROVE  Inv' /\ UNCHANGED storeVars
<1>1. CASE LockBusy(p)
    BY <1>1, ReturnOf DEF LockBusy, Results, staging
<1>2. CASE HeadMoved(p)
    BY <1>2, ReturnOf DEF HeadMoved, Results, HeadLabels
<1>3. CASE Release(p)
    BY <1>3, ReturnOf DEF Release, Results, staging
<1>4. CASE Fail(p)
    BY <1>4, ReturnOf DEF Fail, FailureOf, Results, staging
<1>5. CASE Crash(p)
    BY <1>5, ReturnOf DEF Crash, staging
<1> QED
    BY <1>1, <1>2, <1>3, <1>4, <1>5

(* What a head needs is a set of objects.                                  *)
LEMMA NeededType ==
    ASSUME NEW h, h # NoHead => h.manifest \in Manifests
    PROVE  Needed(h) \subseteq Objects
    BY StoreAssumption DEF Needed

LEMMA LookOf ==
    ASSUME Inv, NEW p \in Procs,
           ObserveRead(p) \/ Observe(p) \/ ReadReceipt(p) \/ Fetch(p) \/ Recheck(p)
    PROVE  Inv' /\ UNCHANGED storeVars
<1> USE DEF ObjectLabels, HeadLabels, Labels, PageLabels, PublishLabels, LoadLabels
<1>0. /\ Local(p) /\ Needed(exp[p]) \subseteq Ids
      /\ HeadNamed /\ Needed(head) \subseteq Ids
    BY NeededType DEF Inv, Local, LocalExpected, Ids, StoreInv, HeadNamed
<1>1. CASE ObserveRead(p)
    <2>1. pc[p] = "observe" /\ op[p] = "Read" /\ UNCHANGED <<storeVars, staging>>
        BY <1>1 DEF ObserveRead, At
    <2>2. CASE Return(p, "Conflict")
        BY <2>1, <2>2, ReturnOf DEF Results, staging
    <2>3. CASE /\ exp' = [exp EXCEPT ![p] = head]
               /\ todo' = [todo EXCEPT ![p] = Needed(head)]
               /\ Goto(p, "fetch")
               /\ UNCHANGED <<op, next, missing, tries, outcome, locks>>
        <3>1. DirectoryTypeOK'
            BY <1>0, <2>1, <2>3 DEF Inv, DirectoryTypeOK, StoreTypeOK, Goto, storeVars, outcome, locks, staging
        <3>2. StoreInv'
            BY <2>1, StoreStep DEF Inv
        <3>3. LocksOwned'
            BY <2>1, <2>3 DEF Inv, DirectoryTypeOK, LocksOwned, Goto, locks
        <3>4. \A q \in Procs \ {p} : Frame(q)
            BY <2>3 DEF Inv, DirectoryTypeOK, Goto, Frame, outcome
        <3>5. Local(p)'
            <4>1. /\ pc'[p] = "fetch" /\ op'[p] = "Read" /\ exp'[p] = head
                  /\ published'[p] = published[p] /\ tries'[p] = tries[p]
                BY <2>1, <2>3 DEF Inv, DirectoryTypeOK, Goto, outcome
            <4> QED
                BY <1>0, <2>1, <4>1 DEF Local, LocalCall, LocalExpected, LocalCommit, LocalPage,
                   LocalAdvance, LocalStaged, LocalPublished, LocalTries, HeadNamed, Operations
        <3> QED
            BY <2>1, <3>1, <3>2, <3>3, <3>4, <3>5, StepOf DEF storeVars, staging
    <2> QED
        BY <1>1, <2>1, <2>2, <2>3 DEF ObserveRead
<1>2. CASE Observe(p)
    <2>1. /\ pc[p] = "observe" /\ op[p] # "Read" /\ head = exp[p]
          /\ UNCHANGED <<storeVars, op, exp, next, missing, tries, outcome, locks, staging>>
        BY <1>2 DEF Observe, At
    <2>2. PICK l \in {"fetch", "receipt"}, T \in SUBSET Ids :
            /\ Goto(p, l) /\ todo' = [todo EXCEPT ![p] = T]
            /\ l = "receipt" => op[p] \in {"Advance", "Reconcile"}
            /\ l = "fetch" => op[p] # "Reconcile"
        <3>1. CASE op[p] = "Commit"
            <4>1. {exp[p].manifest} \ {None} \in SUBSET Ids
                BY StoreAssumption DEF Inv, DirectoryTypeOK, StoreHead, Ids
            <4> QED
                BY <1>2, <3>1, <4>1 DEF Observe
        <3>2. CASE op[p] = "Advance" /\ exp[p].receipt = None
            BY <1>0, <1>2, <3>2 DEF Observe
        <3>3. CASE op[p] # "Commit" /\ (op[p] = "Reconcile" \/ exp[p].receipt # None)
            <4>1. todo' = [todo EXCEPT ![p] = todo[p]] /\ todo[p] \in SUBSET Ids /\ Goto(p, "receipt")
                BY <1>2, <3>3 DEF Observe, Inv, DirectoryTypeOK
            <4>2. op[p] \in {"Advance", "Reconcile"}
                BY <1>0, <2>1, <3>3 DEF Local, LocalCall, Operations
            <4> QED
                BY <4>1, <4>2
        <3>4. op[p] \in {"Commit", "Advance", "Reconcile"}
            BY <1>0, <2>1 DEF Local, LocalCall, Operations
        <3> QED
            BY <3>1, <3>2, <3>3, <3>4
    <2>3. /\ pc'[p] = l /\ op'[p] = op[p] /\ exp'[p] = exp[p] /\ next'[p] = next[p]
          /\ published'[p] = published[p] /\ tries'[p] = tries[p]
        BY <2>1, <2>2 DEF Inv, DirectoryTypeOK, Goto, outcome
    <2>4. Local(p)'
        BY <1>0, <2>1, <2>2, <2>3 DEF Local, LocalCall, LocalExpected, LocalCommit, LocalPage,
               LocalAdvance, LocalStaged, LocalPublished, LocalTries, Operations
    <2> QED
        BY <2>1, <2>2, <2>4, MoveOf
<1>3. CASE ReadReceipt(p)
    <2>1. pc[p] = "receipt" /\ UNCHANGED <<storeVars, staging>>
        BY <1>3 DEF ReadReceipt, At
    <2>2. CASE Return(p, "Failed") \/ Return(p, "Integrity")
        BY <2>1, <2>2, ReturnOf DEF Results, staging
    <2>3. CASE /\ exp[p].receipt \in files
               /\ todo' = [todo EXCEPT ![p] = Needed(exp[p])]
               /\ Goto(p, "fetch")
               /\ UNCHANGED <<op, exp, next, missing, tries, outcome, locks>>
        <3>1. exp[p].receipt # None
            BY <2>3, StoreAssumption DEF Inv, DirectoryTypeOK, StoreTypeOK
        <3>2. /\ pc'[p] = "fetch" /\ op'[p] = op[p] /\ exp'[p] = exp[p] /\ next'[p] = next[p]
              /\ published'[p] = published[p] /\ tries'[p] = tries[p]
            BY <2>1, <2>3 DEF Inv, DirectoryTypeOK, Goto, outcome
        <3>3. Local(p)'
            BY <1>0, <2>1, <3>1, <3>2 DEF Local, LocalCall, LocalExpected, LocalCommit, LocalPage,
                   LocalAdvance, LocalStaged, LocalPublished, LocalTries, Operations
        <3> QED
            BY <1>0, <2>1, <2>3, <3>3, MoveOf, ZenonT(60)
    <2> QED
        BY <1>3, <2>1, <2>2, <2>3 DEF ReadReceipt
<1>4. CASE Fetch(p)
    <2>1. /\ pc[p] = "fetch"
          /\ UNCHANGED <<storeVars, pc, op, exp, next, tries, outcome, locks, staging>>
        BY <1>4 DEF Fetch, At
    <2>2. PICK x \in todo[p] :
            /\ todo' = [todo EXCEPT ![p] = IF x \in files THEN @ \ {x} ELSE {}]
            /\ missing' = [missing EXCEPT ![p] = x \notin files]
        BY <1>4 DEF Fetch
    <2>3. todo' \in [Procs -> SUBSET Ids]
        BY <2>2 DEF Inv, DirectoryTypeOK
    <2>4. missing' \in [Procs -> BOOLEAN]
        BY <2>2, Zenon DEF Inv, DirectoryTypeOK
    <2>5. DirectoryTypeOK'
        BY <2>1, <2>3, <2>4 DEF Inv, DirectoryTypeOK, StoreTypeOK, storeVars, outcome, locks, staging
    <2>6. StoreInv'
        BY <2>1, StoreStep DEF Inv
    <2>7. LocksOwned'
        BY <2>1 DEF Inv, LocksOwned, locks
    <2>8. \A q \in Procs \ {p} : Frame(q)
        BY <2>1, <2>2 DEF Inv, DirectoryTypeOK, Frame, outcome
    <2>9. Local(p)'
        BY <1>0, <2>1 DEF Local, LocalCall, LocalExpected, LocalCommit, LocalPage,
               LocalAdvance, LocalStaged, LocalPublished, LocalTries, outcome
    <2> QED
        BY <2>1, <2>5, <2>6, <2>7, <2>8, <2>9, StepOf DEF storeVars, staging
<1>5. CASE Recheck(p)
    <2>1. pc[p] = "fetch" /\ UNCHANGED <<storeVars, staging>>
        BY <1>5 DEF Recheck, At
    <2>2. CASE head # exp[p] \/ missing[p] \/ op[p] = "Read"
        BY <1>5, <2>1, <2>2, ReturnOf DEF Recheck, Results, staging
    <2>3. CASE ~(head # exp[p] \/ missing[p] \/ op[p] = "Read")
        <3> DEFINE T == IF op[p] = "Commit" THEN Needed(next[p]) \ Needed(exp[p]) ELSE {}
        <3>1. /\ todo' = [todo EXCEPT ![p] = T] /\ Goto(p, "claim_objects")
              /\ UNCHANGED <<op, exp, next, missing, tries, outcome, locks>>
            BY <1>5, <2>3 DEF Recheck
        <3>2. T \subseteq Objects
            <4>1. ASSUME op[p] = "Commit" PROVE Needed(next[p]) \subseteq Objects
                <5>1. PICK m \in Manifests : next[p] = CommitHead(exp[p], m)
                    BY <1>0, <2>1, <4>1 DEF Local, LocalCommit
                <5>2. exp[p] \in StoreHead
                    BY DEF Inv, DirectoryTypeOK
                <5> QED
                    BY <5>1, <5>2, CommitHeadFacts, StoreAssumption
            <4> QED
                BY <4>1
        <3>3. /\ pc'[p] = "claim_objects" /\ op'[p] = op[p] /\ exp'[p] = exp[p] /\ next'[p] = next[p]
              /\ published'[p] = published[p] /\ tries'[p] = tries[p] /\ todo'[p] = T
            BY <3>1 DEF Inv, DirectoryTypeOK, Goto, outcome
        <3>4. LocalCommit(p)'
            BY <1>0, <2>1, <3>2, <3>3 DEF Local, LocalCommit, Needed
        <3>5. Local(p)'
            BY <1>0, <2>1, <2>3, <3>3, <3>4 DEF Local, LocalCall, LocalExpected, LocalPage,
                   LocalAdvance, LocalStaged, LocalPublished, LocalTries, Operations
        <3>6. T \in SUBSET Ids
            BY <3>2 DEF Ids
        <3> HIDE DEF T
        <3> QED
            BY <2>1, <3>1, <3>5, <3>6, MoveOf
    <2> QED
        BY <2>2, <2>3
<1> QED
    BY <1>1, <1>2, <1>3, <1>4, <1>5 DEF ObserveRead, Observe, ReadReceipt, Fetch, Recheck

-------------------------------------------------------------------------------
(* Taking and leaving the locks.                                           *)

LEMMA LockOf ==
    ASSUME Inv, NEW p \in Procs,
           ClaimObjects(p) \/ ClaimSweep(p) \/ ClaimHead(p) \/ SweepPageDone(p)
    PROVE  Inv' /\ UNCHANGED storeVars
<1> USE DEF ObjectLabels, HeadLabels, PageLabels, PublishLabels, LoadLabels
<1>0. /\ Local(p) /\ UNCHANGED <<storeVars, locals, outcome, staging>>
    BY DEF Inv, ClaimObjects, ClaimSweep, ClaimHead, SweepPageDone
<1>1. PICK l \in Labels :
        /\ Goto(p, l)
        /\ \/ pc[p] = "claim_objects" /\ l = "tidy" /\ op[p] # "Reconcile"
           \/ pc[p] = "claim_objects" /\ l = "inspect" /\ op[p] = "Reconcile"
           \/ pc[p] = "claim_sweep" /\ l = "authorize"
           \/ pc[p] = "claim_head" /\ l = "stage"
           \/ pc[p] = "sweep_page" /\ l = "release" /\ op[p] = "Reconcile"
           \/ pc[p] = "sweep_page" /\ l = "scan" /\ op[p] = "Advance"
        /\ IF pc[p] = "claim_objects" THEN objLock = None /\ objLock' = p ELSE UNCHANGED objLock
        /\ IF pc[p] \in {"claim_sweep", "claim_head"} THEN headLock = None /\ headLock' = p
           ELSE IF l = "scan" THEN headLock' = Released(headLock, p) ELSE UNCHANGED headLock
    <2>1. CASE ClaimObjects(p)
        BY <2>1 DEF ClaimObjects, At, Labels
    <2>2. CASE ClaimSweep(p)
        BY <2>2 DEF ClaimSweep, At, Labels
    <2>3. CASE ClaimHead(p)
        BY <2>3 DEF ClaimHead, At, Labels
    <2>4. CASE SweepPageDone(p)
        BY <2>4 DEF SweepPageDone, At, Labels
    <2> QED
        BY <2>1, <2>2, <2>3, <2>4
<1>2. DirectoryTypeOK'
    BY <1>0, <1>1 DEF Inv, DirectoryTypeOK, StoreTypeOK, Goto, storeVars, locals, outcome, staging, Released
<1>3. LocksOwned'
    BY <1>1, DirectoryAssumption DEF Inv, DirectoryTypeOK, LocksOwned, Goto, Released
<1>4. \A q \in Procs \ {p} : Frame(q)
    BY <1>0, <1>1 DEF Inv, DirectoryTypeOK, Goto, Frame, locals, outcome
<1>5. Local(p)'
    <2>1. /\ pc'[p] = l /\ op'[p] = op[p] /\ exp'[p] = exp[p] /\ next'[p] = next[p]
          /\ published'[p] = published[p] /\ tries'[p] = tries[p] /\ todo'[p] = todo[p]
          /\ head' = head /\ files' = files /\ content' = content
        BY <1>0, <1>1 DEF Inv, DirectoryTypeOK, Goto, locals, outcome, storeVars
    <2>2. LocalCall(p)' /\ LocalExpected(p)' /\ LocalPublished(p)' /\ LocalTries(p)' /\ LocalStaged(p)'
        BY <1>0, <1>1, <2>1 DEF Local, LocalCall, LocalExpected, LocalPublished, LocalTries, LocalStaged, Operations
    <2>3. LocalPage(p)'
        BY <1>0, <1>1, <2>1 DEF Local, LocalPage
    <2>4. LocalCommit(p)'
        BY <1>0, <1>1, <2>1 DEF Local, LocalCommit, Needed
    <2>5. LocalAdvance(p)'
        BY <1>0, <1>1, <2>1 DEF Local, LocalAdvance, PageLegal, Needed
    <2> QED
        BY <2>2, <2>3, <2>4, <2>5 DEF Local
<1>6. StoreInv'
    BY <1>0, StoreStep DEF Inv
<1>7. UNCHANGED <<head, files, content>> /\ UNCHANGED stagedHead
    BY <1>0 DEF storeVars, staging
<1>8. Inv'
    BY <1>2, <1>3, <1>4, <1>5, <1>6, <1>7, StepOf
<1> QED
    BY <1>0, <1>8

-------------------------------------------------------------------------------
(* The steps under a lock that leave the shared files as they are.         *)

LEMMA TidyOf ==
    ASSUME Inv, NEW p \in Procs, Tidy(p)
    PROVE  Inv' /\ UNCHANGED storeVars
<1> USE DEF ObjectLabels, HeadLabels, PageLabels, PublishLabels, LoadLabels
<1>0. /\ Local(p) /\ pc[p] = "tidy" /\ op[p] \in {"Commit", "Advance"}
      /\ UNCHANGED <<storeVars, locals, outcome, locks, stagedHead>> /\ stagedObjects' = {}
    BY DEF Inv, Tidy, At, Local, LocalCall
<1>1. PICK l \in {"write", "inspect"} : Goto(p, l) /\ (l = "write" <=> op[p] = "Commit")
    BY DEF Tidy
<1>2. DirectoryTypeOK'
    BY <1>0, <1>1 DEF Inv, DirectoryTypeOK, StoreTypeOK, Goto, storeVars, locals, outcome, locks, Labels
<1>3. LocksOwned'
    BY <1>0, <1>1 DEF Inv, DirectoryTypeOK, LocksOwned, Goto, locks
<1>4. \A q \in Procs \ {p} : Frame(q)
    BY <1>0, <1>1 DEF Inv, DirectoryTypeOK, Goto, Frame, locals, outcome
<1>5. Local(p)'
    <2>1. /\ pc'[p] = l /\ op'[p] = op[p] /\ exp'[p] = exp[p] /\ next'[p] = next[p]
          /\ published'[p] = published[p] /\ tries'[p] = tries[p] /\ todo'[p] = todo[p]
          /\ head' = head /\ files' = files /\ content' = content
        BY <1>0, <1>1 DEF Inv, DirectoryTypeOK, Goto, locals, outcome, storeVars
    <2>2. LocalCommit(p)'
        BY <1>0, <1>1, <2>1 DEF Local, LocalCommit, Needed
    <2> QED
        BY <1>0, <1>1, <2>1, <2>2 DEF Local, LocalCall, LocalExpected, LocalPublished, LocalTries,
           LocalStaged, LocalPage, LocalAdvance
<1>6. StoreInv'
    BY <1>0, StoreStep DEF Inv
<1>7. UNCHANGED <<head, files, content>>
    BY <1>0 DEF storeVars
<1>8. Inv'
    BY <1>0, <1>2, <1>3, <1>4, <1>5, <1>6, <1>7, StepOf
<1> QED
    BY <1>0, <1>8

(* The local state of p after a step that moves it to l with todo set T.   *)
Arrived(p, l, T) ==
    /\ pc'[p] = l /\ op'[p] = op[p] /\ exp'[p] = exp[p] /\ next'[p] = next[p]
    /\ published'[p] = published[p] /\ tries'[p] = tries[p] /\ todo'[p] = T

LEMMA WriteOf ==
    ASSUME Inv, NEW p \in Procs, Write(p)
    PROVE  Inv' /\ UNCHANGED storeVars
<1> USE DEF ObjectLabels, HeadLabels, PageLabels, PublishLabels, LoadLabels
<1>0. /\ Local(p) /\ pc[p] = "write" /\ op[p] \in {"Commit", "Advance"}
      /\ UNCHANGED <<storeVars, op, exp, next, missing, tries, outcome, locks, stagedHead>>
    BY DEF Inv, Write, At, Local, LocalCall
<1>1. PICK x \in todo[p], l \in {"write", "link"}, T \in SUBSET Ids :
        /\ pc' = [pc EXCEPT ![p] = l] /\ todo' = [todo EXCEPT ![p] = T]
        /\ T = todo[p] \/ (T = todo[p] \ {x} /\ x \in files)
        /\ stagedObjects' \in {stagedObjects, stagedObjects \cup {<<p, x>>}}
    <2>1. PICK x \in todo[p] :
            IF x \in files
            THEN todo' = [todo EXCEPT ![p] = @ \ {x}] /\ UNCHANGED <<pc, stagedObjects>>
            ELSE /\ stagedObjects' = stagedObjects \cup {<<p, x>>}
                 /\ Goto(p, "link") /\ UNCHANGED todo
        BY DEF Write
    <2>2. CASE x \in files
        <3>1. pc' = [pc EXCEPT ![p] = "write"] /\ todo' = [todo EXCEPT ![p] = todo[p] \ {x}]
            BY <1>0, <2>1, <2>2 DEF Inv, DirectoryTypeOK
        <3>2. todo[p] \ {x} \in SUBSET Ids
            BY DEF Inv, DirectoryTypeOK
        <3> QED
            BY <2>1, <2>2, <3>1, <3>2
    <2>3. CASE x \notin files
        <3>1. pc' = [pc EXCEPT ![p] = "link"] /\ todo' = [todo EXCEPT ![p] = todo[p]]
            BY <2>1, <2>3 DEF Inv, DirectoryTypeOK, Goto
        <3>2. todo[p] \in SUBSET Ids
            BY DEF Inv, DirectoryTypeOK
        <3> QED
            BY <2>1, <2>3, <3>1, <3>2
    <2> QED
        BY <2>2, <2>3
<1>2. DirectoryTypeOK'
    <2>1. stagedObjects' \subseteq Procs \X Ids
        BY <1>1 DEF Inv, DirectoryTypeOK
    <2> QED
        BY <1>0, <1>1, <2>1 DEF Inv, DirectoryTypeOK, StoreTypeOK, storeVars, outcome, locks, Labels
<1>3. LocksOwned'
    BY <1>0, <1>1 DEF Inv, DirectoryTypeOK, LocksOwned, locks
<1>4. (\A q \in Procs \ {p} : Frame(q)) /\ Arrived(p, l, T)
    BY <1>0, <1>1 DEF Inv, DirectoryTypeOK, Frame, Arrived, outcome
<1>5. Local(p)'
    <2>1. UNCHANGED <<head, files, content>>
        BY <1>0 DEF storeVars
    <2>2. LocalCommit(p)'
        BY <1>0, <1>1, <1>4, <2>1 DEF Local, LocalCommit, Needed, Arrived
    <2>3. LocalAdvance(p)'
        BY <1>0, <1>1, <1>4, <2>1 DEF Local, LocalAdvance, Arrived
    <2> QED
        BY <1>0, <1>1, <1>4, <2>1, <2>2, <2>3 DEF Local, LocalCall, LocalExpected, LocalPublished,
           LocalTries, LocalStaged, LocalPage, Arrived
<1>6. StoreInv'
    BY <1>0, StoreStep DEF Inv
<1>7. UNCHANGED <<head, files, content>>
    BY <1>0 DEF storeVars
<1>8. Inv'
    BY <1>0, <1>2, <1>3, <1>4, <1>5, <1>6, <1>7, StepOf
<1> QED
    BY <1>0, <1>8

LEMMA WriteDoneOf ==
    ASSUME Inv, NEW p \in Procs, WriteDone(p)
    PROVE  Inv' /\ UNCHANGED storeVars
<1> USE DEF ObjectLabels, HeadLabels, PageLabels, PublishLabels, LoadLabels
<1>0. /\ Local(p) /\ pc[p] = "write" /\ todo[p] = {} /\ op[p] \in {"Commit", "Advance"}
      /\ UNCHANGED <<storeVars, staging>>
    BY DEF Inv, WriteDone, At, Local, LocalCall
<1>1. CASE op[p] = "Advance" /\ ~PageLegal(exp[p], next[p].receipt)
    BY <1>0, <1>1, ReturnOf DEF WriteDone, Results, staging
<1>2. CASE ~(op[p] = "Advance" /\ ~PageLegal(exp[p], next[p].receipt))
    <2> DEFINE T == IF op[p] = "Advance" THEN Located(next[p].receipt) ELSE {}
    <2>1. /\ todo' = [todo EXCEPT ![p] = T] /\ Goto(p, "claim_head")
          /\ UNCHANGED <<op, exp, next, missing, tries, outcome, locks>>
        BY <1>2 DEF WriteDone
    <2>2. T \in SUBSET Ids
        BY DEF Located, Inv, DirectoryTypeOK, StoreTypeOK
    <2>3. op[p] = "Advance" => T \subseteq content[next[p].receipt].ids
        BY DEF Located
    <2> HIDE DEF T
    <2>4. Arrived(p, "claim_head", T) /\ UNCHANGED <<head, files, content>>
        BY <1>0, <2>1 DEF Inv, DirectoryTypeOK, Goto, outcome, Arrived, storeVars
    <2>5. LocalCommit(p)'
        BY <1>0, <2>4 DEF Local, LocalCommit, Needed, Arrived
    <2>6. LocalAdvance(p)'
        BY <1>0, <1>2, <2>3, <2>4 DEF Local, LocalAdvance, PageLegal, Needed, Arrived
    <2>7. Local(p)'
        BY <1>0, <2>4, <2>5, <2>6 DEF Local, LocalCall, LocalExpected, LocalPublished,
           LocalTries, LocalStaged, LocalPage, Arrived
    <2>8. Inv'
        BY <1>0, <2>1, <2>2, <2>7, MoveOf DEF Labels
    <2> QED
        BY <1>0, <2>8
<1> QED
    BY <1>0, <1>1, <1>2

LEMMA InspectOf ==
    ASSUME Inv, NEW p \in Procs, Inspect(p)
    PROVE  Inv' /\ UNCHANGED storeVars
<1> USE DEF ObjectLabels, HeadLabels, PageLabels, PublishLabels, LoadLabels
<1>0. /\ Local(p) /\ pc[p] = "inspect" /\ op[p] \in {"Advance", "Reconcile"} /\ head = exp[p]
      /\ UNCHANGED <<storeVars, staging>>
    BY DEF Inv, Inspect, At, Local, LocalCall
<1>1. CASE Return(p, "Integrity")
    BY <1>0, <1>1, ReturnOf DEF Results, staging
<1>2. ASSUME NEW l \in {"scan", "claim_sweep"}, NEW T \in SUBSET Ids,
             Goto(p, l), todo' = [todo EXCEPT ![p] = T],
             UNCHANGED <<op, exp, next, missing, tries, outcome, locks>>,
             l = "scan" => exp[p].receipt = None,
             l = "claim_sweep" => exp[p].receipt # None /\ T \subseteq content[exp[p].receipt].ids
      PROVE  Inv'
    <2>1. Arrived(p, l, T) /\ UNCHANGED <<head, files, content>>
        BY <1>0, <1>2 DEF Inv, DirectoryTypeOK, Goto, outcome, Arrived, storeVars
    <2>2. l = "scan" => op[p] = "Advance"
        BY <1>0, <1>2 DEF Local, LocalExpected
    <2>3. Local(p)'
        BY <1>0, <1>2, <2>1, <2>2 DEF Local, LocalCall, LocalExpected, LocalPublished, LocalCommit,
           LocalAdvance, LocalTries, LocalStaged, LocalPage, Arrived
    <2> QED
        BY <1>0, <1>2, <2>3, MoveOf, ZenonT(60) DEF Labels
<1>3. CASE exp[p].receipt = None /\ Goto(p, "scan") /\ UNCHANGED <<locals, outcome, locks>>
    <2>1. todo' = [todo EXCEPT ![p] = todo[p]] /\ todo[p] \in SUBSET Ids
        BY <1>3 DEF Inv, DirectoryTypeOK, locals
    <2>2. UNCHANGED <<op, exp, next, missing, tries, outcome, locks>>
        BY <1>3 DEF locals
    <2> QED
        BY <1>0, <1>2, <1>3, <2>1, <2>2
<1>4. CASE /\ exp[p].receipt # None
           /\ todo' = [todo EXCEPT ![p] = Located(exp[p].receipt)]
           /\ Goto(p, "claim_sweep")
           /\ UNCHANGED <<op, exp, next, missing, tries, outcome, locks>>
    <2>1. Located(exp[p].receipt) \in SUBSET Ids
          /\ Located(exp[p].receipt) \subseteq content[exp[p].receipt].ids
        BY DEF Located, Inv, DirectoryTypeOK, StoreTypeOK
    <2> QED
        BY <1>0, <1>2, <1>4, <2>1
<1> QED
    BY <1>0, <1>1, <1>3, <1>4 DEF Inspect

LEMMA AuthorizeOf ==
    ASSUME Inv, NEW p \in Procs, Authorize(p)
    PROVE  Inv' /\ UNCHANGED storeVars
<1> USE DEF ObjectLabels, HeadLabels, PageLabels, PublishLabels, LoadLabels
<1>0. /\ Local(p) /\ pc[p] = "authorize" /\ stagedHead' = NoHead
      /\ UNCHANGED <<storeVars, stagedObjects>>
    BY DEF Inv, Authorize, At
<1>1. CASE Return(p, "Integrity")
    BY <1>0, <1>1, ReturnOf DEF Results
<1>2. CASE Goto(p, "sweep_page") /\ UNCHANGED <<locals, outcome, locks>>
    <2>1. DirectoryTypeOK'
        BY <1>0, <1>2, NoHeadFacts DEF Inv, DirectoryTypeOK, StoreTypeOK, Goto, storeVars, locals, outcome, locks, Labels
    <2>2. LocksOwned'
        BY <1>0, <1>2 DEF Inv, DirectoryTypeOK, LocksOwned, Goto, locks
    <2>3. (\A q \in Procs \ {p} : Frame(q)) /\ Arrived(p, "sweep_page", todo[p])
        BY <1>0, <1>2 DEF Inv, DirectoryTypeOK, Goto, Frame, Arrived, locals, outcome
    <2>4. UNCHANGED <<head, files, content>>
        BY <1>0 DEF storeVars
    <2>5. Local(p)'
        BY <1>0, <2>3, <2>4 DEF Local, LocalCall, LocalExpected, LocalPublished, LocalCommit,
           LocalAdvance, LocalTries, LocalStaged, LocalPage, Arrived
    <2>6. StoreInv'
        BY <1>0, StoreStep DEF Inv
    <2> QED
        BY <1>0, <2>1, <2>2, <2>3, <2>4, <2>5, <2>6, StepOf
<1> QED
    BY <1>0, <1>1, <1>2 DEF Authorize

(* Here a commit learns that its parent is still the head, so what it      *)
(* shares with the parent is still there.                                  *)
LEMMA StageHeadOf ==
    ASSUME Inv, NEW p \in Procs, StageHead(p)
    PROVE  Inv' /\ UNCHANGED storeVars
<1> USE DEF ObjectLabels, HeadLabels, PageLabels, PublishLabels, LoadLabels
<1>0. /\ Local(p) /\ pc[p] = "stage" /\ head = exp[p] /\ op[p] \in {"Commit", "Advance"}
      /\ UNCHANGED <<storeVars, stagedObjects>>
    BY DEF Inv, StageHead, At, Local, LocalCall
<1>1. CASE Return(p, "Integrity") /\ stagedHead' = NoHead
    BY <1>0, <1>1, ReturnOf DEF Results
<1>2. CASE stagedHead' = next[p] /\ Goto(p, "rename") /\ UNCHANGED <<locals, outcome, locks>>
    <2>1. DirectoryTypeOK'
        BY <1>0, <1>2 DEF Inv, DirectoryTypeOK, StoreTypeOK, Goto, storeVars, locals, outcome, locks, Labels
    <2>2. LocksOwned'
        BY <1>0, <1>2 DEF Inv, DirectoryTypeOK, LocksOwned, Goto, locks
    <2>3. (\A q \in Procs \ {p} : Frame(q)) /\ Arrived(p, "rename", todo[p])
        BY <1>0, <1>2 DEF Inv, DirectoryTypeOK, Goto, Frame, Arrived, locals, outcome
    <2>4. UNCHANGED <<head, files, content>>
        BY <1>0 DEF storeVars
    <2>5. Needed(exp[p]) \subseteq files
        BY <1>0 DEF Inv, StoreInv, HeadClosed
    <2>6. LocalCommit(p)'
        BY <1>0, <2>3, <2>4, <2>5 DEF Local, LocalCommit, Needed, Arrived
    <2>7. LocalAdvance(p)'
        BY <1>0, <2>3, <2>4 DEF Local, LocalAdvance, PageLegal, Needed, Arrived
    <2>8. Local(p)'
        BY <1>0, <1>2, <2>3, <2>4, <2>6, <2>7 DEF Local, LocalCall, LocalExpected, LocalPublished,
           LocalTries, LocalStaged, LocalPage, Arrived
    <2>9. StoreInv'
        BY <1>0, StoreStep DEF Inv
    <2> QED
        BY <1>0, <2>1, <2>2, <2>3, <2>4, <2>8, <2>9, StepOf
<1> QED
    BY <1>0, <1>1, <1>2 DEF StageHead

LEMMA SyncOf ==
    ASSUME Inv, NEW p \in Procs, Sync(p) \/ SweepDone(p)
    PROVE  Inv' /\ UNCHANGED storeVars
<1> USE DEF ObjectLabels, HeadLabels, PageLabels, PublishLabels, LoadLabels
<1>0. /\ Local(p) /\ UNCHANGED <<storeVars, locals, outcome, locks, staging>>
    BY DEF Inv, Sync, SweepDone
<1>1. PICK l \in {"release", "sweep"} :
        /\ Goto(p, l) /\ pc[p] \in {"sync", "sweep"} /\ op[p] \in {"Commit", "Advance"}
        /\ l = "sweep" => op[p] = "Advance"
    BY <1>0 DEF Sync, SweepDone, At, Local, LocalCall
<1>2. todo' = [todo EXCEPT ![p] = todo[p]] /\ todo[p] \in SUBSET Ids
    BY <1>0 DEF Inv, DirectoryTypeOK, locals
<1>3. UNCHANGED <<storeVars, op, exp, next, missing, tries, outcome, locks, staging>>
    BY <1>0 DEF locals
<1>4. Arrived(p, l, todo[p]) /\ UNCHANGED <<head, files, content>>
    BY <1>1, <1>2, <1>3 DEF Inv, DirectoryTypeOK, Goto, outcome, Arrived, storeVars
<1>5. Local(p)'
    BY <1>0, <1>1, <1>4 DEF Local, LocalCall, LocalExpected, LocalPublished, LocalCommit,
       LocalAdvance, LocalTries, LocalStaged, LocalPage, Arrived
<1>6. Inv'
    BY <1>1, <1>2, <1>3, <1>5, MoveOf, ZenonT(60) DEF Labels
<1> QED
    BY <1>0, <1>6

-------------------------------------------------------------------------------
(* The steps that the contract sees.                                       *)

LEMMA LinkOf ==
    ASSUME Inv, NEW p \in Procs, Link(p)
    PROVE  Inv' /\ [StoreNext]_storeVars
<1> USE DEF ObjectLabels, HeadLabels, PageLabels, PublishLabels, LoadLabels
<1>0. /\ Local(p) /\ pc[p] = "link" /\ op[p] \in {"Commit", "Advance"} /\ Goto(p, "write")
      /\ UNCHANGED <<head, content, op, exp, next, missing, tries, outcome, locks, stagedHead>>
    BY DEF Inv, Link, At, Local, LocalCall
<1>1. PICK x \in todo[p] :
        /\ files' = files \cup {x} /\ stagedObjects' = stagedObjects \ {<<p, x>>}
        /\ todo' = [todo EXCEPT ![p] = @ \ {x}]
    BY DEF Link
<1>2. x \in Ids
    BY DEF Inv, DirectoryTypeOK
<1>3. x \in Receipts => content[x] # NoContent
    <2>1. CASE op[p] = "Commit"
        BY <1>0, <2>1, StoreAssumption DEF Local, LocalCommit
    <2>2. CASE op[p] = "Advance"
        <3>1. x = next[p].receipt /\ content[x].parent = exp[p] /\ exp[p] # NoHead
            BY <1>0, <2>2 DEF Local, LocalAdvance, LocalExpected
        <3> QED
            BY <3>1, NoHeadFacts
    <2> QED
        BY <1>0, <2>1, <2>2
<1>4. Stage(x)
    BY <1>0, <1>1, <1>3 DEF Stage
<1>5. [StoreNext]_storeVars
    BY <1>2, <1>4 DEF StoreNext
<1>6. StoreInv'
    BY <1>5, StoreStep DEF Inv
<1>7. DirectoryTypeOK'
    <2>1. StoreTypeOK'
        BY <1>6 DEF StoreInv
    <2>2. stagedObjects' \subseteq Procs \X Ids
        BY <1>1 DEF Inv, DirectoryTypeOK
    <2> QED
        BY <1>0, <1>1, <2>1, <2>2 DEF Inv, DirectoryTypeOK, Goto, outcome, locks, Labels
<1>8. LocksOwned'
    BY <1>0 DEF Inv, DirectoryTypeOK, LocksOwned, Goto, locks
<1>9. (\A q \in Procs \ {p} : Frame(q)) /\ Arrived(p, "write", todo[p] \ {x})
    BY <1>0, <1>1 DEF Inv, DirectoryTypeOK, Goto, Frame, Arrived, outcome
<1>10. Local(p)'
    <2>1. LocalCommit(p)'
        BY <1>0, <1>1, <1>9 DEF Local, LocalCommit, Needed, Arrived
    <2>2. LocalAdvance(p)'
        BY <1>0, <1>1, <1>9 DEF Local, LocalAdvance, Arrived
    <2> QED
        BY <1>0, <1>9, <2>1, <2>2 DEF Local, LocalCall, LocalExpected, LocalPublished, LocalTries,
           LocalStaged, LocalPage, Arrived
<1>11. Inv'
    BY <1>0, <1>6, <1>7, <1>8, <1>9, <1>10, StepOf
<1> QED
    BY <1>5, <1>11

(* A sweep deletes what the receipt the head pins authorizes.              *)
LEMMA SweepFileOf ==
    ASSUME Inv, NEW p \in Procs, SweepFile(p)
    PROVE  Inv' /\ [StoreNext]_storeVars
<1> USE DEF ObjectLabels, HeadLabels, PageLabels, PublishLabels, LoadLabels
<1>0. /\ Local(p) /\ pc[p] \in {"sweep_page", "sweep"}
      /\ UNCHANGED <<head, content, pc, op, exp, next, missing, tries, outcome, locks, staging>>
    BY DEF Inv, SweepFile
<1>1. PICK x \in todo[p] : files' = files \ {x} /\ todo' = [todo EXCEPT ![p] = @ \ {x}]
    BY DEF SweepFile
<1>2. x \in Ids
    BY DEF Inv, DirectoryTypeOK
<1>3. head.receipt # None /\ todo[p] \subseteq content[head.receipt].ids
    BY <1>0 DEF Local, LocalCall, LocalPage, LocalAdvance
<1>4. Sweep(x)
    BY <1>0, <1>1, <1>3 DEF Sweep
<1>5. [StoreNext]_storeVars
    BY <1>2, <1>4 DEF StoreNext
<1>6. StoreInv'
    BY <1>5, StoreStep DEF Inv
<1>7. DirectoryTypeOK'
    <2>1. StoreTypeOK'
        BY <1>6 DEF StoreInv
    <2> QED
        BY <1>0, <1>1, <2>1 DEF Inv, DirectoryTypeOK, outcome, locks, staging
<1>8. LocksOwned'
    BY <1>0 DEF Inv, LocksOwned, locks
<1>9. (\A q \in Procs \ {p} : Frame(q)) /\ Arrived(p, pc[p], todo[p] \ {x})
    BY <1>0, <1>1 DEF Inv, DirectoryTypeOK, Frame, Arrived, outcome
<1>10. Local(p)'
    <2>1. LocalCall(p)' /\ LocalExpected(p)' /\ LocalPublished(p)' /\ LocalTries(p)' /\ LocalStaged(p)'
        BY <1>0, <1>9 DEF Local, LocalCall, LocalExpected, LocalPublished, LocalTries,
           LocalStaged, Arrived
    <2>2. LocalCommit(p)'
        BY <1>0, <1>9 DEF Local, LocalCommit, Arrived
    <2>3. LocalAdvance(p)' /\ LocalPage(p)'
        BY <1>0, <1>9 DEF Local, LocalAdvance, LocalPage, Arrived
    <2> QED
        BY <2>1, <2>2, <2>3 DEF Local
<1>11. Inv'
    BY <1>0, <1>6, <1>7, <1>8, <1>9, <1>10, StepOf DEF staging
<1> QED
    BY <1>5, <1>11

(* A page leaves a natural number of candidates behind.                    *)
LEMMA RemainingIsNat ==
    ASSUME NEW C \in SUBSET Ids, NEW page \in SUBSET C
    PROVE  Cardinality(C) - Cardinality(page) \in Nat
<1>1. IsFiniteSet(C)
    BY DirectoryAssumption, FS_Subset
<1>2. IsFiniteSet(page) /\ Cardinality(page) <= Cardinality(C)
    BY <1>1, FS_Subset
<1>3. Cardinality(C) \in Nat /\ Cardinality(page) \in Nat
    BY <1>1, <1>2, FS_CardinalityType
<1> QED
    BY <1>2, <1>3

LEMMA ScanOf ==
    ASSUME Inv, NEW p \in Procs, Scan(p)
    PROVE  Inv' /\ [StoreNext]_storeVars
<1> USE DEF ObjectLabels, HeadLabels, PageLabels, PublishLabels, LoadLabels
<1> DEFINE C == files \ Needed(exp[p])
<1>0. /\ Local(p) /\ pc[p] = "scan" /\ op[p] = "Advance" /\ head = exp[p]
      /\ exp[p] # NoHead /\ exp[p].gc < MaxGc /\ exp[p] \in StoreHead
      /\ UNCHANGED <<head, files, staging>>
    BY DEF Inv, Scan, At, Local, LocalCall, LocalPage, LocalExpected, DirectoryTypeOK
<1>1. CASE Return(p, "Integrity") /\ UNCHANGED content
    BY <1>0, <1>1, ReturnOf DEF Results, staging, storeVars
<1>2. ASSUME NEW page \in Pages(C, Pinned(exp[p])), NEW r \in Receipts, NEW c,
             c = [parent |-> exp[p], ids |-> page,
                  remaining |-> Cardinality(C) - Cardinality(page)],
             DigestOf(r, c), content' = [content EXCEPT ![r] = c],
             next' = [next EXCEPT ![p] = ReclaimHead(exp[p], r)],
             todo' = [todo EXCEPT ![p] = {r}], Goto(p, "write"),
             UNCHANGED <<op, exp, missing, tries, outcome, locks>>
      PROVE  Inv' /\ [StoreNext]_storeVars
    <2>1. C \in SUBSET Ids /\ page \in SUBSET C
        BY <1>2 DEF Pages, Inv, DirectoryTypeOK, StoreTypeOK
    <2>2. c \in GcReceipt /\ c.parent = exp[p]
        <3>1. Cardinality(C) - Cardinality(page) \in Nat
            BY <2>1, RemainingIsNat
        <3>2. page \in SUBSET Ids
            BY <2>1
        <3> HIDE DEF C
        <3> QED
            BY <1>0, <1>2, <3>1, <3>2 DEF GcReceipt
    <2>3. content'[r] = c
        BY <1>2 DEF Inv, DirectoryTypeOK, StoreTypeOK
    <2>4. [StoreNext]_storeVars
        <3>1. CASE content[r] = c
            BY <1>0, <1>2, <3>1 DEF storeVars, Inv, DirectoryTypeOK, StoreTypeOK
        <3>2. CASE content[r] = NoContent
            <4>1. Describe(r)
                BY <1>0, <1>2, <2>2, <2>3, <3>2 DEF Describe
            <4> QED
                BY <4>1 DEF StoreNext
        <3> QED
            BY <1>2, <3>1, <3>2 DEF DigestOf
    <2>5. StoreInv'
        BY <2>4, StoreStep DEF Inv
    <2>6. ReclaimHead(exp[p], r) \in StoreHead
        BY <1>0, <1>2, StoreAssumption DEF ReclaimHead, StoreHead
    <2>7. DirectoryTypeOK'
        <3>1. StoreTypeOK'
            BY <2>5 DEF StoreInv
        <3>2. {r} \in SUBSET Ids
            BY <1>2 DEF Ids
        <3> QED
            BY <1>0, <1>2, <2>6, <3>1, <3>2 DEF Inv, DirectoryTypeOK, Goto, outcome, locks, staging, Labels
    <2>8. LocksOwned'
        BY <1>0, <1>2 DEF Inv, DirectoryTypeOK, LocksOwned, Goto, locks
    <2>9. /\ \A q \in Procs \ {p} : Frame(q)
          /\ pc'[p] = "write" /\ op'[p] = op[p] /\ exp'[p] = exp[p]
          /\ next'[p] = ReclaimHead(exp[p], r) /\ todo'[p] = {r}
          /\ published'[p] = published[p] /\ tries'[p] = tries[p]
        BY <1>0, <1>2 DEF Inv, DirectoryTypeOK, Goto, Frame, outcome
    <2>10. Local(p)'
        <3>1. ReclaimHead(exp[p], r).receipt = r
            BY DEF ReclaimHead
        <3>2. LocalAdvance(p)'
            BY <1>0, <2>2, <2>3, <2>9, <3>1 DEF LocalAdvance
        <3> QED
            BY <1>0, <2>9, <3>2 DEF Local, LocalCall, LocalExpected, LocalPublished, LocalTries,
               LocalStaged, LocalPage, LocalCommit
    <2>11. Inv'
        BY <1>0, <2>5, <2>7, <2>8, <2>9, <2>10, StepOf DEF staging
    <2> QED
        BY <2>4, <2>11
<1>3. CASE Pinned(exp[p]) \subseteq C
    <2>1. PICK page \in Pages(C, Pinned(exp[p])), r \in Receipts :
            LET c == [parent |-> exp[p], ids |-> page,
                      remaining |-> Cardinality(C) - Cardinality(page)]
            IN  /\ DigestOf(r, c)
                /\ content' = [content EXCEPT ![r] = c]
                /\ next' = [next EXCEPT ![p] = ReclaimHead(exp[p], r)]
                /\ todo' = [todo EXCEPT ![p] = {r}]
                /\ Goto(p, "write")
                /\ UNCHANGED <<op, exp, missing, tries, outcome, locks>>
        BY <1>3 DEF Scan
    <2> HIDE DEF C
    <2> QED
        BY <1>2, <2>1
<1>4. CASE ~(Pinned(exp[p]) \subseteq C)
    <2>1. Return(p, "Integrity") /\ UNCHANGED content
        BY <1>4 DEF Scan
    <2>2. UNCHANGED storeVars
        BY <1>0, <2>1 DEF storeVars
    <2> QED
        BY <1>1, <2>1, <2>2
<1> QED
    BY <1>3, <1>4

(* The rename is the step of the contract: a commit of a complete closure, *)
(* or the pinning of a receipt described for this very head.               *)
LEMMA RenameOf ==
    ASSUME Inv, NEW p \in Procs, Rename(p)
    PROVE  Inv' /\ [StoreNext]_storeVars
<1> USE DEF ObjectLabels, HeadLabels, PageLabels, PublishLabels, LoadLabels
<1>0. /\ Local(p) /\ pc[p] = "rename" /\ op[p] \in {"Commit", "Advance"}
      /\ head' = next[p] /\ head = exp[p] /\ stagedHead' = NoHead
      /\ published' = [published EXCEPT ![p] = TRUE] /\ Goto(p, "sync")
      /\ next[p] \in StoreHead /\ head \in StoreHead
      /\ UNCHANGED <<files, content, locals, result, locks, stagedObjects>>
    BY DEF Inv, Rename, At, Local, LocalCall, LocalStaged, LocalCommit, LocalAdvance,
           DirectoryTypeOK
<1>1. ASSUME op[p] = "Commit"
      PROVE  \E m \in Manifests : Commit(m)
    <2>1. PICK m \in Manifests : next[p] = CommitHead(head, m)
        BY <1>0, <1>1 DEF Local, LocalCommit
    <2>2. Closure[m] \subseteq files
        BY <1>0, <1>1, <2>1, CommitHeadFacts DEF Local, LocalCommit
    <2> QED
        BY <1>0, <2>1, <2>2 DEF Commit
<1>2. ASSUME op[p] = "Advance"
      PROVE  /\ next[p].receipt \in Receipts /\ Advance(next[p].receipt)
             /\ todo[p] \subseteq content[next[p].receipt].ids
    BY <1>0, <1>2 DEF Local, LocalAdvance, LocalExpected, PageLegal, Advance
<1>3. [StoreNext]_storeVars
    BY <1>0, <1>1, <1>2 DEF StoreNext
<1>4. StoreInv'
    BY <1>3, StoreStep DEF Inv
<1>5. DirectoryTypeOK'
    <2>1. StoreTypeOK'
        BY <1>4 DEF StoreInv
    <2>2. published' \in [Procs -> BOOLEAN]
        BY <1>0, Zenon DEF Inv, DirectoryTypeOK
    <2> QED
        BY <1>0, <2>1, <2>2, NoHeadFacts DEF Inv, DirectoryTypeOK, Goto, locals, locks, Labels
<1>6. LocksOwned'
    BY <1>0 DEF Inv, DirectoryTypeOK, LocksOwned, Goto, locks
<1>7. /\ \A q \in Procs \ {p} : Frame(q)
      /\ pc'[p] = "sync" /\ op'[p] = op[p] /\ exp'[p] = exp[p] /\ todo'[p] = todo[p]
      /\ tries'[p] = tries[p]
    BY <1>0 DEF Inv, DirectoryTypeOK, Goto, Frame, locals
<1>8. Local(p)'
    <2>1. LocalAdvance(p)'
        <3>1. op[p] = "Advance" => next[p].receipt # None
            BY <1>2, StoreAssumption DEF Ids
        <3> QED
            BY <1>0, <1>2, <1>7, <3>1 DEF LocalAdvance
    <2> QED
        BY <1>0, <1>7, <2>1 DEF Local, LocalCall, LocalExpected, LocalPublished, LocalTries,
           LocalStaged, LocalPage, LocalCommit
<1>9. Inv'
    BY <1>0, <1>4, <1>5, <1>6, <1>7, <1>8, StepOf
<1> QED
    BY <1>3, <1>9

-------------------------------------------------------------------------------

LEMMA NextStep == Inv /\ [Next]_vars => Inv' /\ [StoreNext]_storeVars
<1> SUFFICES ASSUME Inv, [Next]_vars PROVE Inv' /\ [StoreNext]_storeVars
    OBVIOUS
<1>1. ASSUME NEW p \in Procs, Start(p) \/ Step(p) \/ Fail(p) \/ Crash(p)
      PROVE  Inv' /\ [StoreNext]_storeVars
    <2>1. CASE Start(p)
        <3>1. UNCHANGED storeVars
            BY <2>1 DEF Start, StartLoad, StartRead, StartAdvance, StartReconcile, StartCommit, Begin
        <3> QED
            BY <2>1, <3>1, StartOf
    <2>2. CASE \/ LoadClaimObjects(p) \/ LoadClean(p) \/ LoadClaimHead(p) \/ LoadTidy(p)
               \/ LoadRead(p) \/ LoadVerify(p)
        <3>1. UNCHANGED storeVars
            BY <2>2 DEF LoadClaimObjects, LoadClean, LoadClaimHead, LoadTidy, LoadRead, LoadVerify
        <3> QED
            BY <2>2, <3>1, LoadOf
    <2>3. CASE LockBusy(p) \/ HeadMoved(p) \/ Release(p) \/ Fail(p) \/ Crash(p)
        BY <2>3, EndOf
    <2>4. CASE ObserveRead(p) \/ Observe(p) \/ ReadReceipt(p) \/ Fetch(p) \/ Recheck(p)
        BY <2>4, LookOf
    <2>5. CASE ClaimObjects(p) \/ ClaimSweep(p) \/ ClaimHead(p) \/ SweepPageDone(p)
        BY <2>5, LockOf
    <2>6. CASE Tidy(p) \/ Write(p) \/ WriteDone(p) \/ Inspect(p)
        BY <2>6, TidyOf, WriteOf, WriteDoneOf, InspectOf
    <2>7. CASE Authorize(p) \/ StageHead(p) \/ Sync(p) \/ SweepDone(p)
        BY <2>7, AuthorizeOf, StageHeadOf, SyncOf
    <2>8. CASE Link(p) \/ SweepFile(p) \/ Scan(p) \/ Rename(p)
        BY <2>8, LinkOf, SweepFileOf, ScanOf, RenameOf
    <2> QED
        BY <1>1, <2>1, <2>2, <2>3, <2>4, <2>5, <2>6, <2>7, <2>8 DEF Step
<1>2. CASE UNCHANGED vars
    <2>1. UNCHANGED storeVars /\ UNCHANGED <<pc, op, exp, next, todo, missing, tries, published,
                 result, objLock, headLock, stagedObjects, stagedHead>>
        BY <1>2 DEF vars, storeVars, locals, outcome, locks, staging
    <2>2. StoreInv'
        BY <2>1, StoreStep DEF Inv
    <2>3. DirectoryTypeOK'
        BY <2>1 DEF Inv, DirectoryTypeOK, StoreTypeOK, storeVars
    <2>4. LocksOwned'
        BY <2>1 DEF Inv, LocksOwned
    <2>5. ASSUME NEW q \in Procs PROVE Local(q)'
        <3>1. Frame(q) /\ Local(q)
            BY <2>1 DEF Frame, Inv
        <3> QED
            BY <2>1, <3>1, LocalFrame DEF storeVars
    <2> QED
        BY <2>1, <2>2, <2>3, <2>4, <2>5 DEF Inv
<1> QED
    BY <1>1, <1>2 DEF Next

THEOREM Invariance == Spec => []Inv
    BY InitInv, NextStep, PTL DEF Spec

(* Type correctness of the adapter's files, locks and per-call state.      *)
THEOREM TypeCorrectness == Spec => []DirectoryTypeOK
<1>1. Inv => DirectoryTypeOK
    BY DEF Inv
<1> QED
    BY <1>1, Invariance, PTL

(* The adapter implements the Store contract: every write, unlink and      *)
(* rename of every process is a step of HeadStore, and nothing else it     *)
(* does, and no failure or death, can be seen there.                       *)
THEOREM Implements == Spec => StoreSpec
<1>1. Init => StoreInit
    BY DEF Init
<1> QED
    BY <1>1, Invariance, NextStep, PTL DEF Spec, StoreSpec

(* The head can be reopened in every state, so after every crash: its      *)
(* closure and its receipt are in the directory.                           *)
THEOREM HeadAlwaysReopens == Spec => []HeadClosed
<1>1. Inv => HeadClosed
    BY DEF Inv, StoreInv
<1> QED
    BY <1>1, Invariance, PTL

-------------------------------------------------------------------------------
(***************************************************************************)
(* The second invariant: what the answers, the sweeps and the staging      *)
(* directory rest on.  Each part is again what one process may rely on     *)
(* while it is at a label.                                                 *)
(***************************************************************************)

(* Heads form one chain: a later head has a higher sequence, or the same   *)
(* one and a higher reclamation sequence, or is the first one.             *)
Precedes(g, h) ==
    \/ g = NoHead /\ h # NoHead
    \/ /\ g # NoHead /\ h # NoHead
       /\ \/ g.sequence < h.sequence
          \/ g.sequence = h.sequence /\ g.gc < h.gc

(* The head a process expects is current or past, never one to come.       *)
Following(p) == exp[p] = head \/ Precedes(exp[p], head)

(* A call under way has no answer yet, and what it could not read was gone *)
(* because the head had moved.                                             *)
Answering(p) ==
    /\ pc[p] = "idle" => op[p] = None
    /\ pc[p] # "idle" => result[p] = None
    /\ missing[p] => pc[p] = "fetch" /\ head # exp[p]
    /\ pc[p] = "fetch" => todo[p] \subseteq Needed(exp[p])

(* After a writer's tidy the staging directory has only its own file.      *)
StagingOf(p) ==
    /\ (\/ pc[p] = "write"
        \/ op[p] = "Advance" /\ pc[p] \in {"inspect", "scan"} \cup PageLabels) =>
          stagedObjects = {}
    /\ pc[p] = "link" => \E x \in todo[p] : stagedObjects = {<<p, x>>}

(* Nothing of the pinned page is left but what the sweep has still to do.  *)
PageLeft(p) ==
    /\ pc[p] \in PageLabels => content[exp[p].receipt].ids \cap files \subseteq todo[p]
    /\ (pc[p] = "release" /\ op[p] = "Reconcile") => content[head.receipt].ids \cap files = {}

(* Nothing but the closure, the new receipt and its page is there when     *)
(* that page is the last one.                                              *)
GenerationLeft(p) ==
    op[p] = "Advance" =>
        /\ (pc[p] \in {"write", "link"} /\ content[next[p].receipt].remaining = 0) =>
              files \subseteq Needed(exp[p]) \cup content[next[p].receipt].ids
                                 \cup {next[p].receipt}
        /\ (pc[p] \in PublishLabels /\ content[next[p].receipt].remaining = 0) =>
              files \subseteq Needed(exp[p]) \cup todo[p] \cup {next[p].receipt}
        /\ (pc[p] \in {"sync", "sweep"} /\ content[head.receipt].remaining = 0) =>
              files \subseteq Needed(head) \cup todo[p] \cup {head.receipt}
        /\ pc[p] = "release" => head.receipt # None
        /\ (pc[p] = "release" /\ content[head.receipt].remaining = 0) =>
              files \subseteq Needed(head) \cup {head.receipt}

Deep(p) ==
    /\ Following(p) /\ Answering(p) /\ StagingOf(p) /\ PageLeft(p) /\ GenerationLeft(p)

DeepInv == \A p \in Procs : Deep(p)

LEMMA PrecedesChain ==
    ASSUME NEW g \in StoreHead, NEW h \in StoreHead, NEW k \in StoreHead, Precedes(h, k)
    PROVE  /\ h # k
           /\ (g = h \/ Precedes(g, h)) => Precedes(g, k) /\ g # k
<1>1. /\ g.sequence \in Nat /\ h.sequence \in Nat /\ k.sequence \in Nat
      /\ g.gc \in Nat /\ h.gc \in Nat /\ k.gc \in Nat
    BY StoreAssumption DEF StoreHead
<1> QED
    BY <1>1 DEF Precedes

(* Every publication goes forward along the chain.                         *)
LEMMA HeadAdvances ==
    ASSUME StoreInv, [StoreNext]_storeVars
    PROVE  head' = head \/ Precedes(head, head')
<1>0. head \in StoreHead /\ head.sequence \in Nat /\ head.gc \in Nat
    BY StoreAssumption DEF StoreInv, StoreTypeOK, StoreHead
<1>1. ASSUME NEW m \in Manifests, Commit(m) PROVE Precedes(head, head')
    <2>1. head' = CommitHead(head, m) /\ CommitHead(head, m) # NoHead
        BY <1>0, <1>1, CommitHeadFacts DEF Commit
    <2>2. head # NoHead => CommitHead(head, m).sequence = head.sequence + 1
        BY DEF CommitHead
    <2> QED
        BY <1>0, <2>1, <2>2 DEF Precedes
<1>2. ASSUME NEW r \in Receipts, Advance(r) PROVE Precedes(head, head')
    <2>1. head' = ReclaimHead(head, r) /\ ReclaimHead(head, r) # NoHead /\ head # NoHead
        BY <1>0, <1>2, ReclaimHeadFacts DEF Advance
    <2>2. /\ ReclaimHead(head, r).sequence = head.sequence
          /\ ReclaimHead(head, r).gc = head.gc + 1
        BY DEF ReclaimHead
    <2> QED
        BY <1>0, <2>1, <2>2 DEF Precedes
<1>3. CASE (\E x \in Ids : Stage(x) \/ Sweep(x)) \/ \E r \in Receipts : Describe(r)
    BY <1>3 DEF Stage, Sweep, Describe
<1>4. CASE UNCHANGED storeVars
    BY <1>4 DEF storeVars
<1> QED
    BY <1>1, <1>2, <1>3, <1>4 DEF StoreNext

(* What another process relies on: its local state and, while it is under  *)
(* objects.lock, the directory.                                            *)
Untouched(q) == Frame(q) /\ missing'[q] = missing[q] /\ result'[q] = result[q]

LEMMA DeepFrame ==
    ASSUME Inv, Inv', [StoreNext]_storeVars, NEW q \in Procs, Deep(q), Untouched(q),
           pc[q] \in ObjectLabels => UNCHANGED <<head, files, content, stagedObjects>>
    PROVE  Deep(q)'
<1>0. head' = head \/ Precedes(head, head')
    BY HeadAdvances DEF Inv
<1>1. head \in StoreHead /\ head' \in StoreHead /\ exp[q] \in StoreHead
    BY DEF Inv, DirectoryTypeOK, StoreTypeOK
<1>2. Following(q)'
    BY <1>0, <1>1, PrecedesChain DEF Deep, Following, Untouched, Frame
<1>3. Answering(q)'
    <2>1. (pc[q] = "idle" => op[q] = None)' /\ (pc[q] # "idle" => result[q] = None)'
        BY DEF Deep, Answering, Untouched, Frame
    <2>2. (pc[q] = "fetch" => todo[q] \subseteq Needed(exp[q]))'
        BY DEF Deep, Answering, Untouched, Frame, Needed
    <2>3. ASSUME missing'[q] PROVE pc'[q] = "fetch" /\ head' # exp'[q]
        <3>1. pc[q] = "fetch" /\ head # exp[q]
            BY <2>3 DEF Deep, Answering, Untouched
        <3>2. Precedes(exp[q], head)
            BY <3>1 DEF Deep, Following
        <3>3. head' # exp[q]
            BY <1>0, <1>1, <3>1, <3>2, PrecedesChain
        <3> QED
            BY <3>1, <3>3 DEF Untouched, Frame
    <2> QED
        BY <2>1, <2>2, <2>3 DEF Answering
<1>4. CASE pc[q] \in ObjectLabels
    <2>1. StagingOf(q)'
        BY <1>4 DEF Deep, StagingOf, Untouched, Frame
    <2>2. PageLeft(q)'
        BY <1>4 DEF Deep, PageLeft, Untouched, Frame
    <2>3. GenerationLeft(q)'
        BY <1>4 DEF Deep, GenerationLeft, Untouched, Frame, Needed
    <2> QED
        BY <1>2, <1>3, <2>1, <2>2, <2>3 DEF Deep
<1>5. CASE pc[q] \notin ObjectLabels
    <2>1. StagingOf(q)' /\ PageLeft(q)' /\ GenerationLeft(q)'
        BY <1>5 DEF StagingOf, PageLeft, GenerationLeft, Untouched, Frame, ObjectLabels,
           PageLabels, PublishLabels
    <2> QED
        BY <1>2, <1>3, <2>1 DEF Deep
<1> QED
    BY <1>4, <1>5

(* So a step of p needs to be looked at for p alone.                       *)
LEMMA DeepOf ==
    ASSUME Inv, Inv', [StoreNext]_storeVars, DeepInv, NEW p \in Procs, Deep(p)',
           \A q \in Procs \ {p} : Untouched(q),
           UNCHANGED <<head, files, content, stagedObjects>> \/ pc[p] \in ObjectLabels
    PROVE  DeepInv'
<1>1. ASSUME NEW q \in Procs, q # p PROVE Deep(q)'
    <2>1. pc[q] \in ObjectLabels => pc[p] \notin ObjectLabels
        BY <1>1 DEF Inv, LocksOwned
    <2>2. Untouched(q) /\ Deep(q)
        BY <1>1 DEF DeepInv
    <2> QED
        BY <2>1, <2>2, DeepFrame
<1> QED
    BY <1>1 DEF DeepInv

(* A process that returns has nothing left to rely on.                     *)
LEMMA DeepReturn ==
    ASSUME Inv, Inv', NEW p \in Procs, NEW o, Return(p, o)
    PROVE  Deep(p)' /\ \A q \in Procs \ {p} : Untouched(q)
<1>1. /\ pc'[p] = "idle" /\ op'[p] = None /\ exp'[p] = NoHead
      /\ ~missing'[p]
    BY DEF Inv, DirectoryTypeOK, Return, Goto
<1>2. Following(p)'
    BY <1>1 DEF Following, Precedes
<1>3. Answering(p)' /\ StagingOf(p)' /\ PageLeft(p)' /\ GenerationLeft(p)'
    BY <1>1 DEF Answering, StagingOf, PageLeft, GenerationLeft, PageLabels, None
<1>4. \A q \in Procs \ {p} : Untouched(q)
    BY DEF Inv, DirectoryTypeOK, Return, Goto, Frame, Untouched
<1> QED
    BY <1>2, <1>3, <1>4 DEF Deep

(* A process that goes on inside its call, having read all it looked for.  *)
LEMMA DeepGoOn ==
    ASSUME Inv, Inv', [StoreNext]_storeVars, NEW p \in Procs, Deep(p),
           pc'[p] \notin {"idle", "fetch"}, result'[p] = None, ~missing'[p],
           exp'[p] \in {exp[p], head'}
    PROVE  Following(p)' /\ Answering(p)'
<1>0. head' = head \/ Precedes(head, head')
    BY HeadAdvances DEF Inv
<1>1. head \in StoreHead /\ head' \in StoreHead /\ exp[p] \in StoreHead
    BY DEF Inv, DirectoryTypeOK, StoreTypeOK
<1>2. Following(p)'
    BY <1>0, <1>1, PrecedesChain DEF Deep, Following
<1>3. Answering(p)'
    BY DEF Answering
<1> QED
    BY <1>2, <1>3

(* Where nothing of the directory is relied on yet.                        *)
LEMMA DeepEarly ==
    ASSUME NEW p \in Procs,
           \/ pc'[p] \in LoadLabels \cup {"observe", "receipt", "fetch", "claim_objects", "tidy"}
           \/ pc'[p] = "inspect" /\ op'[p] # "Advance"
    PROVE  StagingOf(p)' /\ PageLeft(p)' /\ GenerationLeft(p)'
    BY DEF StagingOf, PageLeft, GenerationLeft, LoadLabels, PageLabels, PublishLabels

-------------------------------------------------------------------------------
(* The second invariant, step by step.  Every lemma is told that the first *)
(* one is kept and that the step is one of the contract.                   *)

LEMMA StartDeep ==
    ASSUME Inv, Inv', [StoreNext]_storeVars, DeepInv, NEW p \in Procs, Start(p)
    PROVE  DeepInv'
<1>1. PICK kind, label, h : label \in {"load_objects", "observe"} /\ Begin(p, kind, label, h)
    BY DEF Start, StartLoad, StartRead, StartAdvance, StartReconcile, StartCommit, Operations
<1>2. /\ pc[p] = "idle" /\ pc'[p] = label /\ exp'[p] = head /\ result'[p] = None
      /\ missing'[p] = missing[p] /\ UNCHANGED <<head, files, content, stagedObjects>>
    BY <1>1 DEF Inv, DirectoryTypeOK, Begin, At, Goto, storeVars, staging
<1>3. Deep(p) /\ ~missing[p]
    BY <1>2 DEF DeepInv, Deep, Answering
<1>4. \A q \in Procs \ {p} : Untouched(q)
    BY <1>1 DEF Inv, DirectoryTypeOK, Begin, Goto, Frame, Untouched
<1>5. Following(p)' /\ Answering(p)'
    BY <1>1, <1>2, <1>3, DeepGoOn
<1>6. StagingOf(p)' /\ PageLeft(p)' /\ GenerationLeft(p)'
    BY <1>1, <1>2, DeepEarly DEF LoadLabels
<1> QED
    BY <1>2, <1>4, <1>5, <1>6, DeepOf DEF Deep

(* What holds of p at any of its labels inside a call.                     *)
LEMMA DeepAt ==
    ASSUME DeepInv, NEW p \in Procs, pc[p] \notin {"idle", "fetch"}
    PROVE  Deep(p) /\ ~missing[p] /\ result[p] = None
    BY DEF DeepInv, Deep, Answering

LEMMA LoadDeep ==
    ASSUME Inv, Inv', [StoreNext]_storeVars, DeepInv, NEW p \in Procs,
           \/ LoadClaimObjects(p) \/ LoadClean(p) \/ LoadClaimHead(p) \/ LoadTidy(p)
           \/ LoadRead(p) \/ LoadVerify(p)
    PROVE  DeepInv'
<1> USE DEF At, LoadLabels
<1>1. /\ pc[p] \in LoadLabels /\ UNCHANGED <<head, files, content>>
      /\ UNCHANGED stagedObjects \/ pc[p] \in ObjectLabels
    BY DEF LoadClaimObjects, LoadClean, LoadClaimHead, LoadTidy, LoadRead, LoadVerify, storeVars,
       staging, ObjectLabels
<1>2. Deep(p) /\ ~missing[p] /\ result[p] = None
    BY <1>1, DeepAt
<1>3. ASSUME NEW l \in LoadLabels, Goto(p, l), UNCHANGED <<op, next, todo, missing, outcome>>,
             UNCHANGED exp \/ exp' = [exp EXCEPT ![p] = head],
             UNCHANGED tries \/ tries' = [tries EXCEPT ![p] = @ + 1]
      PROVE  Deep(p)' /\ \A q \in Procs \ {p} : Untouched(q)
    <2>1. /\ pc'[p] = l /\ exp'[p] \in {exp[p], head'} /\ result'[p] = None
          /\ missing'[p] = missing[p]
        BY <1>1, <1>2, <1>3 DEF Inv, DirectoryTypeOK, Goto, outcome
    <2>2. Following(p)' /\ Answering(p)'
        BY <1>2, <2>1, DeepGoOn
    <2>3. StagingOf(p)' /\ PageLeft(p)' /\ GenerationLeft(p)'
        BY <2>1, DeepEarly
    <2>4. \A q \in Procs \ {p} : Untouched(q)
        BY <1>3 DEF Inv, DirectoryTypeOK, Goto, Frame, Untouched, outcome
    <2> QED
        BY <2>2, <2>3, <2>4 DEF Deep
<1>4. Deep(p)' /\ \A q \in Procs \ {p} : Untouched(q)
    <2>1. CASE LoadClaimObjects(p)
        BY <2>1, <1>3 DEF LoadClaimObjects, locals
    <2>2. CASE LoadClean(p)
        BY <2>2, <1>3 DEF LoadClean, locals
    <2>3. CASE LoadClaimHead(p)
        BY <2>3, <1>3 DEF LoadClaimHead, locals
    <2>4. CASE LoadTidy(p)
        BY <2>4, <1>3 DEF LoadTidy, locals
    <2>5. CASE LoadRead(p)
        BY <2>5, <1>3 DEF LoadRead
    <2>6. CASE LoadVerify(p)
        <3>1. CASE Return(p, "Ok") \/ Return(p, "Conflict")
            BY <3>1, DeepReturn
        <3>2. CASE Goto(p, "load_read") /\ UNCHANGED <<locals, outcome, locks>>
            BY <3>2, <1>3 DEF locals
        <3> QED
            BY <2>6, <3>1, <3>2 DEF LoadVerify
    <2> QED
        BY <2>1, <2>2, <2>3, <2>4, <2>5, <2>6
<1> QED
    BY <1>1, <1>4, DeepOf DEF ObjectLabels

(* Refusals, the end of a call, failure and death.                         *)
LEMMA EndDeep ==
    ASSUME Inv, Inv', [StoreNext]_storeVars, DeepInv, NEW p \in Procs,
           LockBusy(p) \/ HeadMoved(p) \/ Release(p) \/ Fail(p) \/ Crash(p)
    PROVE  DeepInv'
<1>1. UNCHANGED <<head, files, content, stagedObjects>> /\ \E o : Return(p, o)
    BY DEF LockBusy, HeadMoved, Release, Fail, Crash, storeVars, staging
<1> QED
    BY <1>1, DeepReturn, DeepOf

LEMMA LookDeep ==
    ASSUME Inv, Inv', [StoreNext]_storeVars, DeepInv, NEW p \in Procs,
           ObserveRead(p) \/ Observe(p) \/ ReadReceipt(p) \/ Fetch(p) \/ Recheck(p)
    PROVE  DeepInv'
<1> USE DEF At
<1>1. /\ UNCHANGED <<head, files, content, stagedObjects>>
      /\ pc[p] \in {"observe", "receipt", "fetch"}
    BY DEF ObserveRead, Observe, ReadReceipt, Fetch, Recheck, storeVars, staging
<1>2. Deep(p) /\ result[p] = None /\ head \in StoreHead /\ exp[p] \in StoreHead /\ Local(p)
    BY <1>1 DEF DeepInv, Deep, Answering, Inv, DirectoryTypeOK, StoreTypeOK
<1>3. ASSUME NEW T, todo' = [todo EXCEPT ![p] = T], Goto(p, "fetch"), ~missing[p],
             UNCHANGED exp \/ exp' = [exp EXCEPT ![p] = head],
             T \subseteq Needed(exp'[p]), UNCHANGED <<op, next, missing, tries, outcome>>
      PROVE  Deep(p)' /\ \A q \in Procs \ {p} : Untouched(q)
    <2>1. /\ pc'[p] = "fetch" /\ todo'[p] = T /\ exp'[p] \in {exp[p], head}
          /\ missing'[p] = missing[p] /\ result'[p] = None
        BY <1>2, <1>3 DEF Inv, DirectoryTypeOK, Goto, outcome
    <2>2. Following(p)'
        BY <1>1, <1>2, <2>1 DEF Deep, Following
    <2>3. Answering(p)'
        <3>1. (todo[p] \subseteq Needed(exp[p]))'
            BY <1>3, <2>1 DEF Needed
        <3> QED
            BY <1>3, <2>1, <3>1 DEF Answering
    <2>4. StagingOf(p)' /\ PageLeft(p)' /\ GenerationLeft(p)'
        BY <2>1, DeepEarly
    <2>5. \A q \in Procs \ {p} : Untouched(q)
        BY <1>3 DEF Inv, DirectoryTypeOK, Goto, Frame, Untouched, outcome
    <2> QED
        BY <2>2, <2>3, <2>4, <2>5 DEF Deep
<1>4. ASSUME NEW l \in {"receipt", "claim_objects"}, Goto(p, l), ~missing[p],
             NEW T, todo' = [todo EXCEPT ![p] = T],
             UNCHANGED <<op, exp, next, missing, tries, outcome>>
      PROVE  Deep(p)' /\ \A q \in Procs \ {p} : Untouched(q)
    <2>1. /\ pc'[p] = l /\ exp'[p] = exp[p] /\ missing'[p] = missing[p] /\ result'[p] = None
        BY <1>2, <1>4 DEF Inv, DirectoryTypeOK, Goto, outcome
    <2>2. Following(p)' /\ Answering(p)'
        BY <1>2, <1>4, <2>1, DeepGoOn
    <2>3. StagingOf(p)' /\ PageLeft(p)' /\ GenerationLeft(p)'
        BY <2>1, DeepEarly
    <2>4. \A q \in Procs \ {p} : Untouched(q)
        BY <1>4 DEF Inv, DirectoryTypeOK, Goto, Frame, Untouched, outcome
    <2> QED
        BY <2>2, <2>3, <2>4 DEF Deep
<1> SUFFICES Deep(p)' /\ \A q \in Procs \ {p} : Untouched(q)
    BY <1>1, DeepOf
<1>5. CASE ObserveRead(p)
    <2>1. ~missing[p]
        BY <1>5, DeepAt DEF ObserveRead
    <2>2. CASE head.manifest # exp[p].manifest
        BY <1>5, <2>2, DeepReturn DEF ObserveRead
    <2>3. CASE head.manifest = exp[p].manifest
        <3>1. /\ exp' = [exp EXCEPT ![p] = head] /\ todo' = [todo EXCEPT ![p] = Needed(head)]
              /\ Goto(p, "fetch") /\ UNCHANGED <<op, next, missing, tries, outcome>>
            BY <1>5, <2>3 DEF ObserveRead
        <3>2. Needed(head) \subseteq Needed(exp'[p])
            BY <3>1 DEF Inv, DirectoryTypeOK
        <3> QED
            BY <1>3, <2>1, <3>1, <3>2
    <2> QED
        BY <2>2, <2>3
<1>6. CASE Observe(p)
    <2>1. ~missing[p] /\ UNCHANGED <<op, exp, next, missing, tries, outcome>>
        BY <1>6, DeepAt DEF Observe
    <2>2. CASE /\ todo' = [todo EXCEPT ![p] = {exp[p].manifest} \ {None}]
               /\ Goto(p, "fetch")
        <3>1. {exp[p].manifest} \ {None} \subseteq Needed(exp[p])
            <4>1. exp[p].manifest # None => exp[p] # NoHead /\ exp[p].manifest \in Manifests
                BY <1>2, NoHeadFacts DEF Local, LocalExpected
            <4> QED
                BY <4>1, StoreAssumption DEF Needed
        <3>2. {exp[p].manifest} \ {None} \subseteq Needed(exp'[p])
            BY <2>1, <3>1
        <3> QED
            BY <1>3, <2>1, <2>2, <3>2
    <2>3. CASE todo' = [todo EXCEPT ![p] = Needed(exp[p])] /\ Goto(p, "fetch")
        <3>1. Needed(exp[p]) \subseteq Needed(exp'[p])
            BY <2>1
        <3> QED
            BY <1>3, <2>1, <2>3, <3>1
    <2>4. CASE Goto(p, "receipt") /\ UNCHANGED todo
        <3>1. todo' = [todo EXCEPT ![p] = todo[p]]
            BY <2>4 DEF Inv, DirectoryTypeOK
        <3> QED
            BY <1>4, <2>1, <2>4, <3>1
    <2> QED
        BY <1>6, <2>2, <2>3, <2>4 DEF Observe
<1>7. CASE ReadReceipt(p)
    <2>1. CASE Return(p, "Failed") \/ Return(p, "Integrity")
        BY <2>1, DeepReturn
    <2>2. CASE /\ todo' = [todo EXCEPT ![p] = Needed(exp[p])] /\ Goto(p, "fetch")
               /\ UNCHANGED <<op, exp, next, missing, tries, outcome>>
        <3>1. Needed(exp[p]) \subseteq Needed(exp'[p]) /\ ~missing[p]
            BY <1>7, <2>2, DeepAt DEF ReadReceipt
        <3> QED
            BY <1>3, <2>2, <3>1
    <2> QED
        BY <1>7, <2>1, <2>2 DEF ReadReceipt
<1>8. CASE Recheck(p)
    <2>1. CASE head # exp[p] \/ missing[p] \/ op[p] = "Read"
        BY <1>8, <2>1, DeepReturn DEF Recheck
    <2>2. CASE ~(head # exp[p] \/ missing[p] \/ op[p] = "Read")
        <3>1. PICK T : todo' = [todo EXCEPT ![p] = T]
            BY <1>8, <2>2 DEF Recheck
        <3> QED
            BY <1>4, <1>8, <2>2, <3>1 DEF Recheck
    <2> QED
        BY <2>1, <2>2
<1>9. CASE Fetch(p)
    <2>1. PICK x \in todo[p] :
            /\ todo' = [todo EXCEPT ![p] = IF x \in files THEN @ \ {x} ELSE {}]
            /\ missing' = [missing EXCEPT ![p] = x \notin files]
        BY <1>9 DEF Fetch
    <2>2. pc[p] = "fetch" /\ UNCHANGED <<pc, op, exp, next, tries, outcome>>
        BY <1>9 DEF Fetch
    <2>3. pc'[p] = "fetch" /\ exp'[p] = exp[p] /\ result'[p] = None
        BY <1>2, <2>2 DEF outcome
    <2>4. todo[p] \subseteq Needed(exp[p])
        BY <1>2, <2>2 DEF Deep, Answering
    <2>5. (missing'[p] => x \notin files) /\ \A q \in Procs \ {p} : missing'[q] = missing[q]
        BY <2>1, Zenon DEF Inv, DirectoryTypeOK
    <2>6. todo'[p] \subseteq todo[p] /\ \A q \in Procs \ {p} : todo'[q] = todo[q]
        BY <2>1 DEF Inv, DirectoryTypeOK
    <2>7. x \notin files => head # exp[p]
        BY <2>4 DEF Inv, StoreInv, HeadClosed
    <2>8. Answering(p)'
        <3>1. (todo[p] \subseteq Needed(exp[p]))'
            BY <2>3, <2>4, <2>6 DEF Needed
        <3>2. missing'[p] => head' # exp'[p]
            BY <1>1, <2>3, <2>5, <2>7
        <3> QED
            BY <2>3, <3>1, <3>2 DEF Answering
    <2>9. Following(p)'
        BY <1>1, <1>2, <2>3 DEF Deep, Following
    <2>10. StagingOf(p)' /\ PageLeft(p)' /\ GenerationLeft(p)'
        BY <2>3, DeepEarly
    <2>11. \A q \in Procs \ {p} : Untouched(q)
        BY <2>2, <2>5, <2>6 DEF Frame, Untouched, outcome
    <2> QED
        BY <2>8, <2>9, <2>10, <2>11 DEF Deep
<1> QED
    BY <1>5, <1>6, <1>7, <1>8, <1>9

(* A step that takes p from one of its labels to the label l, with a todo  *)
(* set T and a next head n.                                                *)
Landed(p, l, T, n) ==
    /\ pc'[p] = l /\ todo'[p] = T /\ next'[p] = n
    /\ op'[p] = op[p] /\ exp'[p] = exp[p]

LEMMA DeepLanding ==
    ASSUME Inv, Inv', [StoreNext]_storeVars, DeepInv, NEW p \in Procs,
           pc[p] \notin {"idle", "fetch"}, NEW l \in Labels \ {"idle", "fetch"}, NEW T, NEW n,
           pc' = [pc EXCEPT ![p] = l] \/ (UNCHANGED pc /\ l = pc[p]),
           todo' = [todo EXCEPT ![p] = T] \/ (UNCHANGED todo /\ T = todo[p]),
           next' = [next EXCEPT ![p] = n] \/ (UNCHANGED next /\ n = next[p]),
           \E b : published' = [published EXCEPT ![p] = b] \/ UNCHANGED published,
           UNCHANGED <<op, exp, missing, tries, result>>
    PROVE  /\ Deep(p) /\ Landed(p, l, T, n) /\ Following(p)' /\ Answering(p)'
           /\ \A q \in Procs \ {p} : Untouched(q)
<1>1. Deep(p) /\ ~missing[p] /\ result[p] = None
    BY DeepAt
<1>2. Landed(p, l, T, n)
    BY DEF Inv, DirectoryTypeOK, Landed
<1>3. Following(p)' /\ Answering(p)'
    BY <1>1, <1>2, DeepGoOn DEF Landed
<1>4. ASSUME NEW q \in Procs, q # p PROVE Untouched(q)
    BY <1>4 DEF Inv, DirectoryTypeOK, Frame, Untouched
<1> QED
    BY <1>1, <1>2, <1>3, <1>4

LEMMA ClaimObjectsDeep ==
    ASSUME Inv, Inv', [StoreNext]_storeVars, DeepInv, NEW p \in Procs, ClaimObjects(p)
    PROVE  DeepInv'
<1>1. PICK l \in {"inspect", "tidy"} : Goto(p, l) /\ (l = "inspect" => op[p] = "Reconcile")
    BY DEF ClaimObjects
<1>2. /\ pc[p] = "claim_objects" /\ UNCHANGED <<head, files, content, stagedObjects>>
      /\ UNCHANGED <<op, exp, next, todo, missing, tries, result, published>>
    BY DEF ClaimObjects, At, storeVars, locals, outcome, staging
<1>3. /\ Deep(p) /\ Landed(p, l, todo[p], next[p]) /\ Following(p)' /\ Answering(p)'
      /\ \A q \in Procs \ {p} : Untouched(q)
    BY <1>1, <1>2, DeepLanding DEF Goto, Labels
<1>4. StagingOf(p)' /\ PageLeft(p)' /\ GenerationLeft(p)'
    BY <1>1, <1>3, DeepEarly DEF Landed
<1> QED
    BY <1>2, <1>3, <1>4, DeepOf DEF Deep

LEMMA TidyDeep ==
    ASSUME Inv, Inv', [StoreNext]_storeVars, DeepInv, NEW p \in Procs, Tidy(p)
    PROVE  DeepInv'
<1>1. PICK l \in {"inspect", "write"} :
        Goto(p, l) /\ (l = "write" => op[p] = "Commit") /\ (l = "inspect" => op[p] # "Commit")
    BY DEF Tidy
<1>2. /\ pc[p] = "tidy" /\ UNCHANGED <<head, files, content>> /\ stagedObjects' = {}
      /\ UNCHANGED <<op, exp, next, todo, missing, tries, result, published>>
    BY DEF Tidy, At, storeVars, locals, outcome
<1>3. /\ Deep(p) /\ Landed(p, l, todo[p], next[p]) /\ Following(p)' /\ Answering(p)'
      /\ \A q \in Procs \ {p} : Untouched(q)
    BY <1>1, <1>2, DeepLanding DEF Goto, Labels
<1>4. StagingOf(p)' /\ PageLeft(p)' /\ GenerationLeft(p)'
    BY <1>1, <1>2, <1>3 DEF StagingOf, PageLeft, GenerationLeft, Landed, PageLabels, PublishLabels
<1> QED
    BY <1>2, <1>3, <1>4, DeepOf DEF Deep, ObjectLabels

(* A write keeps what the generation is made of: the file it adds is the   *)
(* receipt.                                                                *)
LEMMA WriteDeep ==
    ASSUME Inv, Inv', [StoreNext]_storeVars, DeepInv, NEW p \in Procs, Write(p)
    PROVE  DeepInv'
<1>1. PICK x \in todo[p] :
        IF x \in files
        THEN todo' = [todo EXCEPT ![p] = @ \ {x}] /\ UNCHANGED <<pc, stagedObjects>>
        ELSE /\ stagedObjects' = stagedObjects \cup {<<p, x>>}
             /\ Goto(p, "link") /\ UNCHANGED todo
    BY DEF Write
<1>2. /\ pc[p] = "write" /\ UNCHANGED <<head, files, content>>
      /\ UNCHANGED <<op, exp, next, missing, tries, result, published>>
    BY DEF Write, At, storeVars, outcome
<1>3. CASE x \in files
    <2>1. /\ Deep(p) /\ Landed(p, "write", todo[p] \ {x}, next[p])
          /\ Following(p)' /\ Answering(p)'
          /\ \A q \in Procs \ {p} : Untouched(q)
        BY <1>1, <1>2, <1>3, DeepLanding DEF Labels
    <2>2. StagingOf(p)'
        BY <1>1, <1>2, <1>3, <2>1 DEF Deep, StagingOf, Landed, PageLabels
    <2>3. PageLeft(p)' /\ GenerationLeft(p)'
        BY <1>1, <1>2, <1>3, <2>1 DEF Deep, PageLeft, GenerationLeft, Landed, PageLabels,
           PublishLabels, Needed
    <2> QED
        BY <1>2, <2>1, <2>2, <2>3, DeepOf DEF Deep, ObjectLabels
<1>4. CASE x \notin files
    <2>1. /\ Deep(p) /\ Landed(p, "link", todo[p], next[p]) /\ Following(p)' /\ Answering(p)'
          /\ \A q \in Procs \ {p} : Untouched(q)
        BY <1>1, <1>2, <1>4, DeepLanding DEF Goto, Labels
    <2>2. StagingOf(p)'
        BY <1>1, <1>2, <1>4, <2>1 DEF Deep, StagingOf, Landed, PageLabels
    <2>3. PageLeft(p)' /\ GenerationLeft(p)'
        BY <1>1, <1>2, <1>4, <2>1 DEF Deep, PageLeft, GenerationLeft, Landed, PageLabels,
           PublishLabels, Needed
    <2> QED
        BY <1>2, <2>1, <2>2, <2>3, DeepOf DEF Deep, ObjectLabels
<1> QED
    BY <1>3, <1>4

LEMMA LinkDeep ==
    ASSUME Inv, Inv', [StoreNext]_storeVars, DeepInv, NEW p \in Procs, Link(p)
    PROVE  DeepInv'
<1>1. PICK x \in todo[p] :
        /\ <<p, x>> \in stagedObjects
        /\ files' = files \cup {x}
        /\ stagedObjects' = stagedObjects \ {<<p, x>>}
        /\ todo' = [todo EXCEPT ![p] = @ \ {x}]
    BY DEF Link
<1>2. /\ pc[p] = "link" /\ pc' = [pc EXCEPT ![p] = "write"] /\ UNCHANGED <<head, content>>
      /\ UNCHANGED <<op, exp, next, missing, tries, result, published>>
    BY DEF Link, At, Goto, outcome
<1>3. /\ Deep(p) /\ Landed(p, "write", todo[p] \ {x}, next[p])
      /\ Following(p)' /\ Answering(p)'
      /\ \A q \in Procs \ {p} : Untouched(q)
    BY <1>1, <1>2, DeepLanding DEF Labels
<1>4. StagingOf(p)'
    <2>1. stagedObjects = {<<p, x>>}
        BY <1>1, <1>2, <1>3 DEF Deep, StagingOf
    <2> QED
        BY <1>1, <1>3, <2>1 DEF StagingOf, Landed
<1>5. op[p] = "Advance" => x = next[p].receipt
    BY <1>1, <1>2 DEF Inv, Local, LocalAdvance
<1>6. PageLeft(p)' /\ GenerationLeft(p)'
    BY <1>1, <1>2, <1>3, <1>5 DEF Deep, PageLeft, GenerationLeft, Landed, PageLabels,
       PublishLabels, Needed
<1> QED
    BY <1>2, <1>3, <1>4, <1>6, DeepOf DEF Deep, ObjectLabels

(* Once the page is located, what is in the directory beyond the closure   *)
(* is what the sweep has to do and the receipt.                            *)
LEMMA WriteDoneDeep ==
    ASSUME Inv, Inv', [StoreNext]_storeVars, DeepInv, NEW p \in Procs, WriteDone(p)
    PROVE  DeepInv'
<1>0. pc[p] = "write" /\ UNCHANGED <<head, files, content, stagedObjects>>
    BY DEF WriteDone, At, storeVars, staging
<1>1. CASE op[p] = "Advance" /\ ~PageLegal(exp[p], next[p].receipt)
    BY <1>0, <1>1, DeepReturn, DeepOf DEF WriteDone
<1>2. CASE ~(op[p] = "Advance" /\ ~PageLegal(exp[p], next[p].receipt))
    <2>1. PICK T : /\ todo' = [todo EXCEPT ![p] = T]
                   /\ op[p] = "Advance" => T = Located(next[p].receipt)
        BY <1>2 DEF WriteDone
    <2>2. /\ pc' = [pc EXCEPT ![p] = "claim_head"]
          /\ UNCHANGED <<op, exp, next, missing, tries, result, published>>
        BY <1>2 DEF WriteDone, Goto, outcome
    <2>3. /\ Deep(p) /\ Landed(p, "claim_head", T, next[p]) /\ Following(p)' /\ Answering(p)'
          /\ \A q \in Procs \ {p} : Untouched(q)
        BY <1>0, <2>1, <2>2, DeepLanding DEF Labels
    <2>4. StagingOf(p)' /\ PageLeft(p)'
        BY <2>3 DEF StagingOf, PageLeft, Landed, PageLabels
    <2>5. GenerationLeft(p)'
        BY <1>0, <2>1, <2>3 DEF Deep, GenerationLeft, Landed, PublishLabels, Located, Needed
    <2> QED
        BY <1>0, <2>3, <2>4, <2>5, DeepOf DEF Deep
<1> QED
    BY <1>1, <1>2

LEMMA InspectDeep ==
    ASSUME Inv, Inv', [StoreNext]_storeVars, DeepInv, NEW p \in Procs, Inspect(p)
    PROVE  DeepInv'
<1>0. pc[p] = "inspect" /\ UNCHANGED <<head, files, content, stagedObjects>>
    BY DEF Inspect, At, storeVars, staging
<1>1. CASE Return(p, "Integrity")
    BY <1>0, <1>1, DeepReturn, DeepOf
<1>2. CASE Goto(p, "scan") /\ UNCHANGED <<locals, outcome, locks>>
    <2>1. /\ Deep(p) /\ Landed(p, "scan", todo[p], next[p]) /\ Following(p)' /\ Answering(p)'
          /\ \A q \in Procs \ {p} : Untouched(q)
        BY <1>0, <1>2, DeepLanding DEF Goto, Labels, locals, outcome
    <2>2. StagingOf(p)' /\ PageLeft(p)' /\ GenerationLeft(p)'
        BY <1>0, <2>1 DEF Deep, StagingOf, PageLeft, GenerationLeft, Landed, PageLabels,
           PublishLabels
    <2> QED
        BY <1>0, <2>1, <2>2, DeepOf DEF Deep
<1>3. CASE /\ todo' = [todo EXCEPT ![p] = Located(exp[p].receipt)]
           /\ Goto(p, "claim_sweep") /\ UNCHANGED <<op, exp, next, missing, tries, outcome, locks>>
    <2>1. PICK T : T = Located(exp[p].receipt)
        OBVIOUS
    <2>2. /\ Deep(p) /\ Landed(p, "claim_sweep", T, next[p]) /\ Following(p)' /\ Answering(p)'
          /\ \A q \in Procs \ {p} : Untouched(q)
        BY <1>0, <1>3, <2>1, DeepLanding DEF Goto, Labels, outcome
    <2>3. StagingOf(p)' /\ GenerationLeft(p)'
        BY <1>0, <2>2 DEF Deep, StagingOf, GenerationLeft, Landed, PageLabels, PublishLabels
    <2>4. PageLeft(p)'
        BY <1>0, <2>1, <2>2 DEF PageLeft, Landed, PageLabels, Located
    <2> QED
        BY <1>0, <2>2, <2>3, <2>4, DeepOf DEF Deep
<1> QED
    BY <1>1, <1>2, <1>3 DEF Inspect

(* The steps that take head.lock, or give it back, or find the page of     *)
(* the head still authorised.                                              *)
LEMMA PageDeep ==
    ASSUME Inv, Inv', [StoreNext]_storeVars, DeepInv, NEW p \in Procs,
           ClaimSweep(p) \/ Authorize(p) \/ SweepPageDone(p)
    PROVE  DeepInv'
<1>0. pc[p] \in PageLabels /\ UNCHANGED <<head, files, content, stagedObjects>>
    BY DEF ClaimSweep, Authorize, SweepPageDone, At, storeVars, staging, PageLabels
<1>1. CASE Return(p, "Integrity")
    BY <1>0, <1>1, DeepReturn, DeepOf
<1>2. ASSUME NEW l \in {"authorize", "sweep_page", "scan", "release"}, Goto(p, l),
             UNCHANGED <<locals, outcome>>,
             l = "scan" => op[p] = "Advance",
             l = "release" => op[p] = "Reconcile" /\ todo[p] = {}
      PROVE  DeepInv'
    <2>1. /\ Deep(p) /\ Landed(p, l, todo[p], next[p]) /\ Following(p)' /\ Answering(p)'
          /\ \A q \in Procs \ {p} : Untouched(q)
        BY <1>0, <1>2, DeepLanding DEF Goto, Labels, locals, outcome, PageLabels
    <2>2. StagingOf(p)' /\ GenerationLeft(p)'
        BY <1>0, <1>2, <2>1 DEF Deep, StagingOf, GenerationLeft, Landed, PageLabels, PublishLabels
    <2>3. head = exp[p]
        BY <1>0 DEF Inv, Local, LocalPage
    <2>4. PageLeft(p)'
        BY <1>0, <1>2, <2>1, <2>3 DEF Deep, PageLeft, Landed, PageLabels
    <2> QED
        BY <1>0, <2>1, <2>2, <2>4, DeepOf DEF Deep
<1>3. CASE ClaimSweep(p)
    BY <1>2, <1>3 DEF ClaimSweep
<1>4. CASE Authorize(p)
    BY <1>1, <1>2, <1>4 DEF Authorize
<1>5. CASE SweepPageDone(p)
    BY <1>2, <1>5 DEF SweepPageDone
<1> QED
    BY <1>3, <1>4, <1>5

LEMMA SweepFileDeep ==
    ASSUME Inv, Inv', [StoreNext]_storeVars, DeepInv, NEW p \in Procs, SweepFile(p)
    PROVE  DeepInv'
<1>1. PICK x \in todo[p] : files' = files \ {x} /\ todo' = [todo EXCEPT ![p] = @ \ {x}]
    BY DEF SweepFile
<1>2. /\ pc[p] \in {"sweep_page", "sweep"} /\ UNCHANGED <<head, content, stagedObjects>>
      /\ UNCHANGED <<pc, op, exp, next, missing, tries, result, published>>
    BY DEF SweepFile, outcome, staging
<1>3. /\ Deep(p) /\ Landed(p, pc[p], todo[p] \ {x}, next[p]) /\ Following(p)' /\ Answering(p)'
      /\ \A q \in Procs \ {p} : Untouched(q)
    BY <1>1, <1>2, DeepLanding DEF Labels
<1>4. StagingOf(p)' /\ PageLeft(p)'
    BY <1>1, <1>2, <1>3 DEF Deep, StagingOf, PageLeft, Landed, PageLabels
<1>5. GenerationLeft(p)'
    BY <1>1, <1>2, <1>3 DEF Deep, GenerationLeft, Landed, PublishLabels, Needed
<1> QED
    BY <1>2, <1>3, <1>4, <1>5, DeepOf DEF Deep, ObjectLabels

(* A page that leaves nothing remaining is the whole set of candidates.    *)
LEMMA LastPageIsAll ==
    ASSUME NEW C \in SUBSET Ids, NEW page \in SUBSET C, Cardinality(C) - Cardinality(page) = 0
    PROVE  page = C
<1>1. IsFiniteSet(C)
    BY DirectoryAssumption, FS_Subset
<1>2. IsFiniteSet(page) /\ (Cardinality(C) = Cardinality(page) => C = page)
    BY <1>1, FS_Subset
<1>3. Cardinality(C) \in Nat /\ Cardinality(page) \in Nat
    BY <1>1, <1>2, FS_CardinalityType
<1> QED
    BY <1>2, <1>3

LEMMA ScanDeep ==
    ASSUME Inv, Inv', [StoreNext]_storeVars, DeepInv, NEW p \in Procs, Scan(p)
    PROVE  DeepInv'
<1>0. /\ pc[p] = "scan" /\ op[p] = "Advance" /\ UNCHANGED <<head, files, stagedObjects>>
    BY DEF Inv, Local, LocalCall, Scan, At, staging
<1>1. PICK C : C = files \ Needed(exp[p])
    OBVIOUS
<1>2. CASE ~(Pinned(exp[p]) \subseteq C)
    <2>1. Return(p, "Integrity")
        BY <1>1, <1>2 DEF Scan
    <2> QED
        BY <1>0, <2>1, DeepReturn, DeepOf DEF ObjectLabels
<1>3. CASE Pinned(exp[p]) \subseteq C
    <2>1. PICK page \in Pages(C, Pinned(exp[p])), r \in Receipts :
            LET c == [parent |-> exp[p], ids |-> page,
                      remaining |-> Cardinality(C) - Cardinality(page)]
            IN  /\ DigestOf(r, c)
                /\ content' = [content EXCEPT ![r] = c]
                /\ next' = [next EXCEPT ![p] = ReclaimHead(exp[p], r)]
                /\ todo' = [todo EXCEPT ![p] = {r}]
                /\ Goto(p, "write")
                /\ UNCHANGED <<op, exp, missing, tries, outcome, locks>>
        BY <1>1, <1>3 DEF Scan
    <2>2. PICK n : n = ReclaimHead(exp[p], r)
        OBVIOUS
    <2>3. n.receipt = r
        BY <2>2 DEF ReclaimHead
    <2>4. /\ Deep(p) /\ Landed(p, "write", {r}, n) /\ Following(p)' /\ Answering(p)'
          /\ \A q \in Procs \ {p} : Untouched(q)
        BY <1>0, <2>1, <2>2, DeepLanding DEF Goto, Labels, outcome
    <2>5. /\ content'[r].ids = page
          /\ content'[r].remaining = Cardinality(C) - Cardinality(page)
        BY <2>1 DEF Inv, DirectoryTypeOK, StoreTypeOK
    <2>6. C \in SUBSET Ids /\ page \in SUBSET C
        BY <1>1, <2>1 DEF Inv, DirectoryTypeOK, StoreTypeOK, Pages
    <2>7. content'[r].remaining = 0 => page = C
        BY <2>5, <2>6, LastPageIsAll
    <2>8. StagingOf(p)' /\ PageLeft(p)'
        BY <1>0, <2>4 DEF Deep, StagingOf, PageLeft, Landed, PageLabels
    <2>9. GenerationLeft(p)'
        BY <1>0, <1>1, <2>3, <2>4, <2>5, <2>7 DEF GenerationLeft, Landed, PublishLabels, Needed
    <2> QED
        BY <1>0, <2>4, <2>8, <2>9, DeepOf DEF Deep, ObjectLabels
<1> QED
    BY <1>2, <1>3

LEMMA PublishDeep ==
    ASSUME Inv, Inv', [StoreNext]_storeVars, DeepInv, NEW p \in Procs,
           ClaimHead(p) \/ StageHead(p) \/ Sync(p) \/ SweepDone(p)
    PROVE  DeepInv'
<1>0. /\ pc[p] \in {"claim_head", "stage", "sync", "sweep"}
      /\ UNCHANGED <<head, files, content, stagedObjects>>
    BY DEF ClaimHead, StageHead, Sync, SweepDone, At, storeVars, staging
<1>1. CASE Return(p, "Integrity")
    BY <1>0, <1>1, DeepReturn, DeepOf
<1>2. ASSUME NEW l \in {"stage", "rename", "sweep", "release"}, Goto(p, l),
             UNCHANGED <<locals, outcome>>,
             l \in {"stage", "rename"} <=> pc[p] \in {"claim_head", "stage"},
             l = "release" => op[p] = "Commit" \/ (pc[p] = "sweep" /\ todo[p] = {})
      PROVE  DeepInv'
    <2>1. /\ Deep(p) /\ Landed(p, l, todo[p], next[p]) /\ Following(p)' /\ Answering(p)'
          /\ \A q \in Procs \ {p} : Untouched(q)
        BY <1>0, <1>2, DeepLanding DEF Goto, Labels, locals, outcome
    <2>2. op[p] \in {"Commit", "Advance"}
        BY <1>0 DEF Inv, Local, LocalCall, PublishLabels
    <2>3. StagingOf(p)' /\ PageLeft(p)'
        BY <1>2, <2>1, <2>2 DEF StagingOf, PageLeft, Landed, PageLabels
    <2>4. op[p] = "Advance" /\ pc[p] \in {"sync", "sweep"} => head.receipt # None
        BY DEF Inv, Local, LocalAdvance
    <2>5. GenerationLeft(p)'
        BY <1>0, <1>2, <2>1, <2>4 DEF Deep, GenerationLeft, Landed, PublishLabels, Needed
    <2> QED
        BY <1>0, <2>1, <2>3, <2>5, DeepOf DEF Deep
<1>3. CASE ClaimHead(p)
    BY <1>2, <1>3 DEF ClaimHead, At
<1>4. CASE StageHead(p)
    BY <1>1, <1>2, <1>4 DEF StageHead, At
<1>5. CASE Sync(p)
    BY <1>2, <1>5 DEF Sync, At
<1>6. CASE SweepDone(p)
    BY <1>2, <1>6 DEF SweepDone, At
<1> QED
    BY <1>3, <1>4, <1>5, <1>6

LEMMA RenameDeep ==
    ASSUME Inv, Inv', [StoreNext]_storeVars, DeepInv, NEW p \in Procs, Rename(p)
    PROVE  DeepInv'
<1>0. /\ pc[p] = "rename" /\ op[p] \in {"Commit", "Advance"} /\ Local(p)
      /\ head' = next[p] /\ exp[p] \in StoreHead /\ pc' = [pc EXCEPT ![p] = "sync"]
      /\ UNCHANGED <<files, content, stagedObjects>>
      /\ UNCHANGED <<op, exp, next, todo, missing, tries, result>>
      /\ published' = [published EXCEPT ![p] = TRUE]
    BY DEF Inv, Rename, At, Goto, Local, LocalCall, LocalStaged, DirectoryTypeOK, PublishLabels,
       locals
<1>1. /\ Deep(p) /\ Landed(p, "sync", todo[p], next[p]) /\ Following(p)' /\ Answering(p)'
      /\ \A q \in Procs \ {p} : Untouched(q)
    BY <1>0, DeepLanding DEF Labels
<1>2. StagingOf(p)' /\ PageLeft(p)'
    BY <1>1 DEF StagingOf, PageLeft, Landed, PageLabels
<1>3. op[p] = "Advance" => Needed(next[p]) = Needed(exp[p])
    <2>1. op[p] = "Advance" => /\ next[p].receipt \in Receipts /\ exp[p] # NoHead
                               /\ next[p] = ReclaimHead(exp[p], next[p].receipt)
        BY <1>0 DEF Local, LocalAdvance, LocalExpected, PublishLabels
    <2> QED
        BY <1>0, <2>1, ReclaimHeadFacts
<1>4. GenerationLeft(p)'
    <2>1. (Needed(head))' = Needed(next[p])
        BY <1>0 DEF Needed
    <2> QED
        BY <1>0, <1>1, <1>3, <2>1 DEF Deep, GenerationLeft, Landed, PublishLabels
<1> QED
    BY <1>0, <1>1, <1>2, <1>4, DeepOf DEF Deep, ObjectLabels

LEMMA DeepInit == Init => DeepInv
<1> SUFFICES ASSUME Init, NEW p \in Procs PROVE Deep(p)
    BY DEF DeepInv
<1>1. /\ pc[p] = "idle" /\ op[p] = None /\ exp[p] = head /\ ~missing[p]
    BY DEF Init, StoreInit
<1> QED
    BY <1>1 DEF Deep, Following, Answering, StagingOf, PageLeft, GenerationLeft, PageLabels, None

LEMMA DeepStep == Inv /\ DeepInv /\ [Next]_vars => DeepInv'
<1> SUFFICES ASSUME Inv, DeepInv, [Next]_vars PROVE DeepInv'
    OBVIOUS
<1>0. Inv' /\ [StoreNext]_storeVars
    BY NextStep
<1>1. ASSUME NEW p \in Procs, Start(p) \/ Step(p) \/ Fail(p) \/ Crash(p) PROVE DeepInv'
    <2>1. CASE Start(p)
        BY <1>0, <2>1, StartDeep
    <2>2. CASE \/ LoadClaimObjects(p) \/ LoadClean(p) \/ LoadClaimHead(p) \/ LoadTidy(p)
               \/ LoadRead(p) \/ LoadVerify(p)
        BY <1>0, <2>2, LoadDeep
    <2>3. CASE LockBusy(p) \/ HeadMoved(p) \/ Release(p) \/ Fail(p) \/ Crash(p)
        BY <1>0, <2>3, EndDeep
    <2>4. CASE ObserveRead(p) \/ Observe(p) \/ ReadReceipt(p) \/ Fetch(p) \/ Recheck(p)
        BY <1>0, <2>4, LookDeep
    <2>5. CASE ClaimObjects(p) \/ Tidy(p) \/ Write(p) \/ Link(p) \/ WriteDone(p)
        BY <1>0, <2>5, ClaimObjectsDeep, TidyDeep, WriteDeep, LinkDeep, WriteDoneDeep
    <2>6. CASE Inspect(p) \/ ClaimSweep(p) \/ Authorize(p) \/ SweepPageDone(p) \/ SweepFile(p)
        BY <1>0, <2>6, InspectDeep, PageDeep, SweepFileDeep
    <2>7. CASE Scan(p) \/ ClaimHead(p) \/ StageHead(p) \/ Sync(p) \/ SweepDone(p) \/ Rename(p)
        BY <1>0, <2>7, ScanDeep, PublishDeep, RenameDeep
    <2> QED
        BY <1>1, <2>1, <2>2, <2>3, <2>4, <2>5, <2>6, <2>7 DEF Step
<1>2. CASE UNCHANGED vars
    <2>1. UNCHANGED <<head, files, content, stagedObjects>>
        BY <1>2 DEF vars, storeVars, staging
    <2>2. ASSUME NEW q \in Procs PROVE Deep(q)'
        <3>1. Untouched(q) /\ Deep(q)
            BY <1>2 DEF vars, locals, outcome, Untouched, Frame, DeepInv
        <3> QED
            BY <1>0, <2>1, <3>1, DeepFrame
    <2> QED
        BY <2>2 DEF DeepInv
<1> QED
    BY <1>1, <1>2 DEF Next

THEOREM DeepInvariance == Spec => [](Inv /\ DeepInv)
    BY InitInv, NextStep, DeepInit, DeepStep, PTL DEF Spec

(* Whoever tidies takes only what a dead writer left: the head and the     *)
(* object a live process has staged are its own when it comes to rename or *)
(* to link them, and no residue lies beside the object.                    *)
THEOREM StagingIsOwned == Spec => []StagedOwned
<1>1. Inv /\ DeepInv => StagedOwned
    BY DEF Inv, Local, LocalStaged, DeepInv, Deep, StagingOf, StagedOwned, StagedHeadOwned,
       StagedObjectOwned, At
<1> QED
    BY <1>1, DeepInvariance, PTL

(* A reclamation that reports nothing remaining has left exactly the       *)
(* closure of the head and its own receipt, and a reconciliation about to  *)
(* succeed has finished the page of the head, whoever began it.            *)
THEOREM GenerationsAreExact == Spec => []GenerationsExact
<1>1. ASSUME Inv, DeepInv PROVE GenerationsExact
    <2>1. ASSUME NEW p \in Procs, pc[p] = "release", op[p] = "Advance",
                 content[head.receipt].remaining = 0
          PROVE  files = Needed(head) \cup Pinned(head)
        <3>1. head.receipt # None /\ files \subseteq Needed(head) \cup {head.receipt}
            BY <1>1, <2>1 DEF DeepInv, Deep, GenerationLeft
        <3>2. Needed(head) \cup Pinned(head) \subseteq files
            BY <1>1 DEF Inv, StoreInv, HeadClosed
        <3>3. Pinned(head) = {head.receipt}
            BY <3>1 DEF Pinned
        <3> QED
            BY <3>1, <3>2, <3>3
    <2>2. ReconciledPageGone
        BY <1>1 DEF DeepInv, Deep, PageLeft, ReconciledPageGone, At
    <2> QED
        BY <2>1, <2>2 DEF GenerationsExact, FinalGenerationExact, At
<1> QED
    BY <1>1, DeepInvariance, PTL

(* What a step may answer to a process, by AnswersTruthful.                *)
Truthful(p) ==
    /\ published[p] => result'[p] \notin {"Conflict", "Integrity", "Failed"}
    /\ op[p] \in {"Load", "Read", "Commit"} => result'[p] # "Integrity"

(* A step answers its own process or nobody.                               *)
LEMMA AnswersOwn ==
    ASSUME NEW p \in Procs, Start(p) \/ Step(p) \/ Fail(p) \/ Crash(p)
    PROVE  UNCHANGED result \/ \E o : result' = [result EXCEPT ![p] = o]
<1> USE DEF outcome, Return
<1>1. CASE Start(p)
    BY <1>1 DEF Start, StartLoad, StartRead, StartAdvance, StartReconcile, StartCommit, Begin
<1>2. CASE LoadClaimObjects(p) \/ LoadClean(p) \/ LoadClaimHead(p) \/ LoadTidy(p)
    BY <1>2 DEF LoadClaimObjects, LoadClean, LoadClaimHead, LoadTidy
<1>3. CASE LoadRead(p) \/ LoadVerify(p)
    BY <1>3 DEF LoadRead, LoadVerify
<1>4. CASE LockBusy(p) \/ HeadMoved(p) \/ Release(p) \/ Fail(p) \/ Crash(p)
    BY <1>4 DEF LockBusy, HeadMoved, Release, Fail, Crash
<1>5. CASE ObserveRead(p) \/ Observe(p) \/ ReadReceipt(p) \/ Fetch(p) \/ Recheck(p)
    BY <1>5 DEF ObserveRead, Observe, ReadReceipt, Fetch, Recheck
<1>6. CASE ClaimObjects(p) \/ Tidy(p) \/ Write(p) \/ Link(p) \/ WriteDone(p)
    BY <1>6 DEF ClaimObjects, Tidy, Write, Link, WriteDone
<1>7. CASE Inspect(p) \/ ClaimSweep(p) \/ Authorize(p) \/ SweepPageDone(p) \/ SweepFile(p)
    BY <1>7 DEF Inspect, ClaimSweep, Authorize, SweepPageDone, SweepFile
<1>8. CASE Scan(p)
    BY <1>8 DEF Scan
<1>9. CASE ClaimHead(p) \/ StageHead(p) \/ Sync(p) \/ SweepDone(p) \/ Rename(p)
    BY <1>9 DEF ClaimHead, StageHead, Sync, SweepDone, Rename
<1> QED
    BY <1>1, <1>2, <1>3, <1>4, <1>5, <1>6, <1>7, <1>8, <1>9 DEF Step

(* Where nothing is answered nothing is untrue.                            *)
LEMMA SilentIsTruthful ==
    ASSUME Inv, DeepInv, NEW p \in Procs, pc[p] = "idle" \/ result'[p] = result[p]
    PROVE  Truthful(p)
<1>1. pc[p] = "idle" => op[p] = None /\ ~published[p]
    BY DEF DeepInv, Deep, Answering, Inv, Local, LocalPublished
<1>2. pc[p] # "idle" => result[p] = None
    BY DEF DeepInv, Deep, Answering
<1> QED
    BY <1>1, <1>2 DEF Truthful, None

(* Every answer of every step.                                             *)
LEMMA StepIsTruthful ==
    ASSUME Inv, DeepInv, NEW p \in Procs, pc[p] # "idle", Step(p) \/ Fail(p) \/ Crash(p)
    PROVE  Truthful(p)
<1> USE DEF At
<1>0. /\ Local(p) /\ Deep(p) /\ result \in [Procs -> Results \cup {None}]
      /\ exp[p] \in StoreHead
    BY DEF Inv, DeepInv, DirectoryTypeOK
<1>1. published[p] => pc[p] \in {"sync", "sweep", "release"} /\ op[p] # "Reconcile"
    BY <1>0 DEF Local, LocalPublished, LocalCall
<1>2. ASSUME NEW o, Return(p, o), published[p] => o \notin {"Conflict", "Integrity", "Failed"},
             op[p] \in {"Load", "Read", "Commit"} => o # "Integrity"
      PROVE  Truthful(p)
    BY <1>0, <1>2 DEF Truthful, Return
<1>3. CASE UNCHANGED result
    BY <1>3, SilentIsTruthful
<1>4. CASE LockBusy(p) \/ HeadMoved(p) \/ ObserveRead(p) \/ LoadVerify(p)
    BY <1>1, <1>2, <1>3, <1>4 DEF LockBusy, HeadMoved, ObserveRead, LoadVerify, outcome
<1>5. CASE Release(p) \/ Crash(p)
    BY <1>2, <1>5 DEF Release, Crash, None
<1>6. CASE Fail(p)
    BY <1>1, <1>2, <1>6 DEF Fail, FailureOf
<1>7. CASE ReadReceipt(p)
    <2>1. pc[p] = "receipt" /\ op[p] \in {"Advance", "Reconcile"}
        BY <1>0, <1>7 DEF ReadReceipt, Local, LocalCall
    <2> QED
        BY <1>1, <1>2, <1>3, <1>7, <2>1 DEF ReadReceipt, outcome
<1>8. CASE Recheck(p)
    <2>1. pc[p] = "fetch" /\ (missing[p] => head # exp[p])
        BY <1>0, <1>8 DEF Recheck, Deep, Answering
    <2>2. CASE head # exp[p] \/ missing[p] \/ op[p] = "Read"
        <3>1. Return(p, IF head # exp[p] THEN "Conflict"
                        ELSE IF missing[p] THEN "Integrity" ELSE "Ok")
            BY <1>8, <2>2 DEF Recheck
        <3>2. Return(p, "Conflict") \/ Return(p, "Ok")
            BY <2>1, <3>1
        <3> QED
            BY <1>1, <1>2, <2>1, <3>2
    <2>3. CASE ~(head # exp[p] \/ missing[p] \/ op[p] = "Read")
        BY <1>3, <1>8, <2>3 DEF Recheck, outcome
    <2> QED
        BY <2>2, <2>3
<1>9. CASE WriteDone(p)
    BY <1>1, <1>2, <1>3, <1>9 DEF WriteDone, outcome
<1>10. CASE Inspect(p) \/ Authorize(p)
    <2>1. pc[p] \in {"inspect", "authorize"} /\ op[p] \in {"Advance", "Reconcile"}
        BY <1>0, <1>10 DEF Inspect, Authorize, Local, LocalCall, PageLabels
    <2> QED
        BY <1>1, <1>2, <1>3, <1>10, <2>1 DEF Inspect, Authorize, outcome
<1>11. CASE Scan(p)
    <2>1. pc[p] = "scan" /\ op[p] = "Advance"
        BY <1>0, <1>11 DEF Scan, Local, LocalCall
    <2> QED
        BY <1>1, <1>2, <1>3, <1>11, <2>1 DEF Scan, outcome
<1>12. CASE StageHead(p)
    <2>1. pc[p] = "stage" /\ head = exp[p]
        BY <1>12 DEF StageHead
    <2>2. exp[p] # NoHead => exp[p].manifest \in files
        <3>1. exp[p] # NoHead => exp[p].manifest \in Manifests /\ Needed(exp[p]) \subseteq files
            BY <1>0, <2>1 DEF Local, LocalExpected, Inv, StoreInv, HeadClosed
        <3> QED
            BY <3>1, StoreAssumption DEF Needed
    <2> QED
        BY <1>3, <1>12, <2>2 DEF StageHead, outcome
<1>13. CASE LoadClaimObjects(p) \/ LoadClean(p) \/ LoadClaimHead(p) \/ LoadTidy(p) \/ LoadRead(p)
    BY <1>3, <1>13 DEF LoadClaimObjects, LoadClean, LoadClaimHead, LoadTidy, LoadRead, outcome
<1>14. CASE \/ Observe(p) \/ Fetch(p) \/ ClaimObjects(p) \/ Tidy(p) \/ Write(p) \/ Link(p)
            \/ ClaimSweep(p) \/ SweepFile(p) \/ SweepPageDone(p) \/ ClaimHead(p)
            \/ Rename(p) \/ Sync(p) \/ SweepDone(p)
    BY <1>3, <1>14 DEF Observe, Fetch, ClaimObjects, Tidy, Write, Link, ClaimSweep, SweepFile,
       SweepPageDone, ClaimHead, Rename, Sync, SweepDone, outcome
<1> QED
    BY <1>4, <1>5, <1>6, <1>7, <1>8, <1>9, <1>10, <1>11, <1>12, <1>13, <1>14 DEF Step

(* What an operation answers is true of the Store: after its rename only   *)
(* success or an unknown outcome, and no damage told to a loader, reader   *)
(* or committer, since the head it compares again has moved whenever one   *)
(* of its files was gone.                                                  *)
THEOREM AnswersAreTruthful == Spec => AnswersTruthful
<1>1. ASSUME Inv, DeepInv, [Next]_vars, NEW p \in Procs PROVE Truthful(p)
    <2>1. ASSUME NEW q \in Procs, Start(q) \/ Step(q) \/ Fail(q) \/ Crash(q) PROVE Truthful(p)
        <3>1. CASE pc[p] = "idle"
            BY <1>1, <3>1, SilentIsTruthful
        <3>2. CASE pc[p] # "idle" /\ q # p
            <4>1. result'[p] = result[p]
                BY <1>1, <2>1, <3>2, AnswersOwn DEF Inv, DirectoryTypeOK
            <4> QED
                BY <1>1, <4>1, SilentIsTruthful
        <3>3. CASE pc[p] # "idle" /\ q = p
            <4>1. ~Start(p)
                BY <3>3 DEF Start, StartLoad, StartRead, StartAdvance, StartReconcile, StartCommit,
                   Begin, At
            <4> QED
                BY <1>1, <2>1, <3>3, <4>1, StepIsTruthful
        <3> QED
            BY <3>1, <3>2, <3>3
    <2>2. CASE UNCHANGED vars
        <3>1. result'[p] = result[p]
            BY <2>2 DEF vars, outcome
        <3> QED
            BY <1>1, <3>1, SilentIsTruthful
    <2> QED
        BY <1>1, <2>1, <2>2 DEF Next
<1>2. Inv /\ DeepInv /\ [Next]_vars =>
        [\A p \in Procs :
            /\ published[p] => result'[p] \notin {"Conflict", "Integrity", "Failed"}
            /\ op[p] \in {"Load", "Read", "Commit"} => result'[p] # "Integrity"]_vars
    BY <1>1 DEF Truthful
<1> QED
    BY <1>2, DeepInvariance, PTL DEF Spec, AnswersTruthful
=============================================================================
