------------------------------ MODULE HeadStore ------------------------------
(***************************************************************************)
(* What a Store adapter promises (cymule-durable, store.rs): one head that *)
(* names a state-root manifest, a set of immutable content-addressed       *)
(* objects, and reclamation by receipt.  A semantic commit may publish a   *)
(* manifest only when everything reachable from it is present; an object   *)
(* may be deleted only when the receipt that the head pins lists it, and a *)
(* receipt can be pinned only when it lists nothing the head needs.        *)
(*                                                                         *)
(* The physical token of a head hashes the token before it, the manifest,  *)
(* both sequences and the receipt; heads form one chain, in which the two  *)
(* sequences already tell every head apart, so the token is left out.      *)
(***************************************************************************)
EXTENDS Naturals, FiniteSets

CONSTANTS
    Objects,        \* identities of state-root and command-archive objects
    Manifests,      \* the objects that are state-root manifests
    Closure,        \* what is reachable from a manifest, itself included
    Receipts,       \* identities of GC receipts
    MaxSequence,    \* MAX_EXACT_INTEGER as it bounds head.sequence
    MaxGc           \* MAX_EXACT_INTEGER as it bounds head.gc_sequence

None == "None"
Ids == Objects \cup Receipts

ASSUME StoreAssumption ==
    /\ Manifests \subseteq Objects
    /\ Closure \in [Manifests -> SUBSET Objects]
    /\ \A m \in Manifests : m \in Closure[m]
    /\ Objects \cap Receipts = {}
    /\ None \notin Ids
    /\ MaxSequence \in Nat /\ MaxGc \in Nat

VARIABLES
    head,           \* the StoreHead, or NoHead before initialization
    files,          \* the identities with a file (or a row) in the Store
    content         \* what each receipt identity is the digest of

storeVars == <<head, files, content>>

-------------------------------------------------------------------------------

StoreHead == [manifest: Manifests \cup {None}, sequence: 0..MaxSequence,
              gc: 0..MaxGc, receipt: Receipts \cup {None}]
NoHead == [manifest |-> None, sequence |-> 0, gc |-> 0, receipt |-> None]

GcReceipt == [parent: StoreHead, ids: SUBSET Ids, remaining: Nat]
NoContent == [parent |-> NoHead, ids |-> {}, remaining |-> 0]

(* A semantic commit drops the receipt; a reclamation keeps the manifest.  *)
CommitHead(h, m) ==
    [manifest |-> m, sequence |-> IF h = NoHead THEN 0 ELSE h.sequence + 1,
     gc |-> h.gc, receipt |-> None]
ReclaimHead(h, r) ==
    [manifest |-> h.manifest, sequence |-> h.sequence, gc |-> h.gc + 1, receipt |-> r]

Needed(h) == IF h = NoHead THEN {} ELSE Closure[h.manifest]
Pinned(h) == IF h.receipt = None THEN {} ELSE {h.receipt}

StoreInit ==
    /\ head = NoHead
    /\ files = {}
    /\ content = [r \in Receipts |-> NoContent]

(* An object or a described receipt gets its file.                         *)
Stage(x) ==
    /\ x \in Receipts => content[x] # NoContent
    /\ files' = files \cup {x}
    /\ UNCHANGED <<head, content>>

(* GcReceipt::new_bounded: a page chosen for the current head.             *)
Describe(r) ==
    /\ content[r] = NoContent
    /\ head # NoHead /\ content'[r].parent = head
    /\ content'[r] \in GcReceipt
    /\ content' = [content EXCEPT ![r] = content'[r]]
    /\ UNCHANGED <<head, files>>

Commit(m) ==
    /\ Closure[m] \subseteq files
    /\ head' = CommitHead(head, m)
    /\ head' \in StoreHead
    /\ UNCHANGED <<files, content>>

Advance(r) ==
    /\ r \in files
    /\ head # NoHead /\ content[r].parent = head
    /\ content[r].ids \cap (Needed(head) \cup {r}) = {}
    /\ head' = ReclaimHead(head, r)
    /\ head' \in StoreHead
    /\ UNCHANGED <<files, content>>

Sweep(x) ==
    /\ head.receipt # None
    /\ x \in content[head.receipt].ids
    /\ files' = files \ {x}
    /\ UNCHANGED <<head, content>>

StoreNext ==
    \/ \E x \in Ids : Stage(x) \/ Sweep(x)
    \/ \E r \in Receipts : Advance(r) \/ Describe(r)
    \/ \E m \in Manifests : Commit(m)

(* A writer that stages an object and deletes nothing, or that publishes,  *)
(* takes one of these steps; everything else it does is invisible here.    *)
StoreSpec == StoreInit /\ [][StoreNext]_storeVars

-------------------------------------------------------------------------------

StoreTypeOK ==
    /\ head \in StoreHead
    /\ files \subseteq Ids
    /\ content \in [Receipts -> GcReceipt]

(* The head can be reopened: its manifest, everything reachable from it    *)
(* and the receipt it pins are all in the Store, at every instant, so also *)
(* after the death of any writer between any two of its steps              *)
(* (load_current_head_manifest, stable_reachable_ids, pinned_gc_receipt).  *)
HeadClosed == Needed(head) \cup Pinned(head) \subseteq files

(* The receipt the head pins binds that head and lists nothing the head    *)
(* needs, so its page may be swept again at any time by any process        *)
(* (GcReceipt::verify_for, prepare_reclamation).                           *)
PinnedReceiptSafe ==
    head.receipt # None =>
        /\ head = ReclaimHead(content[head.receipt].parent, head.receipt)
        /\ content[head.receipt].ids \cap (Needed(head) \cup {head.receipt}) = {}
===============================================================================
