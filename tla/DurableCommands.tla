--------------------------- MODULE DurableCommands ---------------------------
(***************************************************************************)
(* Durable command admission (cymule-durable coordinator.rs and            *)
(* pinned_machine.rs over cymule-core machine/pinned.rs).  Several         *)
(* coordinators, each pinned to the Store head it saw last, prepare the    *)
(* next StateRoot from that head and publish it with one compare-and-      *)
(* commit.  A batch of commands is one publication, unless it closes a     *)
(* scope too large for it or ends a Run: then it is a paged transition of  *)
(* many publications, which fences its Run from the first to the last.     *)
(* Compaction moves admitted commands to the archive, where a repeated     *)
(* request still has to be found.                                          *)
(*                                                                         *)
(* The history is kept whole, with marks for what compaction moved out of  *)
(* the hot state: log and batches hold every admission, the first          *)
(* cutLog and cutBatches of them are in the archive only.  The authority   *)
(* root of the Machine commits to the batches admitted so far, so their    *)
(* number stands for it.                                                   *)
(*                                                                         *)
(* A refused request publishes nothing and is not a step.  A definition    *)
(* named Faulty... is the one that follows it with a plausible coding      *)
(* error; nothing here uses it.                                            *)
(***************************************************************************)
EXTENDS CommandRequests

CONSTANTS
    Live,           \* the Runs started, and archived, before the first step
    Coordinators,   \* handles on one Store, each with its pinned head
    MaxPages,       \* pages of one source log of a paged transition
    MaxMaterial     \* bound on the material-only batches

ASSUME DurableAssumption ==
    /\ Live \subseteq Runs
    /\ MaxToken \in Nat \ {0} /\ MaxPages \in Nat /\ MaxMaterial \in Nat

VARIABLES
    head,           \* the published StateRoot, with its revision
    job,            \* the request a coordinator is driving, and the head it is pinned to
    stage,          \* the StateRoot it has prepared and not yet published
    acked           \* the requests answered as applied

vars == <<head, job, stage, acked>>

-------------------------------------------------------------------------------

NoRequest == [cmds |-> <<>>, pre |-> [q \in Runs |-> 0]]
NoTransition == [req |-> NoRequest, source |-> 0, effects |-> 0, scopes |-> 0]
NoJob == [req |-> NoRequest, pinned |-> 0]
NoStage == [parent |-> 0]

RunState == [token: 0..MaxToken, status: {"Absent", "Ready", "Fenced", "Ended"}]
Transition == [req: Request \cup {NoRequest}, source: Nat,
               effects: 0..MaxPages, scopes: 0..MaxPages]
Admission == [cmd: Commands, batch: Nat]
BatchRecord == [req: Request \cup {NoRequest}, source: Nat]

Init ==
    /\ head = [revision |-> 1,
               runs |-> [q \in Runs |-> IF q \in Live THEN [token |-> 1, status |-> "Ready"]
                                        ELSE [token |-> 0, status |-> "Absent"]],
               pending |-> [q \in Runs |-> NoTransition],
               log |-> <<>>, batches |-> <<>>, cutLog |-> 0, cutBatches |-> 0]
    /\ job = [k \in Coordinators |-> NoJob]
    /\ stage = [k \in Coordinators |-> NoStage]
    /\ acked = {}

-------------------------------------------------------------------------------
(* How a request is found in a StateRoot: reserved by a paged transition,  *)
(* admitted and hot, admitted and archived, or new.                        *)

Reserved(h, r) == {c \in Members(r.cmds) :
                     \E q \in Runs : c \in Members(h.pending[q].req.cmds)}
Hot(h, r) == {c \in Members(r.cmds) :
                \E i \in h.cutLog + 1 .. Len(h.log) : h.log[i].cmd = c}
Cold(h, r) == {c \in Members(r.cmds) : \E i \in 1 .. h.cutLog : h.log[i].cmd = c}
BatchesOf(h, S) == {h.log[i].batch : i \in {j \in DOMAIN h.log : h.log[j].cmd \in S}}

(* Every member, in one batch that was this very request.                  *)
ExactReplay(h, r, found) ==
    /\ found = Members(r.cmds)
    /\ \E b \in DOMAIN h.batches : BatchesOf(h, found) = {b} /\ h.batches[b].req = r

(* load_hot_batch_replay, then the archive: what is split between them,    *)
(* or found under another request, is a HistoryConflict.                   *)
Resolve(h, r) ==
    IF Reserved(h, r) # {}
    THEN IF \E q \in Runs : h.pending[q].req = r THEN "Pending" ELSE "Refused"
    ELSE IF Hot(h, r) # {}
    THEN IF ExactReplay(h, r, Hot(h, r)) THEN "Replay" ELSE "Refused"
    ELSE IF Cold(h, r) # {}
    THEN IF ExactReplay(h, r, Cold(h, r)) THEN "Replay" ELSE "Refused"
    ELSE "Fresh"

-------------------------------------------------------------------------------
(* The StateRoots that can follow h.                                       *)

Successor(h) == [h EXCEPT !.revision = @ + 1]
Root(h) == Len(h.batches)

(* resolve_run and require_command_reads: the token is current, the Run is *)
(* there (absent for StartRun, there for what follows StartRun in its      *)
(* batch) and no paged transition owns it.                                 *)
FaultyAcceptable(h, r) ==   \* the fence is not looked at
    \A c \in Members(r.cmds) :
        LET run == h.runs[RunOf[c]]
            met == IF Starts(r.cmds, RunOf[c]) THEN "Ready" ELSE run.status
        IN /\ run.token = r.pre[RunOf[c]]
           /\ CASE Kind[c] = "Start" -> run.status = "Absent"
                [] Kind[c] = "Step" -> met # "Absent"
                [] OTHER -> met \in {"Ready", "Fenced"}

Acceptable(h, r) ==
    \A c \in Members(r.cmds) :
        LET run == h.runs[RunOf[c]]
            met == IF Starts(r.cmds, RunOf[c]) THEN "Ready" ELSE run.status
        IN /\ run.token = r.pre[RunOf[c]]
           /\ CASE Kind[c] = "Start" -> run.status = "Absent"
                [] Kind[c] = "Step" -> met \in {"Ready", "Ended"}
                [] OTHER -> met = "Ready"

(* The batch is admitted with every one of its commands, in order.         *)
Admitted(h, r, source) ==
    [Successor(h) EXCEPT
        !.log = @ \o [i \in DOMAIN r.cmds |-> [cmd |-> r.cmds[i], batch |-> Root(h) + 1]],
        !.batches = Append(@, [req |-> r, source |-> source]),
        !.runs = [q \in Runs |->
                    IF q \in Touched(r.cmds)
                    THEN [token |-> h.runs[q].token + CountOn(r.cmds, q),
                          status |-> IF h.runs[q].status = "Ended" THEN "Ended" ELSE "Ready"]
                    ELSE h.runs[q]]]

InBounds(h, r) ==
    \A q \in Touched(r.cmds) : h.runs[q].token + CountOn(r.cmds, q) <= MaxToken

(* FailRun and CancelRun are always paged.  A scope of at most 256 Effects *)
(* closes inline, a larger one only alone in its batch.                    *)
InlineBatch(h, r) ==
    IF Acceptable(h, r) /\ InBounds(h, r) /\ \A c \in Members(r.cmds) : Kind[c] # "End"
    THEN {Admitted(h, r, Root(h))}
    ELSE {}

(* The pages of the two source logs: only the end of a Run closes scopes.  *)
PageCounts(c) ==
    [effects: 0..MaxPages, scopes: IF Kind[c] = "End" THEN 0..MaxPages ELSE {0}]

Begun(h, r, pages) ==
    LET q == RunOf[r.cmds[1]] IN
    [Successor(h) EXCEPT
        !.runs[q].status = "Fenced",
        !.pending[q] = [req |-> r, source |-> Root(h),
                        effects |-> pages.effects, scopes |-> pages.scopes]]

PagedBegin(h, r) ==
    IF Len(r.cmds) = 1 /\ Kind[r.cmds[1]] \in {"Close", "End"} /\ Acceptable(h, r)
          /\ InBounds(h, r)
    THEN {Begun(h, r, pages) : pages \in PageCounts(r.cmds[1])}
    ELSE {}

(* verify_fenced_paged_run                                                 *)
OwnsFence(h, q) ==
    /\ h.runs[q].status = "Fenced"
    /\ h.runs[q].token = h.pending[q].req.pre[q]

(* One page: the Effects first, then (to end a Run) the scopes.            *)
Paged(h, q) ==
    LET t == h.pending[q] IN
    [Successor(h) EXCEPT
        !.pending[q] = IF t.effects > 0 THEN [t EXCEPT !.effects = @ - 1]
                       ELSE [t EXCEPT !.scopes = @ - 1]]

FaultyFinalized(h, q) ==   \* the reservation is left behind
    LET t == h.pending[q] IN
    [Admitted(h, t.req, t.source) EXCEPT
        !.runs[q].status = IF Kind[t.req.cmds[1]] = "End" THEN "Ended" ELSE "Ready"]

(* The one publication that admits the command: its batch names the root   *)
(* the transition began from, and follows the current one.                 *)
Finalized(h, q) ==
    LET t == h.pending[q] IN
    [Admitted(h, t.req, t.source) EXCEPT
        !.runs[q].status = IF Kind[t.req.cmds[1]] = "End" THEN "Ended" ELSE "Ready",
        !.pending[q] = NoTransition]

(* continue_paged: the next page, or the final publication.                *)
Continued(h, r) ==
    UNION {IF h.pending[q].req # r \/ ~OwnsFence(h, q) THEN {}
           ELSE IF h.pending[q].effects + h.pending[q].scopes > 0 THEN {Paged(h, q)}
           ELSE IF Cold(h, r) = {} THEN {Finalized(h, q)} ELSE {} : q \in Runs}

(* Plans and Artifacts under a profile's own receipt: a batch without      *)
(* commands.                                                               *)
WithMaterial(h) ==
    [Successor(h) EXCEPT !.batches = Append(@, [req |-> NoRequest, source |-> Root(h)])]

(* ensure_machine_compaction_source                                        *)
NothingPending(h) == \A q \in Runs : h.pending[q] = NoTransition

(* event_compaction_entries, archive_batch_records: no batch is split.     *)
FaultyCutWhole(h, cut) == TRUE   \* a batch may be split
CutWhole(h, cut) == cut < Len(h.log) => h.log[cut + 1].batch # h.log[cut].batch

(* verify_compaction_source_cut: a batch that stays hot must not have been *)
(* frozen on a root the cut removes.                                       *)
FaultySourcesKept(h, b) == TRUE   \* frozen roots are not looked for
SourcesKept(h, b) == \A k \in b + 1 .. Len(h.batches) : h.batches[k].source >= b

CompactedPrefix(h) ==
    {[Successor(h) EXCEPT !.cutLog = cut, !.cutBatches = h.log[cut].batch] :
        cut \in {n \in h.cutLog + 1 .. Len(h.log) :
                    /\ NothingPending(h)
                    /\ CutWhole(h, n)
                    /\ SourcesKept(h, h.log[n].batch)}}

CompactedEventFree(h) ==
    IF NothingPending(h) /\ Len(h.log) = h.cutLog /\ h.cutBatches < Len(h.batches)
    THEN {[Successor(h) EXCEPT !.cutBatches = Len(h.batches)]}
    ELSE {}

MaterialCount(h) == Cardinality({i \in DOMAIN h.batches : h.batches[i].req = NoRequest})

-------------------------------------------------------------------------------
(* Clients.  A request carries tokens its client read at some time; it may *)
(* be sent late, again, and through any coordinator.                       *)
Asked ==
    UNION {{[cmds |-> b, pre |-> p] :
              p \in {f \in [Runs -> 0..MaxToken] :
                        \A q \in Runs : f[q] <= IF q \in Touched(b) THEN head.runs[q].token
                                               ELSE 0}} : b \in Batches}

-------------------------------------------------------------------------------
(* Coordinators.  Every read goes through with_state_root_resolver, which  *)
(* refuses a pinned manifest that is not the current one: a call that does *)
(* anything starts from a coordinator pinned to the current head.          *)

Idle(k) == job[k] = NoJob

(* The coordinator has prepared h for the request r (or for none).         *)
Prepare(k, r, h) ==
    /\ job' = [job EXCEPT ![k] = [req |-> r, pinned |-> head.revision]]
    /\ stage' = [stage EXCEPT ![k] = [parent |-> head.revision, next |-> h]]
    /\ UNCHANGED <<head, acked>>

Dropped(k) ==
    /\ job' = [job EXCEPT ![k] = NoJob]
    /\ stage' = [stage EXCEPT ![k] = NoStage]

SubmitReplay(k, r) ==
    /\ Idle(k)
    /\ Resolve(head, r) = "Replay"
    /\ acked' = acked \cup {r}
    /\ UNCHANGED <<head, job, stage>>

SubmitFresh(k, r) ==
    /\ Idle(k)
    /\ Resolve(head, r) = "Fresh"
    /\ \E h \in InlineBatch(head, r) \cup PagedBegin(head, r) : Prepare(k, r, h)

(* A repeated request takes up the paged transition it began, wherever the *)
(* coordinator that was driving it has gone.                               *)
SubmitPending(k, r) ==
    /\ Idle(k)
    /\ Resolve(head, r) = "Pending"
    /\ \E h \in Continued(head, r) : Prepare(k, r, h)

(* The loop of commit_prepared_pinned_batch after a page of its own.       *)
Continue(k) ==
    /\ ~Idle(k) /\ stage[k] = NoStage
    /\ job[k].pinned = head.revision
    /\ \E h \in Continued(head, job[k].req) : Prepare(k, job[k].req, h)

StageMaterial(k) ==
    /\ Idle(k)
    /\ MaterialCount(head) < MaxMaterial
    /\ Prepare(k, NoRequest, WithMaterial(head))

StageCompaction(k) ==
    /\ Idle(k)
    /\ \E h \in CompactedPrefix(head) \cup CompactedEventFree(head) : Prepare(k, NoRequest, h)

FaultyMayPublish(k) == stage[k] # NoStage   \* no compare
MayPublish(k) == stage[k] # NoStage /\ stage[k].parent = head.revision

(* A page of a transition: the request is reserved and not yet admitted.   *)
MoreToDo(k) == \E q \in Runs : stage[k].next.pending[q].req = job[k].req

(* publish_pinned_stage: the compare-and-commit succeeded, the coordinator *)
(* is pinned to what it published.  It goes on with the next page.         *)
PublishPage(k) ==
    /\ MayPublish(k)
    /\ job[k].req # NoRequest /\ MoreToDo(k)
    /\ head' = stage[k].next
    /\ job' = [job EXCEPT ![k].pinned = stage[k].next.revision]
    /\ stage' = [stage EXCEPT ![k] = NoStage]
    /\ UNCHANGED acked

(* The last publication answers the client.                                *)
PublishLast(k) ==
    /\ MayPublish(k)
    /\ job[k].req = NoRequest \/ ~MoreToDo(k)
    /\ head' = stage[k].next
    /\ acked' = acked \cup ({job[k].req} \ {NoRequest})
    /\ Dropped(k)

(* It succeeded and the coordinator does not know (CommitOutcomeUnknown).  *)
PublishUnknown(k) ==
    /\ MayPublish(k)
    /\ head' = stage[k].next
    /\ Dropped(k)
    /\ UNCHANGED acked

(* Somebody else published first: Conflict, on the compare or on the next  *)
(* read.                                                                   *)
LoseRace(k) ==
    /\ ~Idle(k)
    /\ job[k].pinned # head.revision
    /\ Dropped(k)
    /\ UNCHANGED <<head, acked>>

(* The process dies, or its call fails before the commit.                  *)
Crash(k) ==
    /\ ~Idle(k)
    /\ Dropped(k)
    /\ UNCHANGED <<head, acked>>

Submit(k) ==
    \E r \in Asked : SubmitReplay(k, r) \/ SubmitFresh(k, r) \/ SubmitPending(k, r)

Publish(k) == PublishPage(k) \/ PublishLast(k)

Next ==
    \E k \in Coordinators :
        \/ Submit(k) \/ Continue(k) \/ StageMaterial(k) \/ StageCompaction(k)
        \/ Publish(k) \/ PublishUnknown(k) \/ LoseRace(k) \/ Crash(k)

Spec == Init /\ [][Next]_vars

-------------------------------------------------------------------------------
(* Properties.                                                             *)

StateRoot == [revision: Nat, runs: [Runs -> RunState], pending: [Runs -> Transition],
              log: Seq(Admission), batches: Seq(BatchRecord), cutLog: Nat, cutBatches: Nat]

(* Every field of the published StateRoot and of a prepared one has its    *)
(* type: page counts never pass their end, tokens stay exact.              *)
DurableTypeOK ==
    /\ head \in StateRoot
    /\ job \in [Coordinators -> [req: Request \cup {NoRequest}, pinned: Nat]]
    /\ \A k \in Coordinators :
          /\ stage[k].parent \in {0, job[k].pinned}
          /\ stage[k] # NoStage => stage[k].next \in StateRoot
    /\ acked \subseteq Request

(* Every state is of its type, and a paged transition owns its Run from    *)
(* its first publication to its last:                                      *)
(* the Run stays as it was when the transition froze it, its command has   *)
(* not been admitted by any other way, and so the transition can always go *)
(* on (verify_fenced_paged_run never refuses).                             *)
FenceHolds ==
    /\ DurableTypeOK
    /\ \A q \in Runs :
        IF head.pending[q] = NoTransition THEN head.runs[q].status # "Fenced"
        ELSE /\ OwnsFence(head, q)
             /\ \A i \in DOMAIN head.log :
                    head.log[i].cmd \notin Members(head.pending[q].req.cmds)

(* A Machine restored from the base and the hot batches accepts every one  *)
(* of them: the root a batch was frozen on is still there, and no batch of *)
(* the same Run came between (MachineReplayAncestry::verify_source).       *)
RestoreSucceeds ==
    \A b \in head.cutBatches + 1 .. Len(head.batches) :
        /\ head.batches[b].source \in head.cutBatches .. b - 1
        /\ \A d \in head.batches[b].source + 1 .. b - 1 :
              Touched(head.batches[d].req.cmds) \cap Touched(head.batches[b].req.cmds) = {}

(* Whatever compaction has moved, the repetition of an admitted request is *)
(* answered as a replay, never as a conflict and never admitted again.     *)
ReplayIsExact ==
    \A b \in DOMAIN head.batches :
        head.batches[b].req # NoRequest => Resolve(head, head.batches[b].req) = "Replay"

Register == INSTANCE CommandRegister WITH
    admitted <- {head.batches[b].req : b \in DOMAIN head.batches} \ {NoRequest},
    version <- [q \in Runs |-> head.runs[q].token],
    acked <- acked

(* Publishing page by page from several coordinators, crashing and         *)
(* repeating, implements the atomic register: exactly once, all or         *)
(* nothing, on the state the client saw, and an answer is never taken back.*)
(* (CommandRegisterProofs: then the history of every Run is one line.)     *)
ImplementsRegister == Register!RegisterSpec

(* Each publication leaves a transition under way with fewer pages to go,  *)
(* or ends it, or does not touch it.                                       *)
PagesDecrease ==
    [][\A q \in Runs : head.pending[q] # NoTransition =>
          \/ head'.pending[q] \in {head.pending[q], NoTransition}
          \/ head'.pending[q].effects + head'.pending[q].scopes
                < head.pending[q].effects + head.pending[q].scopes]_vars

(* A fence can always be released: any coordinator that is asked again can *)
(* take the transition up, after any crash of the one that began it, and   *)
(* each page it publishes leaves fewer to do.                              *)
FenceFinishable ==
    /\ [](\A q \in Runs : head.pending[q] # NoTransition =>
             \A k \in Coordinators : Idle(k) => ENABLED SubmitPending(k, head.pending[q].req))
    /\ PagesDecrease
===============================================================================
