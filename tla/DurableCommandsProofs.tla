------------------------ MODULE DurableCommandsProofs ------------------------
(***************************************************************************)
(* Theorems of DurableCommands, for any number of Runs, commands and       *)
(* coordinators: paged transitions keep their fence, compaction never      *)
(* removes what a restore or a replay needs, and the whole implements the  *)
(* atomic register of CommandRegister.                                     *)
(*                                                                         *)
(* The inductive invariant has two halves.  Well says of one StateRoot     *)
(* what makes it restorable; each way of making a successor keeps it.      *)
(* StageInv says of a prepared StateRoot that it is such a successor of    *)
(* the head for as long as the compare of its publication would succeed.   *)
(***************************************************************************)
EXTENDS DurableCommands, FiniteSetTheorems, SequenceTheorems, TLAPS

-----------------------------------------------------------------------------
(* One StateRoot.                                                          *)

Typed(h) ==
    /\ h \in StateRoot
    /\ h.revision >= 1
    /\ h.cutLog <= Len(h.log) /\ h.cutBatches <= Len(h.batches)

(* The log is the commands of the batches, batch after batch, each command *)
(* in one batch only.                                                      *)
LogOrdered(h) ==
    \A i \in DOMAIN h.log :
        /\ h.log[i].batch \in DOMAIN h.batches
        /\ h.log[i].cmd \in Members(h.batches[h.log[i].batch].req.cmds)
        /\ \A j \in DOMAIN h.log :
              /\ i <= j => h.log[i].batch <= h.log[j].batch
              /\ h.log[i].cmd = h.log[j].cmd => h.log[i].batch = h.log[j].batch

BatchesLogged(h) ==
    \A b \in DOMAIN h.batches : \A c \in Members(h.batches[b].req.cmds) :
        \E i \in DOMAIN h.log : h.log[i].cmd = c /\ h.log[i].batch = b

(* Compaction never splits a batch.                                        *)
CutAligned(h) ==
    \A i \in DOMAIN h.log : i <= h.cutLog <=> h.log[i].batch <= h.cutBatches

Restorable(h) ==
    \A b \in h.cutBatches + 1 .. Len(h.batches) :
        /\ h.batches[b].source \in h.cutBatches .. b - 1
        /\ \A d \in h.batches[b].source + 1 .. b - 1 :
              Touched(h.batches[d].req.cmds) \cap Touched(h.batches[b].req.cmds) = {}

(* A transition is of one command of its Run, can be admitted as it was    *)
(* frozen, and nothing has been admitted to the Run since.                 *)
Owned(h, q) ==
    LET t == h.pending[q] IN
    /\ t.req \in Request /\ Len(t.req.cmds) = 1
    /\ RunOf[t.req.cmds[1]] = q /\ Kind[t.req.cmds[1]] \in {"Close", "End"}
    /\ OwnsFence(h, q)
    /\ h.runs[q].token + CountOn(t.req.cmds, q) <= MaxToken
    /\ \A i \in DOMAIN h.log : h.log[i].cmd # t.req.cmds[1]
    /\ t.source \in h.cutBatches .. Len(h.batches)
    /\ \A d \in t.source + 1 .. Len(h.batches) : q \notin Touched(h.batches[d].req.cmds)

FencesOwned(h) ==
    \A q \in Runs : IF h.pending[q] = NoTransition THEN h.runs[q].status # "Fenced"
                    ELSE Owned(h, q)

History(h) == LogOrdered(h) /\ BatchesLogged(h) /\ CutAligned(h) /\ Restorable(h)

Well(h) == Typed(h) /\ History(h) /\ FencesOwned(h)

(* The successors of h a coordinator may prepare for the request r.        *)
Prepared(h, r) ==
    IF r = NoRequest
    THEN {WithMaterial(h)} \cup CompactedPrefix(h) \cup CompactedEventFree(h)
    ELSE Continued(h, r) \cup
         (IF Resolve(h, r) = "Fresh" THEN InlineBatch(h, r) \cup PagedBegin(h, r) ELSE {})

StageInv ==
    /\ DOMAIN stage = Coordinators
    /\ \A k \in Coordinators :
          /\ stage[k].parent \in {0, job[k].pinned}
          /\ stage[k].parent <= head.revision
          /\ stage[k] # NoStage => stage[k].parent # 0 /\ stage[k].next \in StateRoot
          /\ stage[k].parent = head.revision => stage[k].next \in Prepared(head, job[k].req)

JobInv ==
    /\ job \in [Coordinators -> [req: Request \cup {NoRequest}, pinned: Nat]]
    /\ acked \subseteq Request

Inv == Well(head) /\ StageInv /\ JobInv

-----------------------------------------------------------------------------
(* Requests.                                                               *)

LEMMA RequestFacts ==
    ASSUME NEW r \in Request
    PROVE  /\ r.cmds \in Batches /\ r.pre \in [Runs -> 0..MaxToken]
           /\ r.cmds \in Seq(Commands) /\ r.cmds # <<>>
           /\ r # NoRequest
           /\ Members(r.cmds) \subseteq Commands /\ Members(r.cmds) # {}
           /\ Touched(r.cmds) \subseteq Runs
<1>1. r.cmds \in Batches /\ r.pre \in [Runs -> 0..MaxToken]
    BY DEF Request
<1>2. r.cmds \in Seq(Commands) /\ r.cmds # <<>>
    BY <1>1, BatchAssumption
<1>3. r # NoRequest
    BY <1>2 DEF NoRequest
<1>4. Members(r.cmds) \subseteq Commands /\ Members(r.cmds) # {}
    <2>1. DOMAIN r.cmds = 1..Len(r.cmds) /\ \A i \in 1..Len(r.cmds) : r.cmds[i] \in Commands
        BY <1>2
    <2>2. Len(r.cmds) \in Nat \ {0}
        BY <1>2, EmptySeq
    <2>3. 1 \in DOMAIN r.cmds
        BY <2>1, <2>2
    <2>4. QED
        BY <2>1, <2>3, Zenon DEF Members
<1>5. Touched(r.cmds) \subseteq Runs
    BY <1>4, CommandAssumption DEF Touched
<1>6. QED
    BY <1>1, <1>2, <1>3, <1>4, <1>5

LEMMA NoMembers == Members(NoRequest.cmds) = {} /\ Touched(NoRequest.cmds) = {}
BY DEF NoRequest, Members, Touched

LEMMA CountFacts ==
    ASSUME NEW r \in Request, NEW q \in Runs
    PROVE  /\ CountOn(r.cmds, q) \in Nat
           /\ q \notin Touched(r.cmds) => CountOn(r.cmds, q) = 0
<1> DEFINE S == {c \in Members(r.cmds) : RunOf[c] = q}
<1>1. IsFiniteSet(S)
    BY RequestFacts, CommandAssumption, FS_Subset
<1>2. CountOn(r.cmds, q) = Cardinality(S) /\ Cardinality(S) \in Nat
    BY <1>1, FS_CardinalityType DEF CountOn
<1>3. q \notin Touched(r.cmds) => S = {}
    BY DEF Touched
<1>4. QED
    BY <1>2, <1>3, FS_EmptySet

-----------------------------------------------------------------------------
(* The fields of the successors of a StateRoot.                            *)

NewEntries(h, r) == [i \in DOMAIN r.cmds |-> [cmd |-> r.cmds[i], batch |-> Root(h) + 1]]

NewRuns(h, r) ==
    [q \in Runs |->
        IF q \in Touched(r.cmds)
        THEN [token |-> h.runs[q].token + CountOn(r.cmds, q),
              status |-> IF h.runs[q].status = "Ended" THEN "Ended" ELSE "Ready"]
        ELSE h.runs[q]]

LEMMA RootFields ==
    ASSUME NEW h \in StateRoot
    PROVE  /\ h = [revision |-> h.revision, runs |-> h.runs, pending |-> h.pending,
                   log |-> h.log, batches |-> h.batches, cutLog |-> h.cutLog,
                   cutBatches |-> h.cutBatches]
           /\ h.revision \in Nat /\ h.runs \in [Runs -> RunState]
           /\ h.pending \in [Runs -> Transition] /\ h.log \in Seq(Admission)
           /\ h.batches \in Seq(BatchRecord) /\ h.cutLog \in Nat /\ h.cutBatches \in Nat
           /\ Len(h.log) \in Nat /\ Len(h.batches) \in Nat
           /\ DOMAIN h.log = 1..Len(h.log) /\ DOMAIN h.batches = 1..Len(h.batches)
BY DEF StateRoot

(* n differs from h in the fields given.                                   *)
Fields(n, h, runs, pending, log, batches, cutLog, cutBatches) ==
    /\ n.revision = h.revision + 1
    /\ n.runs = runs /\ n.pending = pending
    /\ n.log = log /\ n.batches = batches
    /\ n.cutLog = cutLog /\ n.cutBatches = cutBatches

LEMMA SuccessorFields ==
    ASSUME NEW h \in StateRoot
    PROVE  /\ Successor(h) \in StateRoot
           /\ Fields(Successor(h), h, h.runs, h.pending, h.log, h.batches, h.cutLog, h.cutBatches)
BY SMTT(60) DEF Successor, StateRoot, Fields

LEMMA AdmittedFields ==
    ASSUME NEW h \in StateRoot, NEW r, NEW source
    PROVE  Fields(Admitted(h, r, source), h, NewRuns(h, r), h.pending,
                  h.log \o NewEntries(h, r), Append(h.batches, [req |-> r, source |-> source]),
                  h.cutLog, h.cutBatches)
<1>1. Admitted(h, r, source) =
        [Successor(h) EXCEPT !.log = h.log \o NewEntries(h, r),
                             !.batches = Append(h.batches, [req |-> r, source |-> source]),
                             !.runs = NewRuns(h, r)]
    BY SuccessorFields, Zenon DEF Admitted, NewRuns, NewEntries, Fields
<1>2. QED
    BY <1>1, SuccessorFields DEF Fields, StateRoot

(* What an admission adds to the log and does to the Runs has its type.    *)
LEMMA NewEntriesTyped ==
    ASSUME NEW h \in StateRoot, NEW r \in Request
    PROVE  /\ NewEntries(h, r) \in Seq(Admission)
           /\ Len(NewEntries(h, r)) = Len(r.cmds)
           /\ \A i \in 1..Len(r.cmds) :
                 NewEntries(h, r)[i] = [cmd |-> r.cmds[i], batch |-> Len(h.batches) + 1]
<1>1. /\ r.cmds \in Seq(Commands) /\ Len(r.cmds) \in Nat /\ DOMAIN r.cmds = 1..Len(r.cmds)
      /\ \A i \in 1..Len(r.cmds) : r.cmds[i] \in Commands
    BY RequestFacts
<1>2. Len(h.batches) + 1 \in Nat
    BY RootFields
<1>3. NewEntries(h, r) \in [1..Len(r.cmds) -> Admission]
    BY <1>1, <1>2 DEF NewEntries, Admission, Root
<1>4. NewEntries(h, r) \in Seq(Admission) /\ Len(NewEntries(h, r)) = Len(r.cmds)
    BY <1>1, <1>3, IsASeq
<1>5. QED
    BY <1>1, <1>4 DEF NewEntries, Root

LEMMA NewRunsTyped ==
    ASSUME NEW h \in StateRoot, NEW r \in Request, InBounds(h, r)
    PROVE  NewRuns(h, r) \in [Runs -> RunState]
<1> SUFFICES ASSUME NEW q \in Runs
             PROVE  NewRuns(h, r)[q] \in RunState
    BY DEF NewRuns
<1>1. h.runs[q] \in RunState
    BY RootFields
<1>2. CASE q \in Touched(r.cmds)
    <2>1. h.runs[q].token \in Nat /\ h.runs[q].token + CountOn(r.cmds, q) <= MaxToken
        BY <1>1, <1>2, CommandAssumption DEF RunState, InBounds
    <2>2. h.runs[q].token + CountOn(r.cmds, q) \in 0..MaxToken
        BY <2>1, CountFacts, CommandAssumption
    <2>3. QED
        BY <1>2, <2>2 DEF NewRuns, RunState
<1>3. CASE q \notin Touched(r.cmds)
    BY <1>1, <1>3 DEF NewRuns
<1>4. QED
    BY <1>2, <1>3

LEMMA AdmittedTyped ==
    ASSUME NEW h \in StateRoot, NEW r \in Request, NEW source \in Nat, InBounds(h, r)
    PROVE  Admitted(h, r, source) \in StateRoot
<1>1. Admitted(h, r, source) =
        [Successor(h) EXCEPT !.log = h.log \o NewEntries(h, r),
                             !.batches = Append(h.batches, [req |-> r, source |-> source]),
                             !.runs = NewRuns(h, r)]
    BY SuccessorFields, Zenon DEF Admitted, NewRuns, NewEntries, Fields
<1>2. h.log \o NewEntries(h, r) \in Seq(Admission)
    BY RootFields, NewEntriesTyped, ConcatProperties
<1>3. Append(h.batches, [req |-> r, source |-> source]) \in Seq(BatchRecord)
    BY RootFields, AppendProperties DEF BatchRecord
<1>4. NewRuns(h, r) \in [Runs -> RunState] /\ Successor(h) \in StateRoot
    BY NewRunsTyped, SuccessorFields
<1> DEFINE log == h.log \o NewEntries(h, r)
           batches == Append(h.batches, [req |-> r, source |-> source])
           runs == NewRuns(h, r)
           g == Successor(h)
<1> HIDE DEF log, batches, runs, g
<1>5. [g EXCEPT !.log = log, !.batches = batches, !.runs = runs] \in StateRoot
    BY <1>2, <1>3, <1>4 DEF StateRoot, log, batches, runs, g
<1>6. QED
    BY <1>1, <1>5 DEF log, batches, runs, g

LEMMA FinalizedFields ==
    ASSUME NEW h \in StateRoot, NEW q \in Runs, NEW r \in Request, r = h.pending[q].req,
           InBounds(h, r)
    PROVE  /\ Finalized(h, q) \in StateRoot
           /\ Fields(Finalized(h, q), h,
                  [NewRuns(h, r) EXCEPT ![q].status =
                      IF Kind[r.cmds[1]] = "End" THEN "Ended" ELSE "Ready"],
                  [h.pending EXCEPT ![q] = NoTransition],
                  h.log \o NewEntries(h, r),
                  Append(h.batches, [req |-> r, source |-> h.pending[q].source]),
                  h.cutLog, h.cutBatches)
<1> DEFINE n == Admitted(h, r, h.pending[q].source)
           s == IF Kind[r.cmds[1]] = "End" THEN "Ended" ELSE "Ready"
<1>1. h.pending[q].source \in Nat
    BY RootFields DEF Transition
<1>2. n \in StateRoot
    BY <1>1, AdmittedTyped
<1>3. Finalized(h, q) = [n EXCEPT !.runs[q].status = s, !.pending[q] = NoTransition]
    BY DEF Finalized
<1>4. Fields(n, h, NewRuns(h, r), h.pending, h.log \o NewEntries(h, r),
             Append(h.batches, [req |-> r, source |-> h.pending[q].source]),
             h.cutLog, h.cutBatches)
    BY AdmittedFields
<1>5. /\ s \in {"Ended", "Ready"} /\ NoTransition \in Transition
      /\ n.runs \in [Runs -> RunState] /\ n.pending \in [Runs -> Transition]
    BY <1>2, RootFields, DurableAssumption, SMTT(60) DEF NoTransition, Transition
<1>6. [n.runs EXCEPT ![q].status = s] \in [Runs -> RunState]
    BY <1>5 DEF RunState
<1>7. [n.pending EXCEPT ![q] = NoTransition] \in [Runs -> Transition]
    BY <1>5
<1> HIDE DEF n, s
<1>8. /\ Finalized(h, q) \in StateRoot
      /\ Finalized(h, q).runs = [n.runs EXCEPT ![q].status = s]
      /\ Finalized(h, q).pending = [n.pending EXCEPT ![q] = NoTransition]
      /\ Finalized(h, q).revision = n.revision
      /\ Finalized(h, q).log = n.log /\ Finalized(h, q).batches = n.batches
      /\ Finalized(h, q).cutLog = n.cutLog /\ Finalized(h, q).cutBatches = n.cutBatches
    BY <1>2, <1>3, <1>6, <1>7 DEF StateRoot
<1>9. QED
    BY <1>4, <1>8 DEF Fields, s

LEMMA PagedFields ==
    ASSUME NEW h \in StateRoot, NEW q \in Runs
    PROVE  Fields(Paged(h, q), h, h.runs,
                  [h.pending EXCEPT ![q] =
                      IF h.pending[q].effects > 0
                      THEN [h.pending[q] EXCEPT !.effects = @ - 1]
                      ELSE [h.pending[q] EXCEPT !.scopes = @ - 1]],
                  h.log, h.batches, h.cutLog, h.cutBatches)
BY SuccessorFields DEF Paged, Fields, StateRoot

-----------------------------------------------------------------------------
(* The history of a StateRoot.                                             *)

(* The log and the batches after an admission, position by position.       *)
ExtendsLog(log, h, r) ==
    LET N == Len(h.log)
        m == Len(r.cmds)
    IN /\ Len(log) = N + m /\ m \in Nat /\ DOMAIN log = 1..(N + m)
       /\ \A i \in 1..N : log[i] = h.log[i]
       /\ \A i \in N + 1 .. N + m :
             log[i].cmd \in Members(r.cmds) /\ log[i].batch = Len(h.batches) + 1
       /\ \A c \in Members(r.cmds) : \E i \in N + 1 .. N + m : log[i].cmd = c

ExtendsBatches(batches, h, r, source) ==
    LET B == Len(h.batches)
    IN /\ Len(batches) = B + 1 /\ DOMAIN batches = 1..(B + 1)
       /\ \A b \in 1..B : batches[b] = h.batches[b]
       /\ batches[B + 1].req = r /\ batches[B + 1].source = source

LEMMA ExtendedLog ==
    ASSUME NEW h \in StateRoot, NEW r \in Request,
           NEW log, log = h.log \o NewEntries(h, r)
    PROVE  ExtendsLog(log, h, r)
<1> DEFINE N == Len(h.log)
           m == Len(r.cmds)
<1>1. /\ h.log \in Seq(Admission) /\ N \in Nat /\ m \in Nat /\ DOMAIN r.cmds = 1..m
      /\ NewEntries(h, r) \in Seq(Admission) /\ Len(NewEntries(h, r)) = m
    BY RootFields, RequestFacts, NewEntriesTyped
<1>2. /\ log \in Seq(Admission) /\ Len(log) = N + m
      /\ \A i \in 1..(N + m) : log[i] = IF i <= N THEN h.log[i] ELSE NewEntries(h, r)[i - N]
    <2>1. Len(h.log) + Len(NewEntries(h, r)) = N + m
        BY <1>1
    <2> DEFINE new == NewEntries(h, r)
    <2> HIDE DEF new
    <2>2. new \in Seq(Admission) /\ log = h.log \o new
        BY <1>1 DEF new
    <2>3. /\ log \in Seq(Admission) /\ Len(log) = Len(h.log) + Len(new)
          /\ \A i \in 1..(Len(h.log) + Len(new)) :
                log[i] = IF i <= Len(h.log) THEN h.log[i] ELSE new[i - Len(h.log)]
        <3>1. h.log \in Seq(Admission)
            BY <1>1
        <3>2. QED
            BY ONLY <3>1, <2>2, ConcatProperties
    <2>4. QED
        BY <2>1, <2>3, Zenon DEF new
<1>3. DOMAIN log = 1..(N + m)
    BY <1>2, LenProperties
<1> HIDE DEF N, m
<1>4. \A i \in 1..N : log[i] = h.log[i]
    BY <1>1, <1>2
<1>5. ASSUME NEW i \in N + 1 .. N + m
      PROVE  /\ i - N \in DOMAIN r.cmds /\ log[i].cmd = r.cmds[i - N]
             /\ log[i].cmd \in Members(r.cmds)
             /\ log[i].batch = Len(h.batches) + 1
    <2>1. i - N \in 1..m /\ i \in 1..(N + m) /\ ~(i <= N)
        BY <1>1
    <2>2. log[i] = [cmd |-> r.cmds[i - N], batch |-> Len(h.batches) + 1]
        <3>1. log[i] = NewEntries(h, r)[i - N]
            BY <2>1, <1>2
        <3>2. NewEntries(h, r)[i - N] = [cmd |-> r.cmds[i - N], batch |-> Len(h.batches) + 1]
            BY <2>1, NewEntriesTyped DEF m
        <3>3. QED
            BY <3>1, <3>2
    <2>3. QED
        BY <2>1, <2>2, <1>1 DEF Members
<1>6. ASSUME NEW c \in Members(r.cmds)
      PROVE  \E i \in N + 1 .. N + m : log[i].cmd = c
    <2>1. PICK j \in 1..m : r.cmds[j] = c
        BY <1>1 DEF Members
    <2>2. N + j \in N + 1 .. N + m /\ (N + j) - N = j
        BY <1>1
    <2>3. QED
        BY <2>1, <2>2, <1>5
<1>7. QED
    BY <1>1, <1>2, <1>3, <1>4, <1>5, <1>6 DEF N, m, ExtendsLog

LEMMA ExtendedBatches ==
    ASSUME NEW h \in StateRoot, NEW r \in Request \cup {NoRequest}, NEW source \in Nat
    PROVE  ExtendsBatches(Append(h.batches, [req |-> r, source |-> source]), h, r, source)
<1>1. [req |-> r, source |-> source] \in BatchRecord
    BY DEF BatchRecord
<1>2. QED
    BY <1>1, RootFields, AppendProperties DEF ExtendsBatches

(* The history of n is the one of h and the batch r.                       *)
Extends(n, h, r, source) ==
    /\ ExtendsLog(n.log, h, r) /\ ExtendsBatches(n.batches, h, r, source)
    /\ n.cutLog = h.cutLog /\ n.cutBatches = h.cutBatches

LEMMA FieldsExtend ==
    ASSUME NEW h \in StateRoot, NEW r \in Request, NEW source \in Nat,
           NEW n, NEW runs, NEW pending,
           Fields(n, h, runs, pending, h.log \o NewEntries(h, r),
                  Append(h.batches, [req |-> r, source |-> source]), h.cutLog, h.cutBatches)
    PROVE  Extends(n, h, r, source)
BY ExtendedLog, ExtendedBatches, Zenon DEF Extends, Fields

(* An admission of new commands, frozen on a root that is still hot and    *)
(* after which nothing touched its Runs, keeps the history restorable.     *)
LEMMA HistoryExtended ==
    ASSUME NEW h, NEW n, Typed(h), History(h),
           NEW r \in Request, NEW source \in h.cutBatches .. Len(h.batches),
           Extends(n, h, r, source),
           \A i \in DOMAIN h.log : h.log[i].cmd \notin Members(r.cmds),
           \A d \in source + 1 .. Len(h.batches) :
              Touched(h.batches[d].req.cmds) \cap Touched(r.cmds) = {}
    PROVE  /\ History(n)
           /\ n.cutLog <= Len(n.log) /\ n.cutBatches <= Len(n.batches)
<1> DEFINE N == Len(h.log)
           m == Len(r.cmds)
           B == Len(h.batches)
<1>1. /\ N \in Nat /\ B \in Nat
      /\ DOMAIN h.log = 1..N /\ DOMAIN h.batches = 1..B
      /\ h.cutLog \in Nat /\ h.cutBatches \in Nat /\ h.cutLog <= N /\ h.cutBatches <= B
      /\ source \in Nat /\ source \in h.cutBatches .. B
    BY RootFields DEF Typed
<1>2. /\ Len(n.log) = N + m /\ m \in Nat /\ DOMAIN n.log = 1..(N + m)
      /\ \A i \in 1..N : n.log[i] = h.log[i]
      /\ \A i \in N + 1 .. N + m : n.log[i].cmd \in Members(r.cmds) /\ n.log[i].batch = B + 1
      /\ n.cutLog = h.cutLog /\ n.cutBatches = h.cutBatches
    BY DEF Extends, ExtendsLog, ExtendsBatches
<1>2a. \A c \in Members(r.cmds) : \E i \in N + 1 .. N + m : n.log[i].cmd = c
    BY DEF Extends, ExtendsLog, ExtendsBatches
<1>3. /\ Len(n.batches) = B + 1 /\ DOMAIN n.batches = 1..(B + 1)
      /\ \A b \in 1..B : n.batches[b] = h.batches[b]
      /\ n.batches[B + 1].req = r /\ n.batches[B + 1].source = source
    BY DEF Extends, ExtendsLog, ExtendsBatches
<1> HIDE DEF N, m, B
<1>4. \A i \in 1..N : h.log[i].batch \in 1..B
    BY <1>1 DEF History, LogOrdered
<1>5. LogOrdered(n)
    <2> SUFFICES ASSUME NEW i \in 1..(N + m), NEW j \in 1..(N + m)
                 PROVE  /\ n.log[i].batch \in 1..(B + 1)
                        /\ n.log[i].cmd \in Members(n.batches[n.log[i].batch].req.cmds)
                        /\ i <= j => n.log[i].batch <= n.log[j].batch
                        /\ n.log[i].cmd = n.log[j].cmd => n.log[i].batch = n.log[j].batch
        BY <1>2, <1>3, Zenon DEF LogOrdered
    <2>1. i \in 1..N \/ i \in N + 1 .. N + m
        BY <1>1, <1>2
    <2>2. j \in 1..N \/ j \in N + 1 .. N + m
        BY <1>1, <1>2
    <2>3. n.log[i].batch \in 1..(B + 1)
        <3>1. CASE i \in 1..N
            <4>1. n.log[i] = h.log[i]
                BY <3>1, <1>2
            <4>2. h.log[i].batch \in 1..B
                BY <3>1, <1>4
            <4>3. QED
                BY <4>1, <4>2, <1>1
        <3>2. CASE i \in N + 1 .. N + m
            <4>1. n.log[i].batch = B + 1
                BY <3>2, <1>2
            <4>2. QED
                BY <4>1, <1>1
        <3>3. QED
            BY <2>1, <3>1, <3>2
    <2>4. n.log[i].cmd \in Members(n.batches[n.log[i].batch].req.cmds)
        <3>1. CASE i \in 1..N
            <4>1. /\ n.log[i] = h.log[i] /\ h.log[i].batch \in 1..B
                  /\ n.batches[h.log[i].batch] = h.batches[h.log[i].batch]
                BY <3>1, <1>2, <1>3, <1>4
            <4>2. h.log[i].cmd \in Members(h.batches[h.log[i].batch].req.cmds)
                BY <3>1, <1>1 DEF History, LogOrdered
            <4>3. QED
                BY <4>1, <4>2
        <3>2. CASE i \in N + 1 .. N + m
            BY <3>2, <1>2, <1>3
        <3>3. QED
            BY <2>1, <3>1, <3>2
    <2>5. i <= j => n.log[i].batch <= n.log[j].batch
        <3>1. CASE i \in 1..N /\ j \in 1..N
            BY <3>1, <1>1, <1>2 DEF History, LogOrdered
        <3>2. CASE j \in N + 1 .. N + m
            BY <3>2, <2>3, <1>1, <1>2
        <3>3. CASE i \in N + 1 .. N + m /\ j \in 1..N
            BY <3>3, <1>1
        <3>4. QED
            BY <2>1, <2>2, <3>1, <3>2, <3>3
    <2>6. n.log[i].cmd = n.log[j].cmd => n.log[i].batch = n.log[j].batch
        <3>1. CASE i \in 1..N /\ j \in 1..N
            <4>1. n.log[i] = h.log[i] /\ n.log[j] = h.log[j]
                BY <3>1, <1>2
            <4>2. h.log[i].cmd = h.log[j].cmd => h.log[i].batch = h.log[j].batch
                BY <3>1, <1>1 DEF History, LogOrdered
            <4>3. QED
                BY <4>1, <4>2
        <3>2. CASE i \in N + 1 .. N + m /\ j \in N + 1 .. N + m
            BY <3>2, <1>2
        <3>3. CASE i \in 1..N /\ j \in N + 1 .. N + m
            BY <3>3, <1>1, <1>2
        <3>4. CASE i \in N + 1 .. N + m /\ j \in 1..N
            BY <3>4, <1>1, <1>2
        <3>5. QED
            BY <2>1, <2>2, <3>1, <3>2, <3>3, <3>4
    <2>7. QED
        BY <2>3, <2>4, <2>5, <2>6
<1>6. BatchesLogged(n)
    <2> SUFFICES ASSUME NEW b \in 1..(B + 1), NEW c \in Members(n.batches[b].req.cmds)
                 PROVE  \E i \in DOMAIN n.log : n.log[i].cmd = c /\ n.log[i].batch = b
        BY <1>3 DEF BatchesLogged
    <2>1. CASE b \in 1..B
        <3>1. n.batches[b] = h.batches[b]
            BY <2>1, <1>3
        <3>2. PICK i \in 1..N : h.log[i].cmd = c /\ h.log[i].batch = b
            <4>1. b \in DOMAIN h.batches /\ c \in Members(h.batches[b].req.cmds)
                BY <2>1, <3>1, <1>1
            <4>2. QED
                BY <4>1, <1>1, ZenonT(60) DEF History, BatchesLogged
        <3>3. i \in DOMAIN n.log /\ n.log[i] = h.log[i]
            BY <1>1, <1>2
        <3>4. QED
            BY <3>2, <3>3
    <2>2. CASE b = B + 1
        <3>1. PICK i \in N + 1 .. N + m : n.log[i].cmd = c
            BY <2>2, <1>2a, <1>3
        <3>2. i \in DOMAIN n.log /\ n.log[i].batch = b
            BY <2>2, <1>1, <1>2
        <3>3. QED
            BY <3>1, <3>2
    <2>3. QED
        BY <2>1, <2>2, <1>1
<1>7. CutAligned(n)
    <2> SUFFICES ASSUME NEW i \in 1..(N + m)
                 PROVE  i <= h.cutLog <=> n.log[i].batch <= h.cutBatches
        BY <1>2 DEF CutAligned
    <2>1. CASE i \in 1..N
        BY <2>1, <1>1, <1>2 DEF History, CutAligned
    <2>2. CASE i \in N + 1 .. N + m
        BY <2>2, <1>1, <1>2
    <2>3. QED
        BY <2>1, <2>2, <1>1, <1>2
<1>8. Restorable(n)
    <2> SUFFICES ASSUME NEW b \in h.cutBatches + 1 .. B + 1
                 PROVE  /\ n.batches[b].source \in h.cutBatches .. b - 1
                        /\ \A d \in n.batches[b].source + 1 .. b - 1 :
                              Touched(n.batches[d].req.cmds) \cap Touched(n.batches[b].req.cmds) = {}
        BY <1>2, <1>3, Zenon DEF Restorable
    <2>1. CASE b \in h.cutBatches + 1 .. B
        <3>1. /\ h.batches[b].source \in h.cutBatches .. b - 1
              /\ \A d \in h.batches[b].source + 1 .. b - 1 :
                    Touched(h.batches[d].req.cmds) \cap Touched(h.batches[b].req.cmds) = {}
            BY <2>1 DEF History, Restorable, B
        <3>2. n.batches[b] = h.batches[b]
            BY <2>1, <1>1, <1>3
        <3>3. \A d \in h.batches[b].source + 1 .. b - 1 : d \in 1..B
            BY <2>1, <3>1, <1>1
        <3>4. \A d \in h.batches[b].source + 1 .. b - 1 : n.batches[d] = h.batches[d]
            BY <3>3, <1>3
        <3>5. QED
            BY <3>1, <3>2, <3>4, Zenon
    <2>2. CASE b = B + 1
        <3>1. \A d \in source + 1 .. B : n.batches[d] = h.batches[d]
            BY <1>1, <1>3
        <3>2. n.batches[b].source = source /\ n.batches[b].req = r /\ b - 1 = B
            BY <2>2, <1>1, <1>3
        <3>3. \A d \in source + 1 .. B : Touched(h.batches[d].req.cmds) \cap Touched(r.cmds) = {}
            BY DEF B
        <3>4. QED
            BY <3>1, <3>2, <3>3, <1>1, Zenon
    <2>3. QED
        BY <2>1, <2>2, <1>1
<1>9. n.cutLog <= Len(n.log) /\ n.cutBatches <= Len(n.batches)
    BY <1>1, <1>2, <1>3
<1>10. QED
    BY <1>5, <1>6, <1>7, <1>8, <1>9 DEF History

LEMMA SameHistory ==
    ASSUME NEW h, NEW n, History(h), n.log = h.log, n.batches = h.batches,
           n.cutLog = h.cutLog, n.cutBatches = h.cutBatches
    PROVE  History(n)
<1>1. LogOrdered(n)
    BY DEF History, LogOrdered
<1>2. BatchesLogged(n)
    BY DEF History, BatchesLogged
<1>3. CutAligned(n)
    BY DEF History, CutAligned
<1>4. Restorable(n)
    BY DEF History, Restorable
<1>5. QED
    BY <1>1, <1>2, <1>3, <1>4 DEF History

(* A batch without commands.                                               *)
LEMMA HistoryWithMaterial ==
    ASSUME NEW h, NEW n, Typed(h), History(h),
           n.log = h.log, ExtendsBatches(n.batches, h, NoRequest, Len(h.batches)),
           n.cutLog = h.cutLog, n.cutBatches = h.cutBatches
    PROVE  History(n) /\ n.cutBatches <= Len(n.batches)
<1> DEFINE B == Len(h.batches)
<1>1. /\ B \in Nat /\ DOMAIN h.batches = 1..B
      /\ h.cutBatches \in Nat /\ h.cutBatches <= B
    BY RootFields DEF Typed
<1>2. /\ Len(n.batches) = B + 1 /\ DOMAIN n.batches = 1..(B + 1)
      /\ \A b \in 1..B : n.batches[b] = h.batches[b]
      /\ n.batches[B + 1].req = NoRequest /\ n.batches[B + 1].source = B
    BY DEF ExtendsBatches
<1> HIDE DEF B
<1>3. LogOrdered(n)
    <2> SUFFICES ASSUME NEW i \in DOMAIN h.log
                 PROVE  /\ h.log[i].batch \in DOMAIN n.batches
                        /\ h.log[i].cmd \in Members(n.batches[h.log[i].batch].req.cmds)
        BY DEF LogOrdered, History
    <2>1. /\ h.log[i].batch \in 1..B
          /\ h.log[i].cmd \in Members(h.batches[h.log[i].batch].req.cmds)
        BY <1>1 DEF History, LogOrdered
    <2>2. h.log[i].batch \in DOMAIN n.batches
        BY <2>1, <1>1, <1>2
    <2>3. n.batches[h.log[i].batch] = h.batches[h.log[i].batch]
        BY <2>1, <1>2
    <2>4. QED
        BY <2>1, <2>2, <2>3
<1>4. BatchesLogged(n)
    <2> SUFFICES ASSUME NEW b \in 1..(B + 1), NEW c \in Members(n.batches[b].req.cmds)
                 PROVE  \E i \in DOMAIN h.log : h.log[i].cmd = c /\ h.log[i].batch = b
        BY <1>2, SMTT(60) DEF BatchesLogged
    <2>1. b # B + 1
        BY <1>2, NoMembers
    <2>2. b \in DOMAIN h.batches /\ n.batches[b] = h.batches[b]
        BY <2>1, <1>1, <1>2
    <2>3. QED
        BY <2>2, ZenonT(60) DEF History, BatchesLogged
<1>5. CutAligned(n)
    BY DEF CutAligned, History
<1>6. Restorable(n)
    <2> SUFFICES ASSUME NEW b \in h.cutBatches + 1 .. B + 1
                 PROVE  /\ n.batches[b].source \in h.cutBatches .. b - 1
                        /\ \A d \in n.batches[b].source + 1 .. b - 1 :
                              Touched(n.batches[d].req.cmds) \cap Touched(n.batches[b].req.cmds) = {}
        BY <1>2, Zenon DEF Restorable
    <2>1. CASE b \in h.cutBatches + 1 .. B
        <3>1. /\ h.batches[b].source \in h.cutBatches .. b - 1
              /\ \A d \in h.batches[b].source + 1 .. b - 1 :
                    Touched(h.batches[d].req.cmds) \cap Touched(h.batches[b].req.cmds) = {}
            BY <2>1 DEF History, Restorable, B
        <3>2. n.batches[b] = h.batches[b]
            BY <2>1, <1>1, <1>2
        <3>3. \A d \in h.batches[b].source + 1 .. b - 1 : d \in 1..B
            BY <2>1, <3>1, <1>1
        <3>4. \A d \in h.batches[b].source + 1 .. b - 1 : n.batches[d] = h.batches[d]
            BY <3>3, <1>2
        <3>5. QED
            BY <3>1, <3>2, <3>4, Zenon
    <2>2. CASE b = B + 1
        <3>1. n.batches[b].source = B /\ n.batches[b].req = NoRequest
            BY <2>2, <1>2
        <3>2. B \in h.cutBatches .. b - 1
            BY <2>2, <1>1
        <3>3. QED
            BY <3>1, <3>2, NoMembers
    <2>3. QED
        BY <2>1, <2>2, <1>1
<1>7. QED
    BY <1>1, <1>2, <1>3, <1>4, <1>5, <1>6 DEF History

(* Moving the first batches to the archive, none of them split and none    *)
(* that a hot batch was frozen on.                                         *)
LEMMA HistoryCut ==
    ASSUME NEW h, NEW n, Typed(h), History(h), n.log = h.log, n.batches = h.batches,
           n.cutLog \in Nat, n.cutBatches \in h.cutBatches .. Len(h.batches),
           n.cutLog <= Len(h.log),
           \A i \in DOMAIN h.log : i <= n.cutLog <=> h.log[i].batch <= n.cutBatches,
           \A b \in n.cutBatches + 1 .. Len(h.batches) : h.batches[b].source >= n.cutBatches
    PROVE  History(n)
<1> DEFINE B == Len(h.batches)
<1>1. B \in Nat /\ h.cutBatches \in Nat /\ h.cutBatches <= B
    BY RootFields DEF Typed
<1>2. n.cutBatches \in Nat /\ h.cutBatches <= n.cutBatches /\ n.cutBatches <= B
    BY <1>1
<1>3. LogOrdered(n) /\ BatchesLogged(n) /\ CutAligned(n)
    BY DEF History, LogOrdered, BatchesLogged, CutAligned
<1> HIDE DEF B
<1>4. Restorable(n)
    <2> SUFFICES ASSUME NEW b \in n.cutBatches + 1 .. B
                 PROVE  /\ h.batches[b].source \in n.cutBatches .. b - 1
                        /\ \A d \in h.batches[b].source + 1 .. b - 1 :
                              Touched(h.batches[d].req.cmds) \cap Touched(h.batches[b].req.cmds) = {}
        BY Zenon DEF Restorable, B
    <2>1. b \in h.cutBatches + 1 .. B
        BY <1>1, <1>2
    <2>2. /\ h.batches[b].source \in h.cutBatches .. b - 1
          /\ \A d \in h.batches[b].source + 1 .. b - 1 :
                Touched(h.batches[d].req.cmds) \cap Touched(h.batches[b].req.cmds) = {}
        BY <2>1 DEF History, Restorable, B
    <2>3. h.batches[b].source >= n.cutBatches
        BY DEF B
    <2>4. h.batches[b].source \in n.cutBatches .. b - 1
        BY <2>2, <2>3, <1>1, <1>2
    <2>5. QED
        BY <2>2, <2>4
<1>5. QED
    BY <1>3, <1>4 DEF History

-----------------------------------------------------------------------------
(* Fences.                                                                 *)

LEMMA FreshFacts ==
    ASSUME NEW h \in StateRoot, h.cutLog <= Len(h.log), NEW r \in Request,
           Resolve(h, r) = "Fresh"
    PROVE  /\ \A i \in DOMAIN h.log : h.log[i].cmd \notin Members(r.cmds)
           /\ \A q \in Runs : Members(h.pending[q].req.cmds) \cap Members(r.cmds) = {}
<1>1. Reserved(h, r) = {} /\ Hot(h, r) = {} /\ Cold(h, r) = {}
    BY DEF Resolve
<1>2. /\ DOMAIN h.log = 1..Len(h.log) /\ Len(h.log) \in Nat /\ h.cutLog \in Nat
    BY RootFields
<1>3. ASSUME NEW i \in DOMAIN h.log, h.log[i].cmd \in Members(r.cmds)
      PROVE  FALSE
    <2>1. CASE i \in 1..h.cutLog
        BY <2>1, <1>1, <1>3 DEF Cold
    <2>2. CASE i \in h.cutLog + 1 .. Len(h.log)
        BY <2>2, <1>1, <1>3 DEF Hot
    <2>3. QED
        BY <2>1, <2>2, <1>2
<1>4. \A q \in Runs : Members(h.pending[q].req.cmds) \cap Members(r.cmds) = {}
    BY <1>1 DEF Reserved
<1>5. QED
    BY <1>3, <1>4

LEMMA AcceptableFacts ==
    ASSUME NEW h \in StateRoot, NEW r \in Request, Acceptable(h, r), NEW q \in Touched(r.cmds)
    PROVE  h.runs[q].token = r.pre[q] /\ h.runs[q].status # "Fenced"
<1>1. PICK c \in Members(r.cmds) : RunOf[c] = q
    BY DEF Touched
<1>2. h.runs[q].token = r.pre[q]
    BY <1>1 DEF Acceptable
<1>3. Kind[c] \in Kinds
    BY RequestFacts, CommandAssumption
<1>4. CASE Kind[c] = "Start"
    BY <1>1, <1>2, <1>4 DEF Acceptable
<1>5. CASE Starts(r.cmds, q)
    <2>1. PICK s \in Members(r.cmds) : RunOf[s] = q /\ Kind[s] = "Start"
        BY <1>5 DEF Starts
    <2>2. QED
        BY <2>1, <1>2 DEF Acceptable
<1>6. CASE Kind[c] # "Start" /\ ~Starts(r.cmds, q)
    BY <1>1, <1>2, <1>3, <1>6 DEF Acceptable, Kinds
<1>7. QED
    BY <1>4, <1>5, <1>6

(* A fence outlives every admission to other Runs.                         *)
LEMMA FenceKept ==
    ASSUME NEW h, NEW n, Typed(h), NEW q \in Runs, Owned(h, q),
           n.pending[q] = h.pending[q], n.runs[q] = h.runs[q],
           NEW r \in Request, NEW source, Extends(n, h, r, source),
           q \notin Touched(r.cmds), h.pending[q].req.cmds[1] \notin Members(r.cmds)
    PROVE  Owned(n, q)
<1> DEFINE N == Len(h.log)
           m == Len(r.cmds)
           B == Len(h.batches)
           t == h.pending[q]
<1>1. /\ N \in Nat /\ B \in Nat /\ DOMAIN h.log = 1..N
      /\ h.cutBatches \in Nat /\ h.cutBatches <= B
    BY RootFields DEF Typed
<1>2. /\ m \in Nat /\ DOMAIN n.log = 1..(N + m)
      /\ \A i \in 1..N : n.log[i] = h.log[i]
      /\ \A i \in N + 1 .. N + m : n.log[i].cmd \in Members(r.cmds)
      /\ Len(n.batches) = B + 1
      /\ \A b \in 1..B : n.batches[b] = h.batches[b]
      /\ n.batches[B + 1].req = r
      /\ n.cutBatches = h.cutBatches
    BY DEF Extends, ExtendsLog, ExtendsBatches
<1> HIDE DEF N, m, B
<1>3. /\ t.source \in h.cutBatches .. B
      /\ \A d \in t.source + 1 .. B : q \notin Touched(h.batches[d].req.cmds)
      /\ \A i \in 1..N : h.log[i].cmd # t.req.cmds[1]
    BY <1>1 DEF Owned, B
<1>4. ASSUME NEW i \in DOMAIN n.log
      PROVE  n.log[i].cmd # t.req.cmds[1]
    <2>1. i \in 1..N \/ i \in N + 1 .. N + m
        BY <1>1, <1>2
    <2>2. QED
        BY <2>1, <1>2, <1>3
<1>5. t.source \in h.cutBatches .. B + 1
    BY <1>1, <1>3
<1>6. ASSUME NEW d \in t.source + 1 .. B + 1
      PROVE  q \notin Touched(n.batches[d].req.cmds)
    <2>1. CASE d \in t.source + 1 .. B
        <3>1. n.batches[d] = h.batches[d]
            BY <2>1, <1>1, <1>2, <1>3
        <3>2. QED
            BY <2>1, <3>1, <1>3
    <2>2. CASE d = B + 1
        BY <2>2, <1>2
    <2>3. QED
        BY <2>1, <2>2, <1>1, <1>3
<1>7. QED
    BY <1>2, <1>4, <1>5, <1>6 DEF Owned, OwnsFence

LEMMA FenceSame ==
    ASSUME NEW h, NEW n, NEW q \in Runs, Owned(h, q),
           n.pending[q].req = h.pending[q].req, n.pending[q].source = h.pending[q].source,
           n.runs[q] = h.runs[q],
           n.log = h.log, n.batches = h.batches, n.cutBatches = h.cutBatches
    PROVE  Owned(n, q)
BY DEF Owned, OwnsFence

LEMMA SingleFacts ==
    ASSUME NEW r \in Request, Len(r.cmds) = 1
    PROVE  /\ r.cmds[1] \in Commands
           /\ Members(r.cmds) = {r.cmds[1]} /\ Touched(r.cmds) = {RunOf[r.cmds[1]]}
<1>1. DOMAIN r.cmds = {1} /\ r.cmds[1] \in Commands
    BY RequestFacts
<1>2. Members(r.cmds) = {r.cmds[1]}
    BY <1>1, Zenon DEF Members
<1>3. QED
    BY <1>1, <1>2, Zenon DEF Touched

LEMMA FencedIsOwned ==
    ASSUME NEW h, FencesOwned(h), NEW q \in Runs, h.runs[q].status = "Fenced"
    PROVE  h.pending[q] # NoTransition /\ Owned(h, q)
BY DEF FencesOwned

LEMMA OwnedIsPending ==
    ASSUME NEW h, NEW q \in Runs, Owned(h, q)
    PROVE  h.pending[q] # NoTransition
BY RequestFacts DEF Owned, NoTransition

-----------------------------------------------------------------------------
(* What a successor of h is to the register: the admission of r, or        *)
(* nothing.                                                                *)

Requests(h) == {h.batches[b].req : b \in DOMAIN h.batches} \ {NoRequest}

Admits(n, h, r) ==
    /\ r \in Request
    /\ Requests(n) = Requests(h) \cup {r}
    /\ \A s \in Requests(h) : Members(s.cmds) \cap Members(r.cmds) = {}
    /\ \A q \in Touched(r.cmds) : h.runs[q].token = r.pre[q]
    /\ \A q \in Runs : n.runs[q].token = h.runs[q].token + CountOn(r.cmds, q)

Leaves(n, h) ==
    /\ Requests(n) = Requests(h)
    /\ \A q \in Runs : n.runs[q].token = h.runs[q].token

(* A transition under way stays, has fewer pages to go, or has ended.      *)
Progress(n, h) ==
    \A q \in Runs : h.pending[q] # NoTransition =>
        \/ n.pending[q] \in {h.pending[q], NoTransition}
        \/ n.pending[q].effects + n.pending[q].scopes
              < h.pending[q].effects + h.pending[q].scopes

LEMMA ExtendsAdmits ==
    ASSUME NEW h, NEW n, Typed(h), History(h), NEW r \in Request, NEW source,
           Extends(n, h, r, source),
           \A i \in DOMAIN h.log : h.log[i].cmd \notin Members(r.cmds)
    PROVE  /\ Requests(n) = Requests(h) \cup {r}
           /\ \A s \in Requests(h) : Members(s.cmds) \cap Members(r.cmds) = {}
<1> DEFINE B == Len(h.batches)
<1>1. /\ B \in Nat /\ DOMAIN h.batches = 1..B /\ DOMAIN n.batches = 1..(B + 1)
      /\ \A b \in 1..B : n.batches[b] = h.batches[b]
      /\ n.batches[B + 1].req = r
    BY RootFields DEF Extends, ExtendsBatches, Typed
<1> HIDE DEF B
<1>2. Requests(n) \subseteq Requests(h) \cup {r}
    <2> SUFFICES ASSUME NEW b \in 1..(B + 1), n.batches[b].req # NoRequest
                 PROVE  n.batches[b].req \in Requests(h) \cup {r}
        BY <1>1 DEF Requests
    <2>1. CASE b \in 1..B
        BY <2>1, <1>1 DEF Requests
    <2>2. CASE b = B + 1
        BY <2>2, <1>1
    <2>3. QED
        BY <2>1, <2>2, <1>1
<1>3. Requests(h) \subseteq Requests(n)
    <2> SUFFICES ASSUME NEW b \in 1..B, h.batches[b].req # NoRequest
                 PROVE  h.batches[b].req \in Requests(n)
        BY <1>1 DEF Requests
    <2>1. b \in DOMAIN n.batches /\ n.batches[b].req = h.batches[b].req
        BY <1>1
    <2>2. QED
        BY <2>1 DEF Requests
<1>4. r \in Requests(n)
    <2>1. B + 1 \in DOMAIN n.batches /\ r # NoRequest
        BY <1>1, RequestFacts
    <2>2. QED
        BY <2>1, <1>1 DEF Requests
<1>5. ASSUME NEW s \in Requests(h)
      PROVE  Members(s.cmds) \cap Members(r.cmds) = {}
    <2>1. PICK b \in DOMAIN h.batches : s = h.batches[b].req
        BY DEF Requests
    <2>2. \A c \in Members(h.batches[b].req.cmds) : \E i \in DOMAIN h.log : h.log[i].cmd = c
        BY ZenonT(60) DEF History, BatchesLogged
    <2>3. QED
        BY <2>1, <2>2
<1>6. QED
    BY <1>2, <1>3, <1>4, <1>5

(* A batch of a single publication.                                        *)
LEMMA InlineStep ==
    ASSUME NEW h, Well(h), NEW r \in Request, Resolve(h, r) = "Fresh", NEW n \in InlineBatch(h, r)
    PROVE  /\ Well(n) /\ n.revision = h.revision + 1
           /\ Admits(n, h, r) /\ Progress(n, h)
<1>1. h \in StateRoot /\ Typed(h) /\ History(h) /\ FencesOwned(h)
    BY DEF Well, Typed
<1>2. /\ Acceptable(h, r) /\ InBounds(h, r)
      /\ n = Admitted(h, r, Len(h.batches))
    BY DEF InlineBatch, Root
<1>3. /\ Len(h.batches) \in Nat /\ h.cutBatches \in Nat /\ h.cutBatches <= Len(h.batches)
      /\ h.revision \in Nat /\ h.cutLog <= Len(h.log)
    BY <1>1, RootFields DEF Typed
<1>4. n \in StateRoot
    BY <1>1, <1>2, <1>3, AdmittedTyped
<1>5. /\ n.revision = h.revision + 1 /\ n.runs = NewRuns(h, r) /\ n.pending = h.pending
      /\ Extends(n, h, r, Len(h.batches))
    <2>1. Fields(n, h, NewRuns(h, r), h.pending, h.log \o NewEntries(h, r),
                 Append(h.batches, [req |-> r, source |-> Len(h.batches)]), h.cutLog, h.cutBatches)
        BY <1>1, <1>2, AdmittedFields
    <2>2. Extends(n, h, r, Len(h.batches))
        BY <2>1, <1>1, <1>3, FieldsExtend
    <2>3. QED
        BY <2>1, <2>2 DEF Fields
<1>6. /\ \A i \in DOMAIN h.log : h.log[i].cmd \notin Members(r.cmds)
      /\ \A q \in Runs : Members(h.pending[q].req.cmds) \cap Members(r.cmds) = {}
    BY <1>1, <1>3, FreshFacts
<1>7. History(n) /\ n.cutLog <= Len(n.log) /\ n.cutBatches <= Len(n.batches)
    <2>1. Len(h.batches) \in h.cutBatches .. Len(h.batches)
        BY <1>3
    <2>2. \A d \in Len(h.batches) + 1 .. Len(h.batches) :
             Touched(h.batches[d].req.cmds) \cap Touched(r.cmds) = {}
        BY <1>3
    <2>3. QED
        BY <2>1, <2>2, <1>1, <1>5, <1>6, HistoryExtended
<1>8. \A q \in Touched(r.cmds) : h.runs[q].token = r.pre[q] /\ h.runs[q].status # "Fenced"
    BY <1>1, <1>2, AcceptableFacts
<1>9. FencesOwned(n)
    <2> SUFFICES ASSUME NEW q \in Runs
                 PROVE  IF h.pending[q] = NoTransition THEN n.runs[q].status # "Fenced"
                        ELSE Owned(n, q)
        BY <1>5 DEF FencesOwned
    <2>1. CASE h.pending[q] = NoTransition
        <3>1. h.runs[q].status # "Fenced"
            BY <1>1, <2>1 DEF FencesOwned
        <3>2. n.runs[q].status # "Fenced"
            BY <3>1, <1>5 DEF NewRuns
        <3>3. QED
            BY <2>1, <3>2
    <2>2. CASE h.pending[q] # NoTransition
        <3>1. Owned(h, q)
            BY <1>1, <2>2 DEF FencesOwned
        <3>2. q \notin Touched(r.cmds)
            BY <3>1, <1>8 DEF Owned, OwnsFence
        <3>3. n.runs[q] = h.runs[q]
            BY <3>2, <1>5 DEF NewRuns
        <3>4. h.pending[q].req.cmds[1] \notin Members(r.cmds)
            BY <3>1, <1>6, SingleFacts DEF Owned
        <3>5. QED
            BY <2>2, <3>1, <3>2, <3>3, <3>4, <1>1, <1>5, FenceKept
    <2>3. QED
        BY <2>1, <2>2
<1>10. Admits(n, h, r)
    <2>1. \A q \in Runs : n.runs[q].token = h.runs[q].token + CountOn(r.cmds, q)
        <3> TAKE q \in Runs
        <3>1. h.runs[q].token \in Nat
            BY <1>1, RootFields, CommandAssumption DEF RunState
        <3>2. QED
            BY <3>1, <1>5, CountFacts DEF NewRuns
    <2>2. QED
        BY <2>1, <1>1, <1>5, <1>6, <1>8, ExtendsAdmits, ZenonT(60) DEF Admits
<1>11. Progress(n, h)
    BY <1>5 DEF Progress
<1>12. QED
    BY <1>3, <1>4, <1>5, <1>7, <1>9, <1>10, <1>11 DEF Well, Typed

(* The first publication of a paged transition.                            *)
BegunTransition(h, r, pages) ==
    [req |-> r, source |-> Root(h), effects |-> pages.effects, scopes |-> pages.scopes]

LEMMA BeginFields ==
    ASSUME NEW h \in StateRoot, NEW r \in Request, NEW n \in PagedBegin(h, r)
    PROVE  /\ n \in StateRoot
           /\ Len(r.cmds) = 1 /\ Kind[r.cmds[1]] \in {"Close", "End"}
           /\ Acceptable(h, r) /\ InBounds(h, r)
           /\ \E pages \in PageCounts(r.cmds[1]) :
              Fields(n, h, [h.runs EXCEPT ![RunOf[r.cmds[1]]].status = "Fenced"],
                     [h.pending EXCEPT ![RunOf[r.cmds[1]]] = BegunTransition(h, r, pages)],
                     h.log, h.batches, h.cutLog, h.cutBatches)
<1> DEFINE q == RunOf[r.cmds[1]]
<1>1. /\ Len(r.cmds) = 1 /\ Kind[r.cmds[1]] \in {"Close", "End"}
      /\ Acceptable(h, r) /\ InBounds(h, r)
    BY DEF PagedBegin
<1>2. PICK pages \in PageCounts(r.cmds[1]) : n = Begun(h, r, pages)
    BY <1>1 DEF PagedBegin
<1>3. q \in Runs
    BY <1>1, SingleFacts, CommandAssumption
<1>4. pages.effects \in 0..MaxPages /\ pages.scopes \in 0..MaxPages
    BY DurableAssumption DEF PageCounts
<1>5. BegunTransition(h, r, pages) \in Transition
    BY <1>4, RootFields DEF BegunTransition, Transition, Root
<1>6. [h.runs EXCEPT ![q].status = "Fenced"] \in [Runs -> RunState]
    <2>1. h.runs \in [Runs -> RunState]
        BY RootFields
    <2>2. QED
        BY <1>3, <2>1 DEF RunState
<1>7. [h.pending EXCEPT ![q] = BegunTransition(h, r, pages)] \in [Runs -> Transition]
    BY <1>5, RootFields
<1> DEFINE t == BegunTransition(h, r, pages)
<1>8. n = [Successor(h) EXCEPT !.runs[q].status = "Fenced", !.pending[q] = t]
    BY <1>2, Zenon DEF Begun, BegunTransition
<1> HIDE DEF q, t
<1>9. /\ n \in StateRoot
      /\ Fields(n, h, [h.runs EXCEPT ![q].status = "Fenced"], [h.pending EXCEPT ![q] = t],
                 h.log, h.batches, h.cutLog, h.cutBatches)
    BY <1>6, <1>7, <1>8, SuccessorFields, ZenonT(60) DEF Fields, StateRoot, t
<1>10. QED
    BY <1>1, <1>9, Zenon DEF q, t

LEMMA BeginStep ==
    ASSUME NEW h, Well(h), NEW r \in Request, Resolve(h, r) = "Fresh", NEW n \in PagedBegin(h, r)
    PROVE  /\ Well(n) /\ n.revision = h.revision + 1
           /\ Leaves(n, h) /\ Progress(n, h)
           /\ \E q \in Runs : n.pending[q].req = r
<1> DEFINE q == RunOf[r.cmds[1]]
<1>1. h \in StateRoot /\ Typed(h) /\ History(h) /\ FencesOwned(h)
    BY DEF Well, Typed
<1>2. /\ n \in StateRoot /\ Len(r.cmds) = 1 /\ Kind[r.cmds[1]] \in {"Close", "End"}
      /\ Acceptable(h, r) /\ InBounds(h, r)
    BY <1>1, BeginFields
<1>3. PICK pages \in PageCounts(r.cmds[1]) :
          Fields(n, h, [h.runs EXCEPT ![q].status = "Fenced"],
                 [h.pending EXCEPT ![q] = BegunTransition(h, r, pages)],
                 h.log, h.batches, h.cutLog, h.cutBatches)
    BY <1>1, BeginFields
<1>4. q \in Runs /\ Members(r.cmds) = {r.cmds[1]} /\ Touched(r.cmds) = {q}
    BY <1>2, SingleFacts, CommandAssumption
<1>5. h.runs[q].token = r.pre[q] /\ h.runs[q].status # "Fenced"
    BY <1>1, <1>2, <1>4, AcceptableFacts
<1>6. \A i \in DOMAIN h.log : h.log[i].cmd \notin Members(r.cmds)
    BY <1>1, FreshFacts DEF Typed
<1>7. h.pending[q] = NoTransition
    BY <1>1, <1>4, <1>5 DEF FencesOwned, Owned, OwnsFence
<1>8. /\ h.runs \in [Runs -> RunState] /\ h.pending \in [Runs -> Transition]
      /\ Len(h.batches) \in Nat /\ h.cutBatches \in Nat /\ h.cutBatches <= Len(h.batches)
      /\ h.revision \in Nat
    BY <1>1, RootFields DEF Typed
<1>9. /\ n.revision = h.revision + 1
      /\ n.log = h.log /\ n.batches = h.batches
      /\ n.cutLog = h.cutLog /\ n.cutBatches = h.cutBatches
      /\ n.runs = [h.runs EXCEPT ![q].status = "Fenced"]
      /\ n.pending = [h.pending EXCEPT ![q] = BegunTransition(h, r, pages)]
    BY <1>3 DEF Fields
<1> HIDE DEF q
<1>10. /\ n.pending[q] = BegunTransition(h, r, pages)
       /\ \A p \in Runs \ {q} : n.pending[p] = h.pending[p] /\ n.runs[p] = h.runs[p]
       /\ n.runs[q].status = "Fenced" /\ n.runs[q].token = h.runs[q].token
    BY <1>4, <1>8, <1>9 DEF RunState
<1>11. n.pending[q].req = r /\ n.pending[q].source = Len(h.batches)
    BY <1>10 DEF BegunTransition, Root
<1>12. History(n)
    BY <1>1, <1>9, SameHistory
<1>13. Owned(n, q)
    <2>1. h.runs[q].token + CountOn(r.cmds, q) <= MaxToken
        BY <1>2, <1>4 DEF InBounds
    <2>2. \A i \in DOMAIN n.log : n.log[i].cmd # r.cmds[1]
        BY <1>4, <1>6, <1>9
    <2>3. Len(h.batches) \in n.cutBatches .. Len(n.batches)
        BY <1>8, <1>9
    <2>4. \A d \in Len(h.batches) + 1 .. Len(n.batches) : q \notin Touched(n.batches[d].req.cmds)
        BY <1>8, <1>9
    <2>5. n.runs[q].token = r.pre[q] /\ n.runs[q].token + CountOn(r.cmds, q) <= MaxToken
        BY <1>5, <1>10, <2>1
    <2>6. OwnsFence(n, q)
        BY <1>10, <1>11, <2>5 DEF OwnsFence
    <2>7. QED
        BY <1>2, <1>11, <2>2, <2>3, <2>4, <2>5, <2>6, Zenon DEF Owned, q
<1>14. FencesOwned(n)
    <2> SUFFICES ASSUME NEW p \in Runs
                 PROVE  IF n.pending[p] = NoTransition THEN n.runs[p].status # "Fenced"
                        ELSE Owned(n, p)
        BY DEF FencesOwned
    <2>1. CASE p = q
        BY <2>1, <1>4, <1>13, OwnedIsPending
    <2>2. CASE p # q /\ h.pending[p] = NoTransition
        BY <2>2, <1>1, <1>10 DEF FencesOwned
    <2>3. CASE p # q /\ h.pending[p] # NoTransition
        <3>1. Owned(h, p)
            BY <2>3, <1>1 DEF FencesOwned
        <3>2. Owned(n, p)
            BY <2>3, <3>1, <1>9, <1>10, FenceSame
        <3>3. QED
            BY <3>2, OwnedIsPending
    <2>4. QED
        BY <2>1, <2>2, <2>3
<1>15. Leaves(n, h)
    BY <1>9, <1>10 DEF Leaves, Requests
<1>16. Progress(n, h)
    BY <1>7, <1>10 DEF Progress
<1>17. n.revision >= 1 /\ n.cutLog <= Len(n.log) /\ n.cutBatches <= Len(n.batches)
    BY <1>1, <1>8, <1>9 DEF Typed
<1>18. QED
    BY <1>2, <1>4, <1>9, <1>11, <1>12, <1>14, <1>15, <1>16, <1>17 DEF Well, Typed

(* One page of a transition.                                               *)
LEMMA PageStep ==
    ASSUME NEW h, Well(h), NEW q \in Runs, OwnsFence(h, q),
           h.pending[q].effects + h.pending[q].scopes > 0
    PROVE  /\ Well(Paged(h, q)) /\ Paged(h, q).revision = h.revision + 1
           /\ Leaves(Paged(h, q), h) /\ Progress(Paged(h, q), h)
           /\ Paged(h, q).pending[q].req = h.pending[q].req
<1> DEFINE n == Paged(h, q)
           t == h.pending[q]
           u == IF t.effects > 0 THEN [t EXCEPT !.effects = @ - 1]
                ELSE [t EXCEPT !.scopes = @ - 1]
<1>1. h \in StateRoot /\ Typed(h) /\ History(h) /\ FencesOwned(h)
    BY DEF Well, Typed
<1>2. /\ h.runs \in [Runs -> RunState] /\ h.pending \in [Runs -> Transition]
      /\ h.revision \in Nat /\ Successor(h) \in StateRoot
    BY <1>1, RootFields, SuccessorFields
<1>3. /\ n.revision = h.revision + 1
      /\ n.log = h.log /\ n.batches = h.batches
      /\ n.cutLog = h.cutLog /\ n.cutBatches = h.cutBatches
      /\ n.runs = h.runs /\ n.pending = [h.pending EXCEPT ![q] = u]
    BY <1>1, PagedFields DEF Fields
<1>4. t \in Transition
    BY <1>2
<1>5. t.effects \in 0..MaxPages /\ t.scopes \in 0..MaxPages
    BY <1>4 DEF Transition
<1>6. /\ u \in Transition /\ u.req = t.req /\ u.source = t.source
      /\ u.effects + u.scopes < t.effects + t.scopes
    <2>1. CASE t.effects > 0
        <3>1. t.effects - 1 \in 0..MaxPages
            BY <1>5, <2>1, DurableAssumption
        <3>2. u = [t EXCEPT !.effects = t.effects - 1]
            BY <2>1
        <3> HIDE DEF t, u
        <3>3. /\ u \in Transition /\ u.req = t.req /\ u.source = t.source
              /\ u.effects = t.effects - 1 /\ u.scopes = t.scopes
            BY <3>1, <3>2, <1>4 DEF Transition
        <3>4. QED
            BY <3>3, <1>5, DurableAssumption
    <2>2. CASE ~(t.effects > 0)
        <3>1. t.scopes - 1 \in 0..MaxPages
            BY <1>5, <2>2, DurableAssumption
        <3>2. u = [t EXCEPT !.scopes = t.scopes - 1]
            BY <2>2
        <3> HIDE DEF t, u
        <3>3. /\ u \in Transition /\ u.req = t.req /\ u.source = t.source
              /\ u.effects = t.effects /\ u.scopes = t.scopes - 1
            BY <3>1, <3>2, <1>4 DEF Transition
        <3>4. QED
            BY <3>3, <1>5, DurableAssumption
    <2>3. QED
        BY <2>1, <2>2
<1>7. n = [Successor(h) EXCEPT !.pending[q] = u]
    BY DEF Paged
<1> HIDE DEF n, t, u
<1>8. /\ n.pending[q] = u /\ \A p \in Runs \ {q} : n.pending[p] = h.pending[p]
      /\ n.pending \in [Runs -> Transition]
    BY <1>2, <1>3, <1>6
<1>9. n \in StateRoot
    <2>1. [Successor(h).pending EXCEPT ![q] = u] \in [Runs -> Transition]
        BY <1>1, <1>3, <1>8, SuccessorFields DEF Fields
    <2>2. QED
        BY <2>1, <1>2, <1>7 DEF StateRoot
<1>10. Owned(h, q)
    BY <1>1, FencedIsOwned DEF OwnsFence
<1>11. FencesOwned(n)
    <2> SUFFICES ASSUME NEW p \in Runs
                 PROVE  IF n.pending[p] = NoTransition THEN n.runs[p].status # "Fenced"
                        ELSE Owned(n, p)
        BY DEF FencesOwned
    <2>1. n.pending[p].req = h.pending[p].req /\ n.pending[p].source = h.pending[p].source
        BY <1>6, <1>8 DEF t
    <2>2. CASE Owned(h, p)
        <3>1. Owned(n, p)
            BY <2>1, <2>2, <1>3, FenceSame
        <3>2. QED
            BY <3>1, OwnedIsPending
    <2>3. CASE ~Owned(h, p)
        <3>1. p # q /\ h.pending[p] = NoTransition /\ h.runs[p].status # "Fenced"
            BY <2>3, <1>1, <1>10 DEF FencesOwned
        <3>2. QED
            BY <3>1, <1>3, <1>8
    <2>4. QED
        BY <2>2, <2>3
<1>12. History(n)
    BY <1>1, <1>3, SameHistory
<1>13. Typed(n)
    BY <1>1, <1>2, <1>3, <1>9 DEF Typed
<1>14. Leaves(n, h)
    BY <1>3 DEF Leaves, Requests
<1>15. Progress(n, h)
    BY <1>6, <1>8 DEF Progress, t
<1>16. QED
    BY <1>3, <1>6, <1>8, <1>11, <1>12, <1>13, <1>14, <1>15 DEF Well, n, t

(* The publication that admits the command of a transition.                *)
LEMMA FinalStep ==
    ASSUME NEW h, Well(h), NEW q \in Runs, OwnsFence(h, q)
    PROVE  /\ Well(Finalized(h, q)) /\ Finalized(h, q).revision = h.revision + 1
           /\ Admits(Finalized(h, q), h, h.pending[q].req) /\ Progress(Finalized(h, q), h)
<1> DEFINE n == Finalized(h, q)
           t == h.pending[q]
           r == t.req
           end == IF Kind[r.cmds[1]] = "End" THEN "Ended" ELSE "Ready"
<1>1. h \in StateRoot /\ Typed(h) /\ History(h) /\ FencesOwned(h)
    BY DEF Well, Typed
<1>2. Owned(h, q) /\ t # NoTransition
    BY <1>1, FencedIsOwned DEF OwnsFence
<1>3. /\ r \in Request /\ Len(r.cmds) = 1 /\ RunOf[r.cmds[1]] = q
      /\ h.runs[q].token + CountOn(r.cmds, q) <= MaxToken
      /\ h.runs[q].token = r.pre[q]
      /\ \A i \in DOMAIN h.log : h.log[i].cmd # r.cmds[1]
      /\ t.source \in h.cutBatches .. Len(h.batches)
      /\ \A d \in t.source + 1 .. Len(h.batches) : q \notin Touched(h.batches[d].req.cmds)
    BY <1>2 DEF Owned, OwnsFence
<1>4. Members(r.cmds) = {r.cmds[1]} /\ Touched(r.cmds) = {q}
    BY <1>3, SingleFacts
<1>5. InBounds(h, r)
    BY <1>3, <1>4 DEF InBounds
<1>6. /\ n \in StateRoot
      /\ Fields(n, h, [NewRuns(h, r) EXCEPT ![q].status = end],
                [h.pending EXCEPT ![q] = NoTransition],
                h.log \o NewEntries(h, r), Append(h.batches, [req |-> r, source |-> t.source]),
                h.cutLog, h.cutBatches)
    BY <1>1, <1>3, <1>5, FinalizedFields
<1>7. /\ h.runs \in [Runs -> RunState] /\ h.pending \in [Runs -> Transition]
      /\ h.revision \in Nat /\ h.cutBatches \in Nat /\ Len(h.batches) \in Nat
    BY <1>1, RootFields
<1>8. t.source \in Nat
    BY <1>3, <1>7
<1>9. /\ n.revision = h.revision + 1 /\ n.runs = [NewRuns(h, r) EXCEPT ![q].status = end]
      /\ n.pending = [h.pending EXCEPT ![q] = NoTransition]
    BY <1>6 DEF Fields
<1>10. Extends(n, h, r, t.source)
    BY <1>1, <1>3, <1>6, <1>8, FieldsExtend
<1>11. end \in {"Ended", "Ready"}
    OBVIOUS
<1> HIDE DEF n, t, r, end
<1>12. \A i \in DOMAIN h.log : h.log[i].cmd \notin Members(r.cmds)
    BY <1>3, <1>4
<1>13. History(n) /\ n.cutLog <= Len(n.log) /\ n.cutBatches <= Len(n.batches)
    <2>1. \A d \in t.source + 1 .. Len(h.batches) :
             Touched(h.batches[d].req.cmds) \cap Touched(r.cmds) = {}
        BY <1>3, <1>4
    <2>2. QED
        BY <2>1, <1>1, <1>3, <1>10, <1>12, HistoryExtended
<1>14. /\ n.pending[q] = NoTransition /\ \A p \in Runs \ {q} : n.pending[p] = h.pending[p]
       /\ n.runs[q].status = end
       /\ n.runs[q].token = h.runs[q].token + CountOn(r.cmds, q)
       /\ \A p \in Runs \ {q} : n.runs[p] = h.runs[p]
    BY <1>4, <1>7, <1>9 DEF NewRuns
<1>15. FencesOwned(n)
    <2> SUFFICES ASSUME NEW p \in Runs
                 PROVE  IF n.pending[p] = NoTransition THEN n.runs[p].status # "Fenced"
                        ELSE Owned(n, p)
        BY DEF FencesOwned
    <2>1. CASE p = q
        BY <2>1, <1>11, <1>14
    <2>2. CASE p # q /\ h.pending[p] = NoTransition
        BY <2>2, <1>1, <1>14 DEF FencesOwned
    <2>3. CASE p # q /\ h.pending[p] # NoTransition
        <3>1. Owned(h, p)
            BY <2>3, <1>1 DEF FencesOwned
        <3>2. RunOf[h.pending[p].req.cmds[1]] = p
            BY <3>1 DEF Owned
        <3>3. h.pending[p].req.cmds[1] \notin Members(r.cmds)
            BY <3>2, <2>3, <1>3, <1>4
        <3>4. p \notin Touched(r.cmds) /\ n.pending[p] = h.pending[p] /\ n.runs[p] = h.runs[p]
            BY <2>3, <1>4, <1>14
        <3>5. Owned(n, p)
            BY <3>1, <3>3, <3>4, <1>1, <1>3, <1>10, FenceKept
        <3>6. QED
            BY <2>3, <3>4, <3>5
    <2>4. QED
        BY <2>1, <2>2, <2>3
<1>16. Admits(n, h, r)
    <2>1. \A p \in Runs : n.runs[p].token = h.runs[p].token + CountOn(r.cmds, p)
        <3> TAKE p \in Runs
        <3>1. CASE p = q
            BY <3>1, <1>14
        <3>2. CASE p # q
            <4>1. CountOn(r.cmds, p) = 0 /\ n.runs[p] = h.runs[p]
                BY <3>2, <1>3, <1>4, <1>14, CountFacts
            <4>2. h.runs[p].token \in Nat
                BY <1>7, CommandAssumption DEF RunState
            <4>3. QED
                BY <4>1, <4>2
        <3>3. QED
            BY <3>1, <3>2
    <2>2. /\ Requests(n) = Requests(h) \cup {r}
          /\ \A s \in Requests(h) : Members(s.cmds) \cap Members(r.cmds) = {}
        BY <1>1, <1>3, <1>10, <1>12, ExtendsAdmits
    <2>3. QED
        BY <2>1, <2>2, <1>3, <1>4 DEF Admits
<1>17. Progress(n, h)
    BY <1>14 DEF Progress
<1>18. Typed(n)
    BY <1>1, <1>6, <1>7, <1>9, <1>13 DEF Typed
<1>19. QED
    BY <1>9, <1>13, <1>15, <1>16, <1>17, <1>18 DEF Well, n, r, t

(* Plans and Artifacts alone.                                              *)
LEMMA MaterialStep ==
    ASSUME NEW h, Well(h)
    PROVE  /\ Well(WithMaterial(h)) /\ WithMaterial(h).revision = h.revision + 1
           /\ Leaves(WithMaterial(h), h) /\ Progress(WithMaterial(h), h)
<1> DEFINE n == WithMaterial(h)
           B == Len(h.batches)
           rec == [req |-> NoRequest, source |-> B]
           bs == Append(h.batches, rec)
<1>1. h \in StateRoot /\ Typed(h) /\ History(h) /\ FencesOwned(h)
    BY DEF Well, Typed
<1>2. /\ h.batches \in Seq(BatchRecord) /\ B \in Nat /\ h.revision \in Nat
      /\ DOMAIN h.batches = 1..B /\ h.cutBatches \in Nat
      /\ Successor(h) \in StateRoot
    BY <1>1, RootFields, SuccessorFields
<1>3. rec \in BatchRecord /\ rec.req = NoRequest /\ rec.source = B
    BY <1>2 DEF BatchRecord
<1>4. n = [Successor(h) EXCEPT !.batches = bs]
    BY <1>1, SuccessorFields, Zenon DEF WithMaterial, Root, Fields
<1> HIDE DEF n, rec
<1>5. /\ bs \in Seq(BatchRecord) /\ Len(bs) = B + 1 /\ DOMAIN bs = 1..(B + 1)
      /\ \A b \in 1..B : bs[b] = h.batches[b]
      /\ bs[B + 1] = rec
    BY <1>2, <1>3, AppendProperties
<1> HIDE DEF B, bs
<1>6. /\ n \in StateRoot /\ n.batches = bs /\ n.revision = h.revision + 1
      /\ n.log = h.log /\ n.cutLog = h.cutLog /\ n.cutBatches = h.cutBatches
      /\ n.runs = h.runs /\ n.pending = h.pending
    BY <1>1, <1>2, <1>4, <1>5, SuccessorFields DEF StateRoot, Fields
<1>7. ExtendsBatches(n.batches, h, NoRequest, Len(h.batches))
    BY <1>3, <1>5, <1>6 DEF ExtendsBatches, B
<1>8. History(n) /\ n.cutBatches <= Len(n.batches)
    BY <1>1, <1>6, <1>7, HistoryWithMaterial
<1>9. FencesOwned(n)
    <2> SUFFICES ASSUME NEW q \in Runs, h.pending[q] # NoTransition
                 PROVE  Owned(n, q)
        BY <1>1, <1>6 DEF FencesOwned
    <2> DEFINE t == h.pending[q]
    <2>1. Owned(h, q)
        BY <1>1 DEF FencesOwned
    <2>2. /\ t.source \in h.cutBatches .. B
          /\ \A d \in t.source + 1 .. B : q \notin Touched(h.batches[d].req.cmds)
        BY <2>1 DEF Owned, B
    <2>3. t.source \in n.cutBatches .. Len(n.batches)
        BY <2>2, <1>2, <1>5, <1>6
    <2>4. ASSUME NEW d \in t.source + 1 .. Len(n.batches)
          PROVE  q \notin Touched(n.batches[d].req.cmds)
        <3>1. CASE d = B + 1
            BY <3>1, <1>3, <1>5, <1>6, NoMembers
        <3>2. CASE d # B + 1
            <4>1. d \in t.source + 1 .. B /\ d \in 1..B
                BY <3>2, <2>2, <1>2, <1>5, <1>6
            <4>2. QED
                BY <4>1, <2>2, <1>5, <1>6
        <3>3. QED
            BY <3>1, <3>2
    <2>5. QED
        BY <2>1, <2>3, <2>4, <1>6, Zenon DEF Owned, OwnsFence
<1>10. Leaves(n, h)
    <2>1. Requests(n) \subseteq Requests(h)
        <3> SUFFICES ASSUME NEW b \in 1..(B + 1), bs[b].req # NoRequest
                     PROVE  bs[b].req \in Requests(h)
            BY <1>5, <1>6 DEF Requests
        <3>1. b # B + 1
            BY <1>3, <1>5
        <3>2. b \in DOMAIN h.batches /\ bs[b] = h.batches[b]
            BY <3>1, <1>2, <1>5
        <3>3. QED
            BY <3>2 DEF Requests
    <2>2. Requests(h) \subseteq Requests(n)
        <3> SUFFICES ASSUME NEW b \in 1..B, h.batches[b].req # NoRequest
                     PROVE  h.batches[b].req \in Requests(n)
            BY <1>2 DEF Requests
        <3>1. b \in DOMAIN n.batches /\ n.batches[b].req = h.batches[b].req
            BY <1>2, <1>5, <1>6
        <3>2. QED
            BY <3>1 DEF Requests
    <2>3. QED
        BY <2>1, <2>2, <1>6 DEF Leaves
<1>11. Progress(n, h)
    BY <1>6 DEF Progress
<1>12. Typed(n)
    BY <1>1, <1>2, <1>6, <1>8 DEF Typed
<1>13. QED
    BY <1>6, <1>8, <1>9, <1>10, <1>11, <1>12 DEF Well, n

(* Compaction: what moves is marked, nothing else changes.                 *)
LEMMA CutKeepsRest ==
    ASSUME NEW h, NEW n, Well(h), NothingPending(h), n \in StateRoot,
           n.revision = h.revision + 1, n.runs = h.runs, n.pending = h.pending,
           n.log = h.log, n.batches = h.batches,
           n.cutLog <= Len(h.log), n.cutBatches <= Len(h.batches), History(n)
    PROVE  Well(n) /\ Leaves(n, h) /\ Progress(n, h)
<1>1. h \in StateRoot /\ Typed(h) /\ FencesOwned(h) /\ h.revision \in Nat
    BY RootFields DEF Well, Typed
<1>2. FencesOwned(n)
    BY <1>1 DEF FencesOwned, NothingPending
<1>3. Leaves(n, h) /\ Progress(n, h)
    BY DEF Leaves, Requests, Progress
<1>4. Typed(n)
    BY <1>1 DEF Typed
<1>5. QED
    BY <1>2, <1>3, <1>4 DEF Well

LEMMA CutStep ==
    ASSUME NEW h, Well(h), NEW n \in CompactedPrefix(h) \cup CompactedEventFree(h)
    PROVE  /\ Well(n) /\ n.revision = h.revision + 1
           /\ Leaves(n, h) /\ Progress(n, h)
<1>1. h \in StateRoot /\ Typed(h) /\ History(h)
    BY DEF Well, Typed
<1>2. /\ Len(h.log) \in Nat /\ DOMAIN h.log = 1..Len(h.log) /\ h.cutLog \in Nat
      /\ Len(h.batches) \in Nat /\ DOMAIN h.batches = 1..Len(h.batches)
      /\ h.cutBatches \in Nat /\ h.cutBatches <= Len(h.batches) /\ h.cutLog <= Len(h.log)
    BY <1>1, RootFields DEF Typed
<1>3. /\ \A i \in DOMAIN h.log : h.log[i].batch \in DOMAIN h.batches
      /\ \A i, j \in DOMAIN h.log : i <= j => h.log[i].batch <= h.log[j].batch
      /\ \A i \in DOMAIN h.log : i <= h.cutLog <=> h.log[i].batch <= h.cutBatches
    BY <1>1 DEF History, LogOrdered, CutAligned
<1>4. CASE n \in CompactedPrefix(h)
    <2>1. PICK cut \in h.cutLog + 1 .. Len(h.log) :
              /\ NothingPending(h) /\ CutWhole(h, cut) /\ SourcesKept(h, h.log[cut].batch)
              /\ n = [Successor(h) EXCEPT !.cutLog = cut, !.cutBatches = h.log[cut].batch]
        BY <1>4, Zenon DEF CompactedPrefix
    <2> DEFINE b == h.log[cut].batch
    <2>2. /\ cut \in DOMAIN h.log /\ cut \in Nat /\ cut > h.cutLog
        BY <1>2
    <2>3. b \in Nat /\ h.cutBatches < b /\ b <= Len(h.batches)
        BY <1>2, <1>3, <2>2
    <2>4. n = [Successor(h) EXCEPT !.cutLog = cut, !.cutBatches = b]
        BY <2>1
    <2>5. ASSUME NEW i \in DOMAIN h.log
          PROVE  i <= cut <=> h.log[i].batch <= b
        <3>1. CASE i <= cut
            BY <3>1, <2>2, <1>3
        <3>2. CASE ~(i <= cut)
            <4>1. /\ cut + 1 \in DOMAIN h.log /\ cut + 1 <= i /\ cut <= cut + 1
                  /\ cut < Len(h.log)
                BY <3>2, <2>2, <1>2
            <4>2. b <= h.log[cut + 1].batch /\ h.log[cut + 1].batch <= h.log[i].batch
                BY <4>1, <2>2, <1>3
            <4>3. h.log[cut + 1].batch # b
                BY <4>1, <2>1 DEF CutWhole
            <4>4. h.log[cut + 1].batch \in Nat /\ h.log[i].batch \in Nat
                BY <4>1, <1>2, <1>3, SMTT(60)
            <4>5. QED
                BY <3>2, <4>2, <4>3, <4>4, <2>3
        <3>3. QED
            BY <3>1, <3>2
    <2>6. \A k \in b + 1 .. Len(h.batches) : h.batches[k].source >= b
        BY <2>1 DEF SourcesKept
    <2> HIDE DEF b
    <2>7. /\ n \in StateRoot /\ n.cutLog = cut /\ n.cutBatches = b
          /\ n.revision = h.revision + 1 /\ n.runs = h.runs /\ n.pending = h.pending
          /\ n.log = h.log /\ n.batches = h.batches
        BY <1>1, <2>2, <2>3, <2>4, SuccessorFields DEF StateRoot, Fields
    <2>8. n.cutBatches \in h.cutBatches .. Len(h.batches) /\ n.cutLog <= Len(h.log)
        BY <2>2, <2>3, <2>7, <1>2
    <2>9. History(n)
        BY <1>1, <2>2, <2>5, <2>6, <2>7, <2>8, HistoryCut
    <2>10. QED
        BY <2>1, <2>3, <2>7, <2>8, <2>9, CutKeepsRest
<1>5. CASE n \in CompactedEventFree(h)
    <2>1. NothingPending(h) /\ Len(h.log) = h.cutLog
        BY <1>5 DEF CompactedEventFree
    <2>2. n = [Successor(h) EXCEPT !.cutBatches = Len(h.batches)]
        BY <1>5 DEF CompactedEventFree
    <2>3. /\ n \in StateRoot /\ n.cutLog = h.cutLog /\ n.cutBatches = Len(h.batches)
          /\ n.revision = h.revision + 1 /\ n.runs = h.runs /\ n.pending = h.pending
          /\ n.log = h.log /\ n.batches = h.batches
        BY <1>1, <1>2, <2>2, SuccessorFields DEF StateRoot, Fields
    <2>4. n.cutBatches \in h.cutBatches .. Len(h.batches) /\ n.cutLog <= Len(h.log)
        BY <2>1, <2>3, <1>2
    <2>5. \A i \in DOMAIN h.log : i <= n.cutLog <=> h.log[i].batch <= n.cutBatches
        BY <2>1, <2>3, <1>2, <1>3
    <2>6. \A k \in n.cutBatches + 1 .. Len(h.batches) : h.batches[k].source >= n.cutBatches
        BY <2>3, <1>2
    <2>7. History(n)
        BY <1>1, <1>2, <2>3, <2>4, <2>5, <2>6, HistoryCut
    <2>8. QED
        BY <2>1, <2>3, <2>4, <2>7, <1>2, CutKeepsRest
<1>6. QED
    BY <1>4, <1>5

(* A transition that can be continued is owned, so its request is one a    *)
(* client made, and its page or its end is the only way on.                *)
LEMMA ContinuedStep ==
    ASSUME NEW h, Well(h), NEW r, NEW n \in Continued(h, r)
    PROVE  /\ Well(n) /\ n.revision = h.revision + 1 /\ Progress(n, h)
           /\ r \in Request
           /\ Admits(n, h, r) \/ (Leaves(n, h) /\ \E q \in Runs : n.pending[q].req = r)
<1>1. PICK q \in Runs :
          n \in IF h.pending[q].req # r \/ ~OwnsFence(h, q) THEN {}
                ELSE IF h.pending[q].effects + h.pending[q].scopes > 0 THEN {Paged(h, q)}
                ELSE IF Cold(h, r) = {} THEN {Finalized(h, q)} ELSE {}
    BY Zenon DEF Continued
<1>2. h.pending[q].req = r /\ OwnsFence(h, q)
    BY <1>1
<1>3. Owned(h, q)
    BY <1>2, FencedIsOwned DEF Well, OwnsFence
<1>4. r \in Request
    BY <1>2, <1>3 DEF Owned
<1>5. CASE h.pending[q].effects + h.pending[q].scopes > 0
    <2>1. n = Paged(h, q)
        BY <1>1, <1>2, <1>5
    <2>2. /\ Well(n) /\ n.revision = h.revision + 1 /\ Leaves(n, h) /\ Progress(n, h)
          /\ n.pending[q].req = r
        BY <2>1, <1>2, <1>5, PageStep
    <2>3. QED
        BY <2>2, <1>4
<1>6. CASE ~(h.pending[q].effects + h.pending[q].scopes > 0)
    <2>1. n = Finalized(h, q)
        BY <1>1, <1>2, <1>6
    <2>2. QED
        BY <2>1, <1>2, <1>4, FinalStep
<1>7. QED
    BY <1>5, <1>6

(* Every StateRoot a coordinator prepares is sound, and to the register    *)
(* either admits the request or changes nothing; when it changes nothing   *)
(* the request is reserved.                                                *)
LEMMA PreparedStep ==
    ASSUME NEW h, Well(h), NEW r \in Request \cup {NoRequest}, NEW n \in Prepared(h, r)
    PROVE  /\ Well(n) /\ n \in StateRoot /\ n.revision = h.revision + 1 /\ Progress(n, h)
           /\ r = NoRequest => Leaves(n, h)
           /\ r # NoRequest =>
                 Admits(n, h, r) \/ (Leaves(n, h) /\ \E q \in Runs : n.pending[q].req = r)
<1>1. CASE r = NoRequest
    <2>1. n = WithMaterial(h) \/ n \in CompactedPrefix(h) \cup CompactedEventFree(h)
        BY <1>1 DEF Prepared
    <2>2. Well(n) /\ n.revision = h.revision + 1 /\ Leaves(n, h) /\ Progress(n, h)
        BY <2>1, MaterialStep, CutStep
    <2>3. QED
        BY <1>1, <2>2 DEF Well, Typed
<1>2. CASE r # NoRequest
    <2>1. \/ n \in Continued(h, r)
          \/ Resolve(h, r) = "Fresh" /\ n \in InlineBatch(h, r)
          \/ Resolve(h, r) = "Fresh" /\ n \in PagedBegin(h, r)
        BY <1>2 DEF Prepared
    <2>2. /\ Well(n) /\ n.revision = h.revision + 1 /\ Progress(n, h)
          /\ Admits(n, h, r) \/ (Leaves(n, h) /\ \E q \in Runs : n.pending[q].req = r)
        <3>1. CASE n \in Continued(h, r)
            BY <3>1, ContinuedStep
        <3>2. CASE Resolve(h, r) = "Fresh" /\ n \in InlineBatch(h, r)
            BY <3>2, <1>2, InlineStep
        <3>3. CASE Resolve(h, r) = "Fresh" /\ n \in PagedBegin(h, r)
            BY <3>3, <1>2, BeginStep
        <3>4. QED
            BY <2>1, <3>1, <3>2, <3>3
    <2>3. QED
        BY <1>2, <2>2 DEF Well, Typed
<1>3. QED
    BY <1>1, <1>2

-----------------------------------------------------------------------------
(* The invariant.                                                          *)

LEMMA InitInv == Init => Inv
<1> SUFFICES ASSUME Init PROVE Inv
    OBVIOUS
<1> DEFINE rs == [q \in Runs |-> IF q \in Live THEN [token |-> 1, status |-> "Ready"]
                                 ELSE [token |-> 0, status |-> "Absent"]]
           ps == [q \in Runs |-> NoTransition]
<1>1. rs \in [Runs -> RunState]
    BY DurableAssumption DEF RunState
<1>2. ps \in [Runs -> Transition]
    BY DurableAssumption DEF Transition, NoTransition
<1>3. \A q \in Runs : rs[q].status # "Fenced" /\ ps[q] = NoTransition
    OBVIOUS
<1>4. head = [revision |-> 1, runs |-> rs, pending |-> ps,
              log |-> <<>>, batches |-> <<>>, cutLog |-> 0, cutBatches |-> 0]
    BY DEF Init
<1> HIDE DEF rs, ps
<1>5. /\ head.revision = 1 /\ head.runs = rs /\ head.pending = ps
      /\ head.log = <<>> /\ head.batches = <<>> /\ head.cutLog = 0 /\ head.cutBatches = 0
    BY <1>4
<1>6. head \in StateRoot
    BY <1>1, <1>2, <1>4 DEF StateRoot
<1>7. Typed(head)
    BY <1>5, <1>6 DEF Typed
<1>8. DOMAIN head.log = {} /\ DOMAIN head.batches = {} /\ Len(head.batches) = 0
    BY <1>5
<1>9. History(head)
    BY <1>5, <1>8 DEF History, LogOrdered, BatchesLogged, CutAligned, Restorable
<1>10. FencesOwned(head)
    BY <1>3, <1>5 DEF FencesOwned
<1>11. StageInv
    BY <1>5 DEF Init, StageInv, NoStage
<1>12. JobInv
    BY DEF Init, JobInv, NoJob
<1>13. QED
    BY <1>7, <1>9, <1>10, <1>11, <1>12 DEF Inv, Well

LEMMA PrepareKeepsInv ==
    ASSUME Inv, NEW k \in Coordinators, NEW r \in Request \cup {NoRequest},
           NEW n \in Prepared(head, r), Prepare(k, r, n)
    PROVE  Inv'
<1>1. /\ Well(head) /\ head.revision \in Nat /\ head.revision >= 1
    BY RootFields DEF Inv, Well, Typed
<1>2. n \in StateRoot
    BY <1>1, PreparedStep
<1>3. Well(head)' /\ head' = head /\ acked' = acked
    BY <1>1 DEF Prepare
<1>4. /\ job' \in [Coordinators -> [req: Request \cup {NoRequest}, pinned: Nat]]
      /\ job'[k].req = r /\ job'[k].pinned = head.revision
      /\ \A j \in Coordinators \ {k} : job'[j] = job[j]
    BY <1>1 DEF Inv, JobInv, Prepare
<1>5. /\ DOMAIN stage' = Coordinators
      /\ stage'[k].parent = head.revision /\ stage'[k].next = n
      /\ \A j \in Coordinators \ {k} : stage'[j] = stage[j]
    BY DEF Inv, StageInv, Prepare
<1>6. StageInv'
    <2> SUFFICES ASSUME NEW j \in Coordinators
                 PROVE  /\ stage'[j].parent \in {0, job'[j].pinned}
                        /\ stage'[j].parent <= head.revision
                        /\ stage'[j] # NoStage =>
                              stage'[j].parent # 0 /\ stage'[j].next \in StateRoot
                        /\ stage'[j].parent = head.revision =>
                              stage'[j].next \in Prepared(head, job'[j].req)
        BY <1>3, <1>5, Zenon DEF StageInv
    <2>1. CASE j = k
        BY <2>1, <1>1, <1>2, <1>4, <1>5
    <2>2. CASE j # k
        BY <2>2, <1>4, <1>5 DEF Inv, StageInv
    <2>3. QED
        BY <2>1, <2>2
<1>7. QED
    BY <1>3, <1>4, <1>6 DEF Inv, JobInv

(* A publication makes every other prepared StateRoot stale.               *)
LEMMA PublishKeepsInv ==
    ASSUME Inv, NEW k \in Coordinators, MayPublish(k), head' = stage[k].next,
           stage' = [stage EXCEPT ![k] = NoStage],
           job' = [job EXCEPT ![k] = NoJob]
              \/ job' = [job EXCEPT ![k].pinned = stage[k].next.revision],
           acked' \subseteq Request
    PROVE  Inv'
<1>1. Well(head) /\ head.revision \in Nat /\ head.revision >= 1
    BY RootFields DEF Inv, Well, Typed
<1>2. job[k].req \in Request \cup {NoRequest} /\ stage[k].next \in Prepared(head, job[k].req)
    BY DEF Inv, JobInv, StageInv, MayPublish
<1>3. Well(stage[k].next) /\ stage[k].next.revision = head.revision + 1
    BY <1>1, <1>2, PreparedStep
<1>4. Well(head)' /\ head'.revision = head.revision + 1
    BY <1>3
<1>5. /\ job' \in [Coordinators -> [req: Request \cup {NoRequest}, pinned: Nat]]
      /\ \A j \in Coordinators \ {k} : job'[j] = job[j]
    BY <1>1, <1>3 DEF Inv, JobInv, NoJob
<1>6. /\ DOMAIN stage' = Coordinators /\ stage'[k] = NoStage
      /\ \A j \in Coordinators \ {k} : stage'[j] = stage[j]
    BY DEF Inv, StageInv
<1>7. StageInv'
    <2> SUFFICES ASSUME NEW j \in Coordinators
                 PROVE  /\ stage'[j].parent \in {0, job'[j].pinned}
                        /\ stage'[j].parent <= head'.revision
                        /\ stage'[j] # NoStage =>
                              stage'[j].parent # 0 /\ stage'[j].next \in StateRoot
                        /\ stage'[j].parent # head'.revision
        BY <1>6, Zenon DEF StageInv
    <2>1. CASE j = k
        BY <2>1, <1>1, <1>4, <1>6 DEF NoStage
    <2>2. CASE j # k
        <3>1. /\ stage[j].parent \in {0, job[j].pinned} /\ stage[j].parent <= head.revision
              /\ stage[j] # NoStage => stage[j].parent # 0 /\ stage[j].next \in StateRoot
            BY DEF Inv, StageInv
        <3>2. job[j].pinned \in Nat
            BY DEF Inv, JobInv
        <3>3. QED
            BY <2>2, <3>1, <3>2, <1>1, <1>4, <1>5, <1>6
    <2>3. QED
        BY <2>1, <2>2
<1>8. QED
    BY <1>4, <1>5, <1>7 DEF Inv, JobInv

LEMMA DropKeepsInv ==
    ASSUME Inv, NEW k \in Coordinators, Dropped(k), UNCHANGED <<head, acked>>
    PROVE  Inv'
<1>1. Well(head)' /\ head' = head /\ head.revision \in Nat /\ head.revision >= 1
    BY RootFields DEF Inv, Well, Typed
<1>2. /\ job' \in [Coordinators -> [req: Request \cup {NoRequest}, pinned: Nat]]
      /\ \A j \in Coordinators \ {k} : job'[j] = job[j]
    BY DEF Inv, JobInv, NoJob, Dropped
<1>3. /\ DOMAIN stage' = Coordinators /\ stage'[k] = NoStage
      /\ \A j \in Coordinators \ {k} : stage'[j] = stage[j]
    BY DEF Inv, StageInv, Dropped
<1>4. StageInv'
    <2> SUFFICES ASSUME NEW j \in Coordinators
                 PROVE  /\ stage'[j].parent \in {0, job'[j].pinned}
                        /\ stage'[j].parent <= head.revision
                        /\ stage'[j] # NoStage =>
                              stage'[j].parent # 0 /\ stage'[j].next \in StateRoot
                        /\ stage'[j].parent = head.revision =>
                              stage'[j].next \in Prepared(head, job'[j].req)
        BY <1>1, <1>3, Zenon DEF StageInv
    <2>1. CASE j = k
        BY <2>1, <1>1, <1>3 DEF NoStage
    <2>2. CASE j # k
        BY <2>2, <1>2, <1>3 DEF Inv, StageInv
    <2>3. QED
        BY <2>1, <2>2
<1>5. QED
    BY <1>1, <1>2, <1>4 DEF Inv, JobInv

LEMMA AskedRequests == Asked \subseteq Request
BY DEF Asked, Request

(* What a step is, whichever action it is of.                              *)
LEMMA StepKinds ==
    ASSUME Inv, NEW k \in Coordinators,
           \/ Submit(k) \/ Continue(k) \/ StageMaterial(k) \/ StageCompaction(k)
           \/ Publish(k) \/ PublishUnknown(k) \/ LoseRace(k) \/ Crash(k)
    PROVE  \/ \E r \in Request : SubmitReplay(k, r)
           \/ \E r \in Request \cup {NoRequest} : \E n \in Prepared(head, r) : Prepare(k, r, n)
           \/ PublishPage(k) \/ PublishLast(k) \/ PublishUnknown(k)
           \/ Dropped(k) /\ UNCHANGED <<head, acked>>
<1> USE AskedRequests
<1>1. CASE Submit(k)
    <2>1. PICK r \in Request : SubmitReplay(k, r) \/ SubmitFresh(k, r) \/ SubmitPending(k, r)
        BY <1>1 DEF Submit
    <2>2. r # NoRequest
        BY RequestFacts
    <2>3. CASE SubmitFresh(k, r)
        <3>1. PICK n \in InlineBatch(head, r) \cup PagedBegin(head, r) : Prepare(k, r, n)
            BY <2>3, Zenon DEF SubmitFresh
        <3>2. n \in Prepared(head, r)
            BY <3>1, <2>2, <2>3 DEF Prepared, SubmitFresh
        <3>3. QED
            BY <3>1, <3>2
    <2>4. CASE SubmitPending(k, r)
        <3>1. PICK n \in Continued(head, r) : Prepare(k, r, n)
            BY <2>4, Zenon DEF SubmitPending
        <3>2. n \in Prepared(head, r)
            BY <3>1, <2>2 DEF Prepared
        <3>3. QED
            BY <3>1, <3>2
    <2>5. QED
        BY <2>1, <2>3, <2>4
<1>2. CASE Continue(k)
    <2>1. PICK n \in Continued(head, job[k].req) : Prepare(k, job[k].req, n)
        BY <1>2, Zenon DEF Continue
    <2>2. job[k].req \in Request
        BY <2>1, ContinuedStep DEF Inv
    <2>3. n \in Prepared(head, job[k].req)
        BY <2>1, <2>2, RequestFacts DEF Prepared
    <2>4. QED
        BY <2>1, <2>2, <2>3
<1>3. CASE StageMaterial(k)
    <2>1. WithMaterial(head) \in Prepared(head, NoRequest)
        BY DEF Prepared
    <2>2. QED
        BY <1>3, <2>1 DEF StageMaterial
<1>4. CASE StageCompaction(k)
    <2>1. PICK n \in CompactedPrefix(head) \cup CompactedEventFree(head) : Prepare(k, NoRequest, n)
        BY <1>4, Zenon DEF StageCompaction
    <2>2. n \in Prepared(head, NoRequest)
        BY <2>1 DEF Prepared
    <2>3. QED
        BY <2>1, <2>2
<1>5. CASE Publish(k)
    BY <1>5 DEF Publish
<1>6. CASE LoseRace(k) \/ Crash(k)
    BY <1>6 DEF LoseRace, Crash
<1>7. QED
    BY <1>1, <1>2, <1>3, <1>4, <1>5, <1>6

LEMMA StepKeepsInv ==
    ASSUME Inv, NEW k \in Coordinators,
           \/ \E r \in Request : SubmitReplay(k, r)
           \/ \E r \in Request \cup {NoRequest} : \E n \in Prepared(head, r) : Prepare(k, r, n)
           \/ PublishPage(k) \/ PublishLast(k) \/ PublishUnknown(k)
           \/ Dropped(k) /\ UNCHANGED <<head, acked>>
    PROVE  Inv'
<1>1. ASSUME NEW r \in Request, SubmitReplay(k, r) PROVE Inv'
    BY <1>1 DEF SubmitReplay, Inv, StageInv, JobInv
<1>2. CASE \E r \in Request \cup {NoRequest} : \E n \in Prepared(head, r) : Prepare(k, r, n)
    BY <1>2, PrepareKeepsInv
<1>3. CASE PublishPage(k)
    BY <1>3, PublishKeepsInv DEF PublishPage, Inv, JobInv
<1>4. CASE PublishLast(k)
    <2>1. acked' \subseteq Request
        BY <1>4 DEF PublishLast, Inv, JobInv
    <2>2. QED
        BY <1>4, <2>1, PublishKeepsInv DEF PublishLast, Dropped
<1>5. CASE PublishUnknown(k)
    BY <1>5, PublishKeepsInv DEF PublishUnknown, Dropped, Inv, JobInv
<1>6. CASE Dropped(k) /\ UNCHANGED <<head, acked>>
    BY <1>6, DropKeepsInv
<1>7. QED
    BY <1>1, <1>2, <1>3, <1>4, <1>5, <1>6

LEMMA NextKeepsInv == Inv /\ [Next]_vars => Inv'
<1> SUFFICES ASSUME Inv, [Next]_vars PROVE Inv'
    OBVIOUS
<1>1. CASE Next
    <2>1. PICK k \in Coordinators :
              \/ Submit(k) \/ Continue(k) \/ StageMaterial(k) \/ StageCompaction(k)
              \/ Publish(k) \/ PublishUnknown(k) \/ LoseRace(k) \/ Crash(k)
        BY <1>1 DEF Next
    <2>2. \/ \E r \in Request : SubmitReplay(k, r)
          \/ \E r \in Request \cup {NoRequest} : \E n \in Prepared(head, r) : Prepare(k, r, n)
          \/ PublishPage(k) \/ PublishLast(k) \/ PublishUnknown(k)
          \/ Dropped(k) /\ UNCHANGED <<head, acked>>
        BY <2>1, StepKinds
    <2>3. QED
        BY <2>2, StepKeepsInv
<1>2. CASE UNCHANGED vars
    BY <1>2 DEF vars, Inv, StageInv, JobInv
<1>3. QED
    BY <1>1, <1>2

LEMMA InvHolds == Spec => []Inv
BY InitInv, NextKeepsInv, PTL DEF Spec

-----------------------------------------------------------------------------
(* The theorems.                                                           *)

(* From its first publication to its last a paged transition owns its Run, *)
(* whichever coordinators publish, crash or lose races in between, and     *)
(* verify_fenced_paged_run never refuses its next page.                    *)
THEOREM FencesHold == Spec => []FenceHolds
<1>1. Inv => FenceHolds
    <2> SUFFICES ASSUME Inv PROVE FenceHolds
        OBVIOUS
    <2>1. DurableTypeOK
        BY DEF Inv, Well, Typed, StageInv, JobInv, DurableTypeOK
    <2>2. ASSUME NEW q \in Runs, head.pending[q] # NoTransition
          PROVE  /\ OwnsFence(head, q)
                 /\ \A i \in DOMAIN head.log :
                       head.log[i].cmd \notin Members(head.pending[q].req.cmds)
        <3>1. Owned(head, q)
            BY <2>2 DEF Inv, Well, FencesOwned
        <3>2. Members(head.pending[q].req.cmds) = {head.pending[q].req.cmds[1]}
            BY <3>1, SingleFacts DEF Owned
        <3>3. QED
            BY <3>1, <3>2 DEF Owned
    <2>3. \A q \in Runs : head.pending[q] = NoTransition => head.runs[q].status # "Fenced"
        BY DEF Inv, Well, FencesOwned
    <2>4. QED
        BY <2>1, <2>2, <2>3 DEF FenceHolds
<1>2. QED
    BY <1>1, InvHolds, PTL

(* Whatever has been compacted, a Machine restored from the base and the   *)
(* hot batches finds the root each of them was frozen on, and no batch of  *)
(* the same Run since (MachineReplayAncestry::verify_source).              *)
THEOREM RestoresSucceed == Spec => []RestoreSucceeds
<1>1. Inv => RestoreSucceeds
    BY DEF Inv, Well, History, Restorable, RestoreSucceeds
<1>2. QED
    BY <1>1, InvHolds, PTL

(* All commands of an admitted request are on the same side of the cut, in *)
(* one batch.                                                              *)
LEMMA AdmittedIsReplay ==
    ASSUME NEW h, Well(h), NEW b \in DOMAIN h.batches, h.batches[b].req # NoRequest
    PROVE  Resolve(h, h.batches[b].req) = "Replay"
<1> DEFINE r == h.batches[b].req
           M == Members(r.cmds)
<1>1. h \in StateRoot /\ Typed(h) /\ History(h) /\ FencesOwned(h)
    BY DEF Well, Typed
<1>2. /\ DOMAIN h.log = 1..Len(h.log) /\ Len(h.log) \in Nat /\ h.cutLog \in Nat
      /\ h.cutLog <= Len(h.log) /\ h.batches \in Seq(BatchRecord) /\ h.cutBatches \in Nat
    BY <1>1, RootFields DEF Typed
<1>3. r \in Request /\ b \in Nat
    <2>1. b \in 1..Len(h.batches) /\ Len(h.batches) \in Nat
        BY <1>1, RootFields
    <2>2. h.batches[b] \in BatchRecord
        BY <2>1, <1>2, ElementOfSeq
    <2>3. QED
        BY <2>1, <2>2 DEF BatchRecord
<1>4. M # {}
    BY <1>3, RequestFacts
<1>5. \A c \in M : \E i \in DOMAIN h.log : h.log[i].cmd = c /\ h.log[i].batch = b
    BY <1>1, Zenon DEF History, BatchesLogged
<1>6. \A i, j \in DOMAIN h.log : h.log[i].cmd = h.log[j].cmd => h.log[i].batch = h.log[j].batch
    BY <1>1, Zenon DEF History, LogOrdered
<1>7. \A i \in DOMAIN h.log : i <= h.cutLog <=> h.log[i].batch <= h.cutBatches
    BY <1>1, Zenon DEF History, CutAligned
<1>8. Reserved(h, r) = {}
    <2> SUFFICES ASSUME NEW c \in M, NEW q \in Runs, c \in Members(h.pending[q].req.cmds)
                 PROVE  FALSE
        BY DEF Reserved
    <2>1. h.pending[q] # NoTransition
        BY NoMembers DEF NoTransition
    <2>2. Owned(h, q)
        BY <1>1, <2>1 DEF FencesOwned
    <2>3. c = h.pending[q].req.cmds[1]
        BY <2>2, SingleFacts DEF Owned
    <2>4. QED
        BY <2>2, <2>3, <1>5 DEF Owned
<1>9. BatchesOf(h, M) = {b}
    <2>1. b \in BatchesOf(h, M)
        BY <1>4, <1>5 DEF BatchesOf
    <2>2. ASSUME NEW i \in DOMAIN h.log, h.log[i].cmd \in M
          PROVE  h.log[i].batch = b
        BY <2>2, <1>5, <1>6, ZenonT(60)
    <2>3. QED
        BY <2>1, <2>2 DEF BatchesOf
<1> HIDE DEF r, M
<1>10. ExactReplay(h, r, M)
    BY <1>9 DEF ExactReplay, r, M
<1>11. CASE b <= h.cutBatches
    <2>1. Cold(h, r) = M
        <3> SUFFICES ASSUME NEW c \in M
                     PROVE  \E i \in 1 .. h.cutLog : h.log[i].cmd = c
            BY DEF Cold, M
        <3>1. PICK i \in DOMAIN h.log : h.log[i].cmd = c /\ h.log[i].batch = b
            BY <1>5
        <3>2. i \in 1 .. h.cutLog
            BY <3>1, <1>2, <1>7, <1>11
        <3>3. QED
            BY <3>1, <3>2
    <2>2. Hot(h, r) = {}
        <3> SUFFICES ASSUME NEW c \in M, NEW i \in h.cutLog + 1 .. Len(h.log), h.log[i].cmd = c
                     PROVE  FALSE
            BY DEF Hot, M
        <3>1. i \in DOMAIN h.log /\ ~(i <= h.cutLog)
            BY <1>2
        <3>2. h.log[i].batch = b
            BY <3>1, <1>5, <1>6, ZenonT(60)
        <3>3. QED
            BY <3>1, <3>2, <1>7, <1>11
    <2>3. QED
        BY <2>1, <2>2, <1>4, <1>8, <1>10 DEF Resolve, r
<1>12. CASE ~(b <= h.cutBatches)
    <2>1. Hot(h, r) = M
        <3> SUFFICES ASSUME NEW c \in M
                     PROVE  \E i \in h.cutLog + 1 .. Len(h.log) : h.log[i].cmd = c
            BY DEF Hot, M
        <3>1. PICK i \in DOMAIN h.log : h.log[i].cmd = c /\ h.log[i].batch = b
            BY <1>5
        <3>2. i \in h.cutLog + 1 .. Len(h.log)
            BY <3>1, <1>2, <1>7, <1>12
        <3>3. QED
            BY <3>1, <3>2
    <2>2. QED
        BY <2>1, <1>4, <1>8, <1>10 DEF Resolve, r
<1>13. QED
    BY <1>11, <1>12

(* The repetition of an admitted request is answered as a replay for ever, *)
(* hot or archived, and never admitted again (load_hot_batch_replay,       *)
(* resolve_archived_batch_members).                                        *)
THEOREM ReplaysAreExact == Spec => []ReplayIsExact
<1>1. Inv => ReplayIsExact
    BY AdmittedIsReplay DEF Inv, ReplayIsExact
<1>2. QED
    BY <1>1, InvHolds, PTL

(* What any coordinator needs to take a fenced transition up again: its    *)
(* request is found as pending and there is a next publication             *)
(* (continue_paged never comes to a dead end).                             *)
FenceCanGoOn ==
    \A q \in Runs : head.pending[q] # NoTransition =>
        /\ Resolve(head, head.pending[q].req) = "Pending"
        /\ Continued(head, head.pending[q].req) # {}

(* After any crash of the coordinator that began it, a paged transition    *)
(* can be continued by repeating its request: the guards of SubmitPending  *)
(* hold for it.                                                            *)
THEOREM FencesCanGoOn == Spec => []FenceCanGoOn
<1>1. Inv => FenceCanGoOn
    <2> SUFFICES ASSUME Inv, NEW q \in Runs, head.pending[q] # NoTransition
                 PROVE  /\ Resolve(head, head.pending[q].req) = "Pending"
                        /\ Continued(head, head.pending[q].req) # {}
        BY DEF FenceCanGoOn
    <2> DEFINE r == head.pending[q].req
    <2>1. Well(head) /\ head \in StateRoot /\ Owned(head, q)
        BY DEF Inv, Well, Typed, FencesOwned
    <2>2. /\ r \in Request /\ OwnsFence(head, q) /\ Members(r.cmds) = {r.cmds[1]}
          /\ \A i \in DOMAIN head.log : head.log[i].cmd # r.cmds[1]
        BY <2>1, SingleFacts DEF Owned
    <2>3. Resolve(head, r) = "Pending"
        BY <2>2 DEF Resolve, Reserved
    <2>4. Cold(head, r) = {}
        <3>1. \A i \in 1 .. head.cutLog : i \in DOMAIN head.log
            BY <2>1, RootFields DEF Well, Typed
        <3>2. QED
            BY <3>1, <2>2 DEF Cold
    <2> DEFINE S(p) == IF head.pending[p].req # r \/ ~OwnsFence(head, p) THEN {}
                       ELSE IF head.pending[p].effects + head.pending[p].scopes > 0
                       THEN {Paged(head, p)}
                       ELSE IF Cold(head, r) = {} THEN {Finalized(head, p)} ELSE {}
    <2>5. S(q) # {}
        BY <2>2, <2>4
    <2>6. Continued(head, r) = UNION {S(p) : p \in Runs}
        BY DEF Continued
    <2> HIDE DEF S
    <2>7. QED
        BY <2>3, <2>5, <2>6
<1>2. QED
    BY <1>1, InvHolds, PTL

-----------------------------------------------------------------------------
(* The refinement of CommandRegister.                                      *)

(* What a publication is to the register and to the transitions under way. *)
LEMMA PublishedStep ==
    ASSUME Inv, NEW k \in Coordinators, MayPublish(k), head' = stage[k].next
    PROVE  /\ job[k].req \in Request \cup {NoRequest}
           /\ Progress(head', head)
           /\ \/ Leaves(head', head) /\ (job[k].req = NoRequest \/ MoreToDo(k))
              \/ Admits(head', head, job[k].req)
<1>1. Well(head) /\ job[k].req \in Request \cup {NoRequest}
    BY DEF Inv, JobInv
<1>2. stage[k].next \in Prepared(head, job[k].req)
    BY DEF Inv, StageInv, MayPublish
<1>3. QED
    BY <1>1, <1>2, PreparedStep DEF MoreToDo

(* Every page that is published leaves fewer to do, and no other           *)
(* publication touches the transition (prepare_pinned_transition_page).    *)
THEOREM PagesOnlyDecrease == Spec => PagesDecrease
<1>1. ASSUME Inv, [Next]_vars
      PROVE  [\A q \in Runs : head.pending[q] # NoTransition =>
                 \/ head'.pending[q] \in {head.pending[q], NoTransition}
                 \/ head'.pending[q].effects + head'.pending[q].scopes
                       < head.pending[q].effects + head.pending[q].scopes]_vars
    <2>1. CASE UNCHANGED head
        BY <2>1
    <2>2. CASE ~UNCHANGED head
        <3>1. PICK k \in Coordinators :
                  \/ Submit(k) \/ Continue(k) \/ StageMaterial(k) \/ StageCompaction(k)
                  \/ Publish(k) \/ PublishUnknown(k) \/ LoseRace(k) \/ Crash(k)
            BY <1>1, <2>2 DEF Next, vars
        <3>2. MayPublish(k) /\ head' = stage[k].next
            BY <2>2, <3>1, <1>1, StepKinds
            DEF SubmitReplay, Prepare, PublishPage, PublishLast, PublishUnknown
        <3>3. Progress(head', head)
            BY <3>2, <1>1, PublishedStep
        <3>4. QED
            BY <3>3 DEF Progress
    <2>3. QED
        BY <2>1, <2>2
<1>2. QED
    BY <1>1, InvHolds, PTL DEF Spec, PagesDecrease

LEMMA RegisterNames ==
    /\ Register!Request = Request
    /\ \A b : Register!Members(b) = Members(b) /\ Register!Touched(b) = Touched(b)
    /\ \A b, q : Register!CountOn(b, q) = CountOn(b, q)
<1>1. \A b : Register!Members(b) = Members(b)
    BY DEF Register!Members, Members
<1>2. \A b : Register!Touched(b) = Touched(b)
    BY <1>1 DEF Register!Touched, Touched
<1>3. \A b, q : Register!CountOn(b, q) = CountOn(b, q)
    BY <1>1, Zenon DEF Register!CountOn, CountOn, Register!Cardinality, Cardinality
<1>4. Register!Request = Request
    BY DEF Register!Request, Request
<1>5. QED
    BY <1>1, <1>2, <1>3, <1>4

LEMMA AdmitsIsAdmit ==
    ASSUME NEW r, Admits(head', head, r)
    PROVE  r \in Request /\ Register!Admit(r)
<1>1. r \in Request
    BY DEF Admits
<1>2. /\ \A s \in Requests(head) : Members(s.cmds) \cap Members(r.cmds) = {}
      /\ \A q \in Touched(r.cmds) : q \in Runs /\ head.runs[q].token = r.pre[q]
      /\ Requests(head') = Requests(head) \cup {r}
      /\ \A q \in Runs : head'.runs[q].token = head.runs[q].token + CountOn(r.cmds, q)
    BY <1>1, RequestFacts DEF Admits
<1>3. QED
    BY <1>1, <1>2, RegisterNames DEF Register!Admit, Requests

LEMMA LeavesIsNothing ==
    ASSUME Leaves(head', head)
    PROVE  /\ {head'.batches[b].req : b \in DOMAIN head'.batches} \ {NoRequest}
                = {head.batches[b].req : b \in DOMAIN head.batches} \ {NoRequest}
           /\ [q \in Runs |-> head'.runs[q].token] = [q \in Runs |-> head.runs[q].token]
BY DEF Leaves, Requests

LEMMA StepIsRegisterStep ==
    ASSUME Inv, Next
    PROVE  [Register!RegisterNext]_(Register!registerVars)
<1>1. PICK k \in Coordinators :
          \/ Submit(k) \/ Continue(k) \/ StageMaterial(k) \/ StageCompaction(k)
          \/ Publish(k) \/ PublishUnknown(k) \/ LoseRace(k) \/ Crash(k)
    BY DEF Next
<1>2. CASE UNCHANGED <<head, acked>>
    BY <1>2 DEF Register!registerVars
<1>3. ASSUME NEW r \in Request, SubmitReplay(k, r)
      PROVE  Register!Ack(r)
    <2>1. r \in Requests(head)
        <3>1. \E b \in DOMAIN head.batches : head.batches[b].req = r
            BY <1>3 DEF SubmitReplay, Resolve, ExactReplay
        <3>2. QED
            BY <3>1, RequestFacts DEF Requests
    <2>2. QED
        BY <1>3, <2>1 DEF Register!Ack, Requests, SubmitReplay
<1>4. CASE PublishPage(k) \/ PublishUnknown(k)
    <2>1. MayPublish(k) /\ head' = stage[k].next /\ acked' = acked
        BY <1>4 DEF PublishPage, PublishUnknown
    <2>2. CASE Leaves(head', head)
        BY <2>1, <2>2, LeavesIsNothing, Zenon DEF Register!registerVars
    <2>3. CASE Admits(head', head, job[k].req)
        BY <2>1, <2>3, AdmitsIsAdmit, RegisterNames
        DEF Register!RegisterNext, Register!AdmitUnheard
    <2>4. QED
        BY <2>1, <2>2, <2>3, PublishedStep
<1>5. CASE PublishLast(k)
    <2>1. MayPublish(k) /\ head' = stage[k].next
        BY <1>5 DEF PublishLast
    <2>2. CASE Leaves(head', head) /\ (job[k].req = NoRequest \/ MoreToDo(k))
        <3>1. acked' = acked
            BY <1>5, <2>2 DEF PublishLast
        <3>2. QED
            BY <2>2, <3>1, LeavesIsNothing, Zenon DEF Register!registerVars
    <2>3. CASE Admits(head', head, job[k].req)
        <3>1. PICK r : r = job[k].req
            OBVIOUS
        <3>2. Admits(head', head, r)
            BY <2>3, <3>1
        <3>3. r \in Request /\ Register!Admit(r)
            BY <3>2, AdmitsIsAdmit
        <3>4. acked' = acked \cup {r}
            BY <1>5, <3>1, <3>3, RequestFacts DEF PublishLast
        <3>5. QED
            BY <3>3, <3>4, RegisterNames DEF Register!RegisterNext, Register!AdmitAndAck
    <2>4. QED
        BY <2>1, <2>2, <2>3, PublishedStep
<1>6. QED
    <2>1. \/ \E r \in Request : SubmitReplay(k, r)
          \/ UNCHANGED <<head, acked>>
          \/ PublishPage(k) \/ PublishLast(k) \/ PublishUnknown(k)
        BY <1>1, StepKinds DEF Prepare
    <2>2. CASE \E r \in Request : SubmitReplay(k, r)
        BY <2>2, <1>3, RegisterNames DEF Register!RegisterNext
    <2>3. QED
        BY <2>1, <2>2, <1>2, <1>4, <1>5

(* Publishing page by page from several coordinators, with crashes, lost   *)
(* races, unknown outcomes, repeated requests and compaction, implements   *)
(* the atomic register: each request is admitted once, whole, on the state *)
(* its client saw, and is acknowledged only when it was.                   *)
THEOREM RegisterImplemented == Spec => ImplementsRegister
<1>1. Init => Register!RegisterInit
    <2> SUFFICES ASSUME Init PROVE Register!RegisterInit
        OBVIOUS
    <2>1. /\ head.batches = <<>> /\ acked = {}
          /\ \A q \in Runs : head.runs[q] = IF q \in Live THEN [token |-> 1, status |-> "Ready"]
                                             ELSE [token |-> 0, status |-> "Absent"]
        BY DEF Init
    <2>2. {head.batches[b].req : b \in DOMAIN head.batches} = {}
        BY <2>1
    <2>3. \A q \in Runs : head.runs[q].token = IF q \in Live THEN 1 ELSE 0
        BY <2>1
    <2>4. QED
        BY <2>1, <2>2, <2>3 DEF Register!RegisterInit
<1>2. ASSUME Inv, [Next]_vars
      PROVE  [Register!RegisterNext]_(Register!registerVars)
    <2>1. CASE Next
        BY <1>2, <2>1, StepIsRegisterStep
    <2>2. CASE UNCHANGED vars
        BY <2>2 DEF vars, Register!registerVars
    <2>3. QED
        BY <1>2, <2>1, <2>2
<1>3. QED
    BY <1>1, <1>2, InvHolds, PTL DEF Spec, ImplementsRegister, Register!RegisterSpec
==============================================================================
