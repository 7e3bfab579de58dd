------------------------ MODULE CommandRegisterProofs ------------------------
(* The promise of CommandRegister, for any number of commands and Runs.    *)
EXTENDS CommandRegister, FiniteSetTheorems, TLAPS

LEMMA TouchedIsCounted ==
    ASSUME NEW b \in Batches, NEW q \in Runs
    PROVE  /\ CountOn(b, q) \in Nat
           /\ q \in Touched(b) => CountOn(b, q) > 0
<1> DEFINE S == {c \in Members(b) : RunOf[c] = q}
<1>1. Members(b) \subseteq Commands
    BY BatchAssumption DEF Members
<1>2. IsFiniteSet(S)
    BY <1>1, CommandAssumption, FS_Subset
<1>3. CountOn(b, q) = Cardinality(S) /\ Cardinality(S) \in Nat
    BY <1>2, FS_CardinalityType DEF CountOn
<1>4. q \in Touched(b) => S # {}
    BY DEF Touched
<1>5. S # {} => Cardinality(S) # 0
    BY <1>2, FS_EmptySet
<1>6. QED
    BY <1>3, <1>4, <1>5

(* A token that was consumed is behind the Run for good.                   *)
RegisterInv ==
    /\ admitted \subseteq Request
    /\ version \in [Runs -> Nat]
    /\ \A r \in admitted : \A q \in Touched(r.cmds) : r.pre[q] < version[q]
    /\ HistoryIsLinear

LEMMA TouchedRuns == ASSUME NEW b \in Batches PROVE Touched(b) \subseteq Runs
BY BatchAssumption, CommandAssumption DEF Touched, Members

LEMMA AdmitKeepsInv ==
    ASSUME RegisterInv, NEW r \in Request, Admit(r)
    PROVE  RegisterInv'
<1> USE DEF RegisterInv
<1>1. r.cmds \in Batches /\ r.pre \in [Runs -> 0..MaxToken]
    BY DEF Request
<1>2. admitted' \subseteq Request
    BY DEF Admit
<1>3. \A q \in Runs : /\ CountOn(r.cmds, q) \in Nat
                      /\ version'[q] = version[q] + CountOn(r.cmds, q)
                      /\ version[q] \in Nat
    BY <1>1, TouchedIsCounted DEF Admit
<1>4. version' \in [Runs -> Nat]
    BY <1>3 DEF Admit
<1>5. \A s \in admitted : \A q \in Touched(s.cmds) : q \in Runs /\ s.pre[q] \in Nat
    BY TouchedRuns, CommandAssumption DEF Request
<1>6. \A q \in Touched(r.cmds) : q \in Runs /\ CountOn(r.cmds, q) > 0 /\ r.pre[q] = version[q]
    BY <1>1, TouchedRuns, TouchedIsCounted DEF Admit
<1>7. ASSUME NEW s \in admitted', NEW q \in Touched(s.cmds)
      PROVE  s.pre[q] < version'[q]
    <2>1. CASE s \in admitted
        BY <2>1, <1>3, <1>5
    <2>2. CASE s = r
        BY <2>2, <1>3, <1>6
    <2>3. QED
        BY <2>1, <2>2 DEF Admit
<1>8. HistoryIsLinear'
    <2>1. ASSUME NEW s \in admitted
          PROVE  /\ Members(r.cmds) \cap Members(s.cmds) = {}
                 /\ \A q \in Touched(r.cmds) \cap Touched(s.cmds) : r.pre[q] # s.pre[q]
        BY <1>5, <1>6 DEF Admit
    <2>2. QED
        BY <2>1 DEF HistoryIsLinear, Admit
<1>9. QED
    BY <1>2, <1>4, <1>7, <1>8

(* No command identity and no state of a Run is consumed twice, whatever   *)
(* clients ask for and repeat (Machine::submit, verify of a pinned command *)
(* proof).                                                                 *)
THEOREM RegisterIsLinear == RegisterSpec => []HistoryIsLinear
<1>1. RegisterInit => RegisterInv
    BY DEF RegisterInit, RegisterInv, HistoryIsLinear
<1>2. RegisterInv /\ [RegisterNext]_registerVars => RegisterInv'
    <2>1. ASSUME RegisterInv, RegisterNext PROVE RegisterInv'
        BY <2>1, AdmitKeepsInv
        DEF RegisterNext, AdmitAndAck, AdmitUnheard, Ack, RegisterInv, HistoryIsLinear
    <2>2. ASSUME RegisterInv, UNCHANGED registerVars PROVE RegisterInv'
        BY <2>2 DEF registerVars, RegisterInv, HistoryIsLinear
    <2>3. QED
        BY <2>1, <2>2
<1>3. RegisterInv => HistoryIsLinear
    BY DEF RegisterInv
<1>4. QED
    BY <1>1, <1>2, <1>3, PTL DEF RegisterSpec
==============================================================================
