--------------------------- MODULE OperatorPageProofs --------------------------
(***************************************************************************)
(* Theorems about OperatorPage, for any devices, any number of set-control *)
(* and plan requests in flight and any order of their answers: the plan    *)
(* shown fits the write button, a blocked device is never selected, page   *)
(* and backend agree about the source unless an answer was lost or         *)
(* crossed, and what was written keeps the next write locked.              *)
(***************************************************************************)
EXTENDS OperatorPage, TLAPS

LEMMA InitIndInv == Init => IndInv
  BY DEF Init, IndInv, TypeOK, PlanFits, PlanInFlight, SelectionAdmissible,
     OwedLocks, OwedQueued, ControlFollowed, ActiveReceipts

LEMMA InvalidTyped ==
    ASSUME TypeOK, InvalidatePlan
    PROVE  /\ plan' \in {None} \cup Plans
           /\ planning' \subseteq PlanRequests
  <1>1. \A q \in planning : q \in PlanRequests
    BY DEF TypeOK
  <1>2. \A q \in planning : [q EXCEPT !.current = FALSE] \in PlanRequests
    BY <1>1 DEF PlanRequests
  <1> QED BY <1>2 DEF InvalidatePlan

LEMMA Invalidated ==
    ASSUME TypeOK, InvalidatePlan
    PROVE  plan' = None /\ \A q \in planning' : ~q.current
  BY DEF TypeOK, PlanRequests, InvalidatePlan

\* A source is never among its own eligible targets.
LEMMA EligibleNotBlocked ==
    ASSUME NEW s \in Sources
    PROVE  EligibleBy(s) \cap BlockedBy(s) = {} /\ EligibleBy(s) \subseteq Devices
  BY CompatibleAssumption DEF EligibleBy, BlockedBy, Sources

--------------------------------------------------------------------------------
(* One lemma per action: each part of the invariant it can disturb             *)

LEMMA GeneratesPlan ==
    ASSUME IndInv, GeneratePlan
    PROVE  IndInv'
  <1> USE NoneAssumption DEF IndInv, GeneratePlan, Shown, choice, batch, backend, history, vars
  <1>1. TypeOK'
    <2>1. [targets |-> Queued, source |-> None, current |-> TRUE] \in PlanRequests
      BY DEF TypeOK, Queued, PlanRequests
    <2> QED BY <2>1 DEF TypeOK
  <1>2. PlanFits'
    BY DEF TypeOK, PlanFits, PlanInFlight, Queued, WritesProfileOf, AnswerDue
  <1>3. PlanInFlight'
    BY DEF TypeOK, PlanInFlight, Queued, WritesProfileOf, AnswerDue
  <1>4. SelectionAdmissible'
    BY DEF TypeOK, SelectionAdmissible, EligibleBy, BlockedBy, Sources, ControlRequests
  <1>5. OwedLocks'
    BY DEF TypeOK, OwedLocks, OwedQueued
  <1>6. OwedQueued'
    BY DEF TypeOK, OwedLocks, OwedQueued, Queued
  <1>7. ControlFollowed'
    BY DEF TypeOK, ControlFollowed, AnswerDue, Idle, Sources, ControlRequests
  <1> QED BY <1>1, <1>2, <1>3, <1>4, <1>5, <1>6, <1>7

\* A plan that is made is of the source frozen now.
LEMMA PlanIsMade ==
    ASSUME IndInv, NEW q \in planning, ProfilePlan(q)
    PROVE  IndInv'
  <1> USE NoneAssumption DEF IndInv, ProfilePlan, choice, batch, backend, history, vars
  <1>1. TypeOK'
    <2>1. q \in PlanRequests /\ control \in Devices
      BY DEF TypeOK
    <2>2. [q EXCEPT !.source = control] \in PlanRequests
      BY <2>1 DEF PlanRequests
    <2> QED BY <2>2 DEF TypeOK
  <1>2. PlanFits'
    BY DEF TypeOK, PlanFits, Queued, WritesProfileOf, AnswerDue
  <1>3. PlanInFlight'
    <2>1. q \in PlanRequests
      BY DEF TypeOK
    <2>2. /\ [q EXCEPT !.source = control].targets = q.targets
          /\ [q EXCEPT !.source = control].current = q.current
          /\ [q EXCEPT !.source = control].source = control
      BY <2>1 DEF PlanRequests
    <2>3. WritesProfileOf(control)'
      BY DEF WritesProfileOf
    <2>4. \A p \in Devices : WritesProfileOf(p) => WritesProfileOf(p)'
      BY DEF WritesProfileOf, AnswerDue
    <2>5. \A p \in planning : p.source # None => p.source \in Devices
      BY DEF TypeOK, PlanRequests
    <2> QED BY <2>2, <2>3, <2>4, <2>5 DEF PlanInFlight, Queued
  <1>4. SelectionAdmissible'
    BY DEF TypeOK, SelectionAdmissible, EligibleBy, BlockedBy, Sources, ControlRequests
  <1>5. OwedLocks'
    BY DEF TypeOK, OwedLocks, OwedQueued
  <1>6. OwedQueued'
    BY DEF TypeOK, OwedLocks, OwedQueued, Queued
  <1>7. ControlFollowed'
    BY DEF TypeOK, ControlFollowed, AnswerDue, Idle, Sources, ControlRequests
  <1> QED BY <1>1, <1>2, <1>3, <1>4, <1>5, <1>6, <1>7

LEMMA PlanIsAnswered ==
    ASSUME IndInv, NEW q \in planning, PlanAnswered(q)
    PROVE  IndInv'
  <1> USE NoneAssumption DEF IndInv, PlanAnswered, choice, batch, backend, history, vars
  <1>1. TypeOK'
    <2>1. q \in PlanRequests
      BY DEF TypeOK
    <2>2. [targets |-> q.targets, source |-> q.source] \in Plans
      BY <2>1 DEF PlanRequests, Plans
    <2> QED BY <2>2 DEF TypeOK
  <1>2. PlanFits'
    BY DEF TypeOK, PlanFits, PlanInFlight, Queued, WritesProfileOf, AnswerDue
  <1>3. PlanInFlight'
    BY DEF TypeOK, PlanInFlight, Queued, WritesProfileOf, AnswerDue
  <1>4. SelectionAdmissible'
    BY DEF TypeOK, SelectionAdmissible, EligibleBy, BlockedBy, Sources, ControlRequests
  <1>5. OwedLocks'
    BY DEF TypeOK, OwedLocks, OwedQueued
  <1>6. OwedQueued'
    BY DEF TypeOK, OwedLocks, OwedQueued, Queued
  <1>7. ControlFollowed'
    BY DEF TypeOK, ControlFollowed, AnswerDue, Idle, Sources, ControlRequests
  <1> QED BY <1>1, <1>2, <1>3, <1>4, <1>5, <1>6, <1>7

LEMMA PlanFails ==
    ASSUME IndInv, NEW q \in planning, PlanFailed(q)
    PROVE  IndInv'
  <1> USE NoneAssumption DEF IndInv, PlanFailed, choice, batch, backend, history, vars
  <1>1. TypeOK'
    BY DEF TypeOK
  <1>2. PlanFits'
    BY DEF TypeOK, PlanFits, PlanInFlight, Queued, WritesProfileOf, AnswerDue
  <1>3. PlanInFlight'
    BY DEF TypeOK, PlanInFlight, Queued, WritesProfileOf, AnswerDue
  <1>4. SelectionAdmissible'
    BY DEF TypeOK, SelectionAdmissible, EligibleBy, BlockedBy, Sources, ControlRequests
  <1>5. OwedLocks'
    BY DEF TypeOK, OwedLocks, OwedQueued
  <1>6. OwedQueued'
    BY DEF TypeOK, OwedLocks, OwedQueued, Queued
  <1>7. ControlFollowed'
    BY DEF TypeOK, ControlFollowed, AnswerDue, Idle, Sources, ControlRequests
  <1> QED BY <1>1, <1>2, <1>3, <1>4, <1>5, <1>6, <1>7

LEMMA Toggles ==
    ASSUME IndInv, NEW d \in Devices, SelectToggle(d)
    PROVE  IndInv'
  <1> USE NoneAssumption DEF IndInv, SelectToggle, Select, Shown, choice, batch, backend, history, vars
  <1>1. TypeOK'
    BY InvalidTyped DEF TypeOK, Sources, ScanRequests, ControlRequests, PushRequests, ActiveReceipts,
        Verifications, Queued
  <1>2. PlanFits'
    BY Invalidated DEF PlanFits
  <1>3. PlanInFlight'
    BY Invalidated DEF PlanInFlight
  <1>4. SelectionAdmissible'
    BY DEF TypeOK, SelectionAdmissible, EligibleBy, BlockedBy, Sources, ControlRequests
  <1>5. OwedLocks'
    BY DEF TypeOK, OwedLocks, OwedQueued
  <1>6. OwedQueued'
    BY DEF TypeOK, OwedLocks, OwedQueued, Queued
  <1>7. ControlFollowed'
    BY DEF TypeOK, ControlFollowed, AnswerDue, Idle, Sources, ControlRequests
  <1> QED BY <1>1, <1>2, <1>3, <1>4, <1>5, <1>6, <1>7

LEMMA SelectsAll ==
    ASSUME IndInv, SelectAll
    PROVE  IndInv'
  <1> USE NoneAssumption DEF IndInv, SelectAll, Select, Shown, choice, batch, backend, history, vars
  <1>1. TypeOK'
    <2>1. selected' \subseteq Devices
      BY EligibleNotBlocked DEF TypeOK
    <2> QED BY <2>1, InvalidTyped DEF TypeOK
  <1>2. PlanFits'
    BY Invalidated DEF PlanFits
  <1>3. PlanInFlight'
    BY Invalidated DEF PlanInFlight
  <1>4. SelectionAdmissible'
    <2>1. CASE source = None
      BY <2>1 DEF SelectionAdmissible
    <2>2. CASE source # None
      BY <2>2, EligibleNotBlocked DEF TypeOK, SelectionAdmissible, BlockedBy
    <2> QED BY <2>1, <2>2
  <1>5. OwedLocks'
    BY DEF TypeOK, OwedLocks, OwedQueued
  <1>6. OwedQueued'
    BY DEF TypeOK, OwedLocks, OwedQueued, Queued
  <1>7. ControlFollowed'
    BY DEF TypeOK, ControlFollowed, AnswerDue, Idle, Sources, ControlRequests
  <1> QED BY <1>1, <1>2, <1>3, <1>4, <1>5, <1>6, <1>7

LEMMA ClearsAll ==
    ASSUME IndInv, ClearAll
    PROVE  IndInv'
  <1> USE NoneAssumption DEF IndInv, ClearAll, Select, Shown, choice, batch, backend, history, vars
  <1>1. TypeOK'
    BY InvalidTyped DEF TypeOK, Sources, ScanRequests, ControlRequests, PushRequests, ActiveReceipts,
        Verifications, Queued
  <1>2. PlanFits'
    BY Invalidated DEF PlanFits
  <1>3. PlanInFlight'
    BY Invalidated DEF PlanInFlight
  <1>4. SelectionAdmissible'
    BY DEF TypeOK, SelectionAdmissible, EligibleBy, BlockedBy, Sources, ControlRequests
  <1>5. OwedLocks'
    BY DEF TypeOK, OwedLocks, OwedQueued
  <1>6. OwedQueued'
    BY DEF TypeOK, OwedLocks, OwedQueued, Queued
  <1>7. ControlFollowed'
    BY DEF TypeOK, ControlFollowed, AnswerDue, Idle, Sources, ControlRequests
  <1> QED BY <1>1, <1>2, <1>3, <1>4, <1>5, <1>6, <1>7

LEMMA ScansNetwork ==
    ASSUME IndInv, ScanNetwork
    PROVE  IndInv'
  <1> USE NoneAssumption DEF IndInv, ScanNetwork, NewBatch, Idle, choice, batch, backend, history, vars
  <1>1. TypeOK'
    BY InvalidTyped DEF TypeOK, Sources, ScanRequests, ControlRequests, PushRequests, ActiveReceipts,
        Verifications, Queued
  <1>2. PlanFits'
    BY Invalidated DEF PlanFits
  <1>3. PlanInFlight'
    BY Invalidated DEF PlanInFlight
  <1>4. SelectionAdmissible'
    BY DEF TypeOK, SelectionAdmissible, EligibleBy, BlockedBy, Sources, ControlRequests
  <1>5. OwedLocks'
    BY DEF TypeOK, OwedLocks, OwedQueued
  <1>6. OwedQueued'
    BY DEF TypeOK, OwedLocks, OwedQueued, Queued
  <1>7. ControlFollowed'
    BY DEF TypeOK, ControlFollowed, AnswerDue, Idle, Sources, ControlRequests
  <1> QED BY <1>1, <1>2, <1>3, <1>4, <1>5, <1>6, <1>7

LEMMA SubmitsNoSubnet ==
    ASSUME IndInv, SubmitWithoutSubnet
    PROVE  IndInv'
  <1> USE NoneAssumption DEF IndInv, SubmitWithoutSubnet, choice, batch, backend, history, vars
  <1>1. TypeOK'
    BY DEF TypeOK
  <1>2. PlanFits'
    BY DEF TypeOK, PlanFits, PlanInFlight, Queued, WritesProfileOf, AnswerDue
  <1>3. PlanInFlight'
    BY DEF TypeOK, PlanInFlight, Queued, WritesProfileOf, AnswerDue
  <1>4. SelectionAdmissible'
    BY DEF TypeOK, SelectionAdmissible, EligibleBy, BlockedBy, Sources, ControlRequests
  <1>5. OwedLocks'
    BY DEF TypeOK, OwedLocks, OwedQueued
  <1>6. OwedQueued'
    BY DEF TypeOK, OwedLocks, OwedQueued, Queued
  <1>7. ControlFollowed'
    BY DEF TypeOK, ControlFollowed, AnswerDue, Idle, Sources, ControlRequests
  <1> QED BY <1>1, <1>2, <1>3, <1>4, <1>5, <1>6, <1>7

LEMMA ScansKnownIps ==
    ASSUME IndInv, ScanKnownIps
    PROVE  IndInv'
  <1> USE NoneAssumption DEF IndInv, ScanKnownIps, choice, batch, backend, history, vars
  <1>1. TypeOK'
    BY InvalidTyped DEF TypeOK, Sources, ScanRequests, ControlRequests, PushRequests, ActiveReceipts,
        Verifications, Queued
  <1>2. PlanFits'
    BY Invalidated DEF PlanFits
  <1>3. PlanInFlight'
    BY Invalidated DEF PlanInFlight
  <1>4. SelectionAdmissible'
    BY DEF TypeOK, SelectionAdmissible, EligibleBy, BlockedBy, Sources, ControlRequests
  <1>5. OwedLocks'
    BY DEF TypeOK, OwedLocks, OwedQueued
  <1>6. OwedQueued'
    BY DEF TypeOK, OwedLocks, OwedQueued, Queued
  <1>7. ControlFollowed'
    BY DEF TypeOK, ControlFollowed, AnswerDue, Idle, Sources, ControlRequests
  <1> QED BY <1>1, <1>2, <1>3, <1>4, <1>5, <1>6, <1>7

LEMMA StartsDiscovery ==
    ASSUME IndInv, DiscoverStart
    PROVE  IndInv'
  <1> USE NoneAssumption DEF IndInv, DiscoverStart, choice, batch, backend, history, vars
  <1>1. TypeOK'
    BY DEF TypeOK, Sources, ScanRequests, ControlRequests, PushRequests, ActiveReceipts,
        Verifications, Queued
  <1>2. PlanFits'
    BY DEF TypeOK, PlanFits, PlanInFlight, Queued, WritesProfileOf, AnswerDue
  <1>3. PlanInFlight'
    BY DEF TypeOK, PlanInFlight, Queued, WritesProfileOf, AnswerDue
  <1>4. SelectionAdmissible'
    BY DEF TypeOK, SelectionAdmissible, EligibleBy, BlockedBy, Sources, ControlRequests
  <1>5. OwedLocks'
    BY DEF TypeOK, OwedLocks, OwedQueued
  <1>6. OwedQueued'
    BY DEF TypeOK, OwedLocks, OwedQueued, Queued
  <1>7. ControlFollowed'
    BY DEF TypeOK, ControlFollowed, AnswerDue, Idle, Sources, ControlRequests
  <1> QED BY <1>1, <1>2, <1>3, <1>4, <1>5, <1>6, <1>7

LEMMA FinishesDiscovery ==
    ASSUME IndInv, DiscoverFinish
    PROVE  IndInv'
  <1> USE NoneAssumption DEF IndInv, DiscoverFinish, choice, batch, backend, history, vars
  <1>1. TypeOK'
    <2>1. loading' \in ScanRequests /\ known' \subseteq Devices
      BY ScanAssumption DEF TypeOK, ScanRequests
    <2> QED BY <2>1 DEF TypeOK
  <1>2. PlanFits'
    BY DEF TypeOK, PlanFits, PlanInFlight, Queued, WritesProfileOf, AnswerDue
  <1>3. PlanInFlight'
    BY DEF TypeOK, PlanInFlight, Queued, WritesProfileOf, AnswerDue
  <1>4. SelectionAdmissible'
    BY DEF TypeOK, SelectionAdmissible, EligibleBy, BlockedBy, Sources, ControlRequests
  <1>5. OwedLocks'
    BY DEF TypeOK, OwedLocks, OwedQueued
  <1>6. OwedQueued'
    BY DEF TypeOK, OwedLocks, OwedQueued, Queued
  <1>7. ControlFollowed'
    BY DEF TypeOK, ControlFollowed, AnswerDue, Idle, Sources, ControlRequests
  <1> QED BY <1>1, <1>2, <1>3, <1>4, <1>5, <1>6, <1>7

LEMMA SubnetIsAnswered ==
    ASSUME IndInv, SubnetAnswered
    PROVE  IndInv'
  <1> USE NoneAssumption DEF IndInv, SubnetAnswered, choice, batch, backend, history, vars
  <1>1. TypeOK'
    BY DEF TypeOK, Sources, ScanRequests, ControlRequests, PushRequests, ActiveReceipts,
        Verifications, Queued
  <1>2. PlanFits'
    BY DEF ScanRequests, TypeOK, PlanFits, PlanInFlight, Queued, WritesProfileOf, AnswerDue
  <1>3. PlanInFlight'
    BY DEF ScanRequests, TypeOK, PlanInFlight, Queued, WritesProfileOf, AnswerDue
  <1>4. SelectionAdmissible'
    BY DEF TypeOK, SelectionAdmissible, EligibleBy, BlockedBy, Sources, ControlRequests
  <1>5. OwedLocks'
    BY DEF TypeOK, OwedLocks, OwedQueued
  <1>6. OwedQueued'
    BY DEF TypeOK, OwedLocks, OwedQueued, Queued
  <1>7. ControlFollowed'
    BY DEF TypeOK, ControlFollowed, AnswerDue, Idle, Sources, ControlRequests
  <1> QED BY <1>1, <1>2, <1>3, <1>4, <1>5, <1>6, <1>7

LEMMA KnownIpsAreAnswered ==
    ASSUME IndInv, KnownIpsAnswered
    PROVE  IndInv'
  <1> USE NoneAssumption DEF IndInv, KnownIpsAnswered, NewBatch, Idle, choice, batch, backend, history, vars
  <1>1. TypeOK'
    BY DEF TypeOK, Sources, ScanRequests, ControlRequests, PushRequests, ActiveReceipts,
        Verifications, Queued
  <1>a. loading # None /\ plan = None /\ \A q \in planning : ~q.current
    BY DEF TypeOK, ScanRequests, PlanInFlight
  <1>2. PlanFits'
    BY <1>a DEF PlanFits
  <1>3. PlanInFlight'
    BY <1>a DEF PlanInFlight
  <1>4. SelectionAdmissible'
    BY DEF TypeOK, SelectionAdmissible, EligibleBy, BlockedBy, Sources, ControlRequests
  <1>5. OwedLocks'
    BY DEF TypeOK, OwedLocks, OwedQueued
  <1>6. OwedQueued'
    BY DEF TypeOK, OwedLocks, OwedQueued, Queued
  <1>7. ControlFollowed'
    BY DEF TypeOK, ControlFollowed, AnswerDue, Idle, Sources, ControlRequests
  <1> QED BY <1>1, <1>2, <1>3, <1>4, <1>5, <1>6, <1>7

LEMMA ScanFails ==
    ASSUME IndInv, ScanFailed
    PROVE  IndInv'
  <1> USE NoneAssumption DEF IndInv, ScanFailed, choice, batch, backend, history, vars
  <1>1. TypeOK'
    BY DEF TypeOK, Sources, ScanRequests, ControlRequests, PushRequests, ActiveReceipts,
        Verifications, Queued
  <1>2. PlanFits'
    BY DEF TypeOK, PlanFits, PlanInFlight, Queued, WritesProfileOf, AnswerDue
  <1>3. PlanInFlight'
    BY DEF TypeOK, PlanInFlight, Queued, WritesProfileOf, AnswerDue
  <1>4. SelectionAdmissible'
    BY DEF TypeOK, SelectionAdmissible, EligibleBy, BlockedBy, Sources, ControlRequests
  <1>5. OwedLocks'
    BY DEF TypeOK, OwedLocks, OwedQueued
  <1>6. OwedQueued'
    BY DEF TypeOK, OwedLocks, OwedQueued, Queued
  <1>7. ControlFollowed'
    BY DEF TypeOK, ControlFollowed, AnswerDue, Idle, Sources, ControlRequests
  <1> QED BY <1>1, <1>2, <1>3, <1>4, <1>5, <1>6, <1>7

LEMMA ConfirmsControl ==
    ASSUME IndInv, NEW c \in Controls, NEW d \in Devices, ConfirmControl(c, d)
    PROVE  IndInv'
  <1> USE NoneAssumption DEF IndInv, ConfirmControl, Idle, choice, batch, backend, history, vars
  <1>1. TypeOK'
    <2>1. [phase |-> "sent", ip |-> d, known |-> {}] \in ControlRequests
      BY DEF ControlRequests
    <2> QED BY <2>1 DEF TypeOK, ActiveReceipts
  <1>0. \A s \in Devices : WritesProfileOf(s) => WritesProfileOf(s)'
    BY DEF TypeOK, WritesProfileOf, AnswerDue
  <1>2. PlanFits'
    BY <1>0 DEF TypeOK, Plans, PlanFits, Queued
  <1>3. PlanInFlight'
    BY <1>0 DEF TypeOK, PlanRequests, PlanInFlight, Queued
  <1>4. SelectionAdmissible'
    BY DEF TypeOK, SelectionAdmissible, EligibleBy, BlockedBy, Sources, ControlRequests
  <1>5. OwedLocks'
    BY DEF TypeOK, OwedLocks, OwedQueued
  <1>6. OwedQueued'
    BY DEF TypeOK, OwedLocks, OwedQueued, Queued
  <1>7. ControlFollowed'
    BY DEF TypeOK, ControlFollowed, AnswerDue, Idle, Sources, ControlRequests
  <1> QED BY <1>1, <1>2, <1>3, <1>4, <1>5, <1>6, <1>7

\* What is frozen now is what the answer on its way will say.
LEMMA SetsControl ==
    ASSUME IndInv, NEW c \in Controls, SetControl(c)
    PROVE  IndInv'
  <1> USE NoneAssumption DEF IndInv, SetControl, choice, batch, backend, history, vars
  <1>a. setting[c] \in ControlRequests
    BY DEF TypeOK
  <1>b. setting' = [setting EXCEPT ![c] = [setting[c] EXCEPT !.phase = "frozen", !.known = known]]
    BY DEF TypeOK
  <1>c. [setting[c] EXCEPT !.phase = "frozen", !.known = known] \in ControlRequests
    BY <1>a DEF TypeOK, ControlRequests
  <1>d. /\ setting'[c] \in ControlRequests
        /\ setting'[c].phase = "frozen"
        /\ setting'[c].ip = setting[c].ip
        /\ \A e \in Controls : e # c => setting'[e] = setting[e]
    BY <1>a, <1>b, <1>c DEF TypeOK, ControlRequests
  <1>1. TypeOK'
    <2>1. control' \in Devices
      BY <1>a DEF ControlRequests
    <2> QED BY <1>b, <1>c, <2>1 DEF TypeOK
  <1>0. AnswerDue'
    BY <1>d DEF AnswerDue, ControlRequests
  <1>2. PlanFits'
    BY <1>0 DEF TypeOK, PlanFits, Queued, WritesProfileOf
  <1>3. PlanInFlight'
    BY <1>0 DEF TypeOK, PlanInFlight, Queued, WritesProfileOf
  <1>4. SelectionAdmissible'
    BY DEF TypeOK, SelectionAdmissible, EligibleBy, BlockedBy, Sources, ControlRequests
  <1>5. OwedLocks'
    BY DEF TypeOK, OwedLocks, OwedQueued
  <1>6. OwedQueued'
    BY DEF TypeOK, OwedLocks, OwedQueued, Queued
  <1>7. ControlFollowed'
    BY <1>0, <1>d DEF ControlFollowed, ControlRequests
  <1> QED BY <1>1, <1>2, <1>3, <1>4, <1>5, <1>6, <1>7

LEMMA ControlIsAnswered ==
    ASSUME IndInv, NEW c \in Controls, ControlAnswered(c)
    PROVE  IndInv'
  <1> USE NoneAssumption DEF IndInv, ControlAnswered, NewBatch, Idle, choice, batch, backend, history, vars
  <1>1. TypeOK'
    <2>1. source' \in Sources /\ selected' \subseteq Devices
      BY DEF TypeOK, Sources, ControlRequests
    <2>2. setting' \in [Controls -> {None} \cup ControlRequests]
      BY DEF TypeOK
    <2>3. required' \in BOOLEAN /\ owed' \subseteq Devices /\ mixed' \in BOOLEAN
      BY DEF TypeOK
    <2> QED BY <2>1, <2>2, <2>3, InvalidTyped DEF TypeOK
  <1>2. PlanFits'
    BY Invalidated DEF PlanFits
  <1>3. PlanInFlight'
    BY Invalidated DEF PlanInFlight
  <1>4. SelectionAdmissible'
    <2>1. source' \in Sources /\ source' = [ip |-> setting[c].ip, known |-> setting[c].known]
      BY DEF TypeOK, Sources, ControlRequests
    <2>2. EligibleBy(setting[c]) = EligibleBy(source')
      BY <2>1 DEF EligibleBy
    <2> QED BY <2>1, <2>2, EligibleNotBlocked DEF SelectionAdmissible, BlockedBy
  <1>5. OwedLocks'
    BY DEF TypeOK, OwedLocks, OwedQueued
  <1>6. OwedQueued'
    BY DEF TypeOK, OwedLocks, OwedQueued, Queued
  <1>7. ControlFollowed'
    BY DEF TypeOK, ControlFollowed, AnswerDue, Idle, Sources, ControlRequests
  <1> QED BY <1>1, <1>2, <1>3, <1>4, <1>5, <1>6, <1>7

\* With the answer the agreement is lost, or nothing had been frozen.
LEMMA ControlFails ==
    ASSUME IndInv, NEW c \in Controls, ControlFailed(c)
    PROVE  IndInv'
  <1> USE NoneAssumption DEF IndInv, ControlFailed, choice, batch, backend, history, vars
  <1>a. setting[c] \in ControlRequests
    BY DEF TypeOK
  <1>b. \/ setting' = [setting EXCEPT ![c] = None]
        \/ setting' = [setting EXCEPT ![c] = [setting[c] EXCEPT !.phase = "lost"]]
    BY DEF TypeOK
  <1>c. [setting[c] EXCEPT !.phase = "lost"] \in ControlRequests
    BY <1>a DEF ControlRequests
  <1>d. \A e \in Controls : e # c => setting'[e] = setting[e]
    BY <1>b DEF TypeOK
  <1>e. mixed' \/ (~mixed /\ setting[c].phase = "sent" /\ setting' = [setting EXCEPT ![c] = None])
    BY <1>a DEF ControlRequests
  <1>1. TypeOK'
    <2>1. setting' \in [Controls -> {None} \cup ControlRequests]
      BY <1>b, <1>c DEF TypeOK
    <2>2. mixed' \in BOOLEAN
      BY DEF TypeOK
    <2> QED BY <2>1, <2>2 DEF TypeOK
  <1>0. \A s \in Devices : WritesProfileOf(s) => WritesProfileOf(s)'
    <2>1. CASE mixed'
      BY <2>1 DEF WritesProfileOf
    <2>2. CASE ~mixed'
      <3>1. AnswerDue => AnswerDue'
        BY <1>d, <1>e, <2>2 DEF AnswerDue
      <3> QED BY <1>e, <2>2, <3>1 DEF WritesProfileOf
    <2> QED BY <2>1, <2>2
  <1>2. PlanFits'
    BY <1>0 DEF TypeOK, Plans, PlanFits, Queued
  <1>3. PlanInFlight'
    BY <1>0 DEF TypeOK, PlanRequests, PlanInFlight, Queued
  <1>4. SelectionAdmissible'
    BY DEF TypeOK, SelectionAdmissible, EligibleBy, BlockedBy, Sources, ControlRequests
  <1>5. OwedLocks'
    BY DEF TypeOK, OwedLocks, OwedQueued
  <1>6. OwedQueued'
    BY DEF TypeOK, OwedLocks, OwedQueued, Queued
  <1>7. ControlFollowed'
    <2>1. CASE mixed'
      BY <2>1 DEF ControlFollowed
    <2>2. CASE ~mixed'
      <3>1. /\ setting'[c] = None
            /\ AnswerDue => AnswerDue'
        BY <1>d, <1>e, <2>2 DEF AnswerDue, TypeOK
      <3> QED BY <1>d, <1>e, <2>2, <3>1 DEF ControlFollowed
    <2> QED BY <2>1, <2>2
  <1> QED BY <1>1, <1>2, <1>3, <1>4, <1>5, <1>6, <1>7

\* Only after a request was lost: nothing is claimed of the source then.
LEMMA SetsControlLate ==
    ASSUME IndInv, NEW c \in Controls, SetControlLate(c)
    PROVE  IndInv'
  <1> USE NoneAssumption DEF IndInv, SetControlLate, choice, batch, backend, history, vars
  <1>a. mixed'
    BY DEF ControlFollowed, TypeOK
  <1>1. TypeOK'
    <2>1. control' \in Devices
      BY DEF TypeOK, ControlRequests
    <2> QED BY <2>1 DEF TypeOK
  <1>2. PlanFits'
    BY <1>a DEF PlanFits, Queued, WritesProfileOf
  <1>3. PlanInFlight'
    BY <1>a DEF PlanInFlight, Queued, WritesProfileOf
  <1>4. SelectionAdmissible'
    BY DEF TypeOK, SelectionAdmissible, EligibleBy, BlockedBy, Sources, ControlRequests
  <1>5. OwedLocks'
    BY DEF TypeOK, OwedLocks, OwedQueued
  <1>6. OwedQueued'
    BY DEF TypeOK, OwedLocks, OwedQueued, Queued
  <1>7. ControlFollowed'
    BY <1>a DEF ControlFollowed
  <1> QED BY <1>1, <1>2, <1>3, <1>4, <1>5, <1>6, <1>7

LEMMA Pushes ==
    ASSUME IndInv, PushUpdates
    PROVE  IndInv'
  <1> USE NoneAssumption DEF IndInv, PushUpdates, Shown, choice, batch, backend, history, vars
  <1>1. TypeOK'
    <2>1. pushing' \in PushRequests
      BY DEF TypeOK, PushRequests, Sources, Queued
    <2> QED BY <2>1, InvalidTyped DEF TypeOK
  <1>2. PlanFits'
    BY Invalidated DEF PlanFits
  <1>3. PlanInFlight'
    BY Invalidated DEF PlanInFlight
  <1>4. SelectionAdmissible'
    BY DEF TypeOK, SelectionAdmissible, EligibleBy, BlockedBy, Sources, ControlRequests
  <1>5. OwedLocks'
    BY DEF TypeOK, OwedLocks, OwedQueued
  <1>6. OwedQueued'
    BY DEF TypeOK, OwedLocks, OwedQueued, Queued
  <1>7. ControlFollowed'
    BY DEF TypeOK, ControlFollowed, AnswerDue, Idle, Sources, ControlRequests
  <1> QED BY <1>1, <1>2, <1>3, <1>4, <1>5, <1>6, <1>7

LEMMA PushIsAccepted ==
    ASSUME IndInv, PushAccepted
    PROVE  IndInv'
  <1> USE NoneAssumption DEF IndInv, PushAccepted, choice, batch, backend, history, vars
  <1>1. TypeOK'
    BY DEF TypeOK, Sources, ScanRequests, ControlRequests, PushRequests, ActiveReceipts,
        Verifications, Queued
  <1>2. PlanFits'
    BY DEF TypeOK, PlanFits, PlanInFlight, Queued, WritesProfileOf, AnswerDue
  <1>3. PlanInFlight'
    BY DEF TypeOK, PlanInFlight, Queued, WritesProfileOf, AnswerDue
  <1>4. SelectionAdmissible'
    BY DEF TypeOK, SelectionAdmissible, EligibleBy, BlockedBy, Sources, ControlRequests
  <1>5. OwedLocks'
    BY DEF TypeOK, OwedLocks, OwedQueued
  <1>6. OwedQueued'
    BY DEF TypeOK, OwedLocks, OwedQueued, Queued
  <1>7. ControlFollowed'
    BY DEF TypeOK, ControlFollowed, AnswerDue, Idle, Sources, ControlRequests
  <1> QED BY <1>1, <1>2, <1>3, <1>4, <1>5, <1>6, <1>7

LEMMA PushIsAnswered ==
    ASSUME IndInv, PushAnswered
    PROVE  IndInv'
  <1> USE NoneAssumption DEF IndInv, PushAnswered, choice, batch, backend, history, vars
  <1>1. TypeOK'
    BY DEF TypeOK, Sources, ScanRequests, ControlRequests, PushRequests, ActiveReceipts,
        Verifications, Queued
  <1>2. PlanFits'
    BY DEF TypeOK, PlanFits, PlanInFlight, Queued, WritesProfileOf, AnswerDue
  <1>3. PlanInFlight'
    BY DEF TypeOK, PlanInFlight, Queued, WritesProfileOf, AnswerDue
  <1>4. SelectionAdmissible'
    BY DEF TypeOK, SelectionAdmissible, EligibleBy, BlockedBy, Sources, ControlRequests
  <1>5. OwedLocks'
    BY DEF TypeOK, OwedLocks, OwedQueued
  <1>6. OwedQueued'
    BY DEF TypeOK, OwedLocks, OwedQueued, Queued
  <1>7. ControlFollowed'
    BY DEF TypeOK, ControlFollowed, AnswerDue, Idle, Sources, ControlRequests
  <1> QED BY <1>1, <1>2, <1>3, <1>4, <1>5, <1>6, <1>7

LEMMA PushFails ==
    ASSUME IndInv, PushFailed
    PROVE  IndInv'
  <1> USE NoneAssumption DEF IndInv, PushFailed, choice, batch, backend, history, vars
  <1>1. TypeOK'
    BY DEF TypeOK, Sources, ScanRequests, ControlRequests, PushRequests, ActiveReceipts,
        Verifications, Queued
  <1>2. PlanFits'
    BY DEF TypeOK, PlanFits, PlanInFlight, Queued, WritesProfileOf, AnswerDue
  <1>3. PlanInFlight'
    BY DEF TypeOK, PlanInFlight, Queued, WritesProfileOf, AnswerDue
  <1>4. SelectionAdmissible'
    BY DEF TypeOK, SelectionAdmissible, EligibleBy, BlockedBy, Sources, ControlRequests
  <1>5. OwedLocks'
    BY DEF TypeOK, OwedLocks, OwedQueued
  <1>6. OwedQueued'
    BY DEF TypeOK, OwedLocks, OwedQueued, Queued
  <1>7. ControlFollowed'
    BY DEF TypeOK, ControlFollowed, AnswerDue, Idle, Sources, ControlRequests
  <1> QED BY <1>1, <1>2, <1>3, <1>4, <1>5, <1>6, <1>7

LEMMA Verifies ==
    ASSUME IndInv, VerifySelected
    PROVE  IndInv'
  <1> USE NoneAssumption DEF IndInv, VerifySelected, Shown, choice, batch, backend, history, vars
  <1>1. TypeOK'
    BY DEF TypeOK, Sources, ScanRequests, ControlRequests, PushRequests, ActiveReceipts,
        Verifications, Queued
  <1>2. PlanFits'
    BY DEF TypeOK, PlanFits, PlanInFlight, Queued, WritesProfileOf, AnswerDue
  <1>3. PlanInFlight'
    BY DEF TypeOK, PlanInFlight, Queued, WritesProfileOf, AnswerDue
  <1>4. SelectionAdmissible'
    BY DEF TypeOK, SelectionAdmissible, EligibleBy, BlockedBy, Sources, ControlRequests
  <1>5. OwedLocks'
    BY DEF TypeOK, OwedLocks, OwedQueued
  <1>6. OwedQueued'
    BY DEF TypeOK, OwedLocks, OwedQueued, Queued
  <1>7. ControlFollowed'
    BY DEF TypeOK, ControlFollowed, AnswerDue, Idle, Sources, ControlRequests
  <1> QED BY <1>1, <1>2, <1>3, <1>4, <1>5, <1>6, <1>7

LEMMA Matches ==
    ASSUME IndInv, NEW d \in Devices, TargetMatches(d)
    PROVE  IndInv'
  <1> USE NoneAssumption DEF IndInv, TargetMatches, Recorded, WithVerdict, choice, batch, backend, history, vars
  <1>1. TypeOK'
    BY DEF TypeOK, Sources, ScanRequests, ControlRequests, PushRequests, ActiveReceipts,
        Verifications, Queued
  <1>2. PlanFits'
    BY DEF TypeOK, PlanFits, PlanInFlight, Queued, WritesProfileOf, AnswerDue
  <1>3. PlanInFlight'
    BY DEF TypeOK, PlanInFlight, Queued, WritesProfileOf, AnswerDue
  <1>4. SelectionAdmissible'
    BY DEF TypeOK, SelectionAdmissible, EligibleBy, BlockedBy, Sources, ControlRequests
  <1>5. OwedLocks'
    BY DEF TypeOK, OwedLocks, OwedQueued
  <1>6. OwedQueued'
    BY DEF TypeOK, OwedLocks, OwedQueued, Queued
  <1>7. ControlFollowed'
    BY DEF TypeOK, ControlFollowed, AnswerDue, Idle, Sources, ControlRequests
  <1> QED BY <1>1, <1>2, <1>3, <1>4, <1>5, <1>6, <1>7

LEMMA Fails ==
    ASSUME IndInv, NEW d \in Devices, TargetFails(d)
    PROVE  IndInv'
  <1> USE NoneAssumption DEF IndInv, TargetFails, Recorded, WithVerdict, choice, batch, backend, history, vars
  <1>1. TypeOK'
    BY DEF TypeOK, Sources, ScanRequests, ControlRequests, PushRequests, ActiveReceipts,
        Verifications, Queued
  <1>2. PlanFits'
    BY DEF TypeOK, PlanFits, PlanInFlight, Queued, WritesProfileOf, AnswerDue
  <1>3. PlanInFlight'
    BY DEF TypeOK, PlanInFlight, Queued, WritesProfileOf, AnswerDue
  <1>4. SelectionAdmissible'
    BY DEF TypeOK, SelectionAdmissible, EligibleBy, BlockedBy, Sources, ControlRequests
  <1>5. OwedLocks'
    BY DEF TypeOK, OwedLocks, OwedQueued
  <1>6. OwedQueued'
    BY DEF TypeOK, OwedLocks, OwedQueued, Queued
  <1>7. ControlFollowed'
    BY DEF TypeOK, ControlFollowed, AnswerDue, Idle, Sources, ControlRequests
  <1> QED BY <1>1, <1>2, <1>3, <1>4, <1>5, <1>6, <1>7

LEMMA Unlocks ==
    ASSUME IndInv, AllVerified
    PROVE  IndInv'
  <1> USE NoneAssumption DEF IndInv, AllVerified, choice, batch, backend, history, vars
  <1>1. TypeOK'
    BY DEF TypeOK, Sources, ScanRequests, ControlRequests, PushRequests, ActiveReceipts,
        Verifications, Queued
  <1>2. PlanFits'
    BY DEF TypeOK, PlanFits, PlanInFlight, Queued, WritesProfileOf, AnswerDue
  <1>3. PlanInFlight'
    BY DEF TypeOK, PlanInFlight, Queued, WritesProfileOf, AnswerDue
  <1>4. SelectionAdmissible'
    BY DEF TypeOK, SelectionAdmissible, EligibleBy, BlockedBy, Sources, ControlRequests
  <1>5. OwedLocks'
    BY DEF TypeOK, OwedLocks, OwedQueued
  <1>6. OwedQueued'
    BY DEF TypeOK, OwedLocks, OwedQueued, Queued
  <1>7. ControlFollowed'
    BY DEF TypeOK, ControlFollowed, AnswerDue, Idle, Sources, ControlRequests
  <1> QED BY <1>1, <1>2, <1>3, <1>4, <1>5, <1>6, <1>7

LEMMA Stutters ==
    ASSUME IndInv, UNCHANGED vars
    PROVE  IndInv'
  <1> USE NoneAssumption DEF IndInv, choice, batch, backend, history, vars
  <1>1. TypeOK'
    BY DEF TypeOK, Sources, ScanRequests, ControlRequests, PushRequests, ActiveReceipts,
        Verifications, Queued
  <1>2. PlanFits'
    BY DEF TypeOK, PlanFits, PlanInFlight, Queued, WritesProfileOf, AnswerDue
  <1>3. PlanInFlight'
    BY DEF TypeOK, PlanInFlight, Queued, WritesProfileOf, AnswerDue
  <1>4. SelectionAdmissible'
    BY DEF TypeOK, SelectionAdmissible, EligibleBy, BlockedBy, Sources, ControlRequests
  <1>5. OwedLocks'
    BY DEF TypeOK, OwedLocks, OwedQueued
  <1>6. OwedQueued'
    BY DEF TypeOK, OwedLocks, OwedQueued, Queued
  <1>7. ControlFollowed'
    BY DEF TypeOK, ControlFollowed, AnswerDue, Idle, Sources, ControlRequests
  <1> QED BY <1>1, <1>2, <1>3, <1>4, <1>5, <1>6, <1>7

LEMMA NextIndInv == IndInv /\ [Next]_vars => IndInv'
  <1> SUFFICES ASSUME IndInv, [Next]_vars PROVE IndInv'
    OBVIOUS
  <1>1. CASE PageStep
    BY <1>1, GeneratesPlan, PlanIsMade, PlanIsAnswered, PlanFails, Toggles, SelectsAll, ClearsAll DEF PageStep
  <1>2. CASE ScanStep
    BY <1>2, ScansNetwork, SubmitsNoSubnet, ScansKnownIps, StartsDiscovery,
       FinishesDiscovery, SubnetIsAnswered, KnownIpsAreAnswered, ScanFails DEF ScanStep
  <1>3. CASE \E c \in Controls : ControlStep(c)
    BY <1>3, ConfirmsControl, SetsControl, ControlIsAnswered, ControlFails, SetsControlLate
       DEF ControlStep
  <1>4. CASE PushUpdates \/ PushStep
    BY <1>4, Pushes, PushIsAccepted, PushIsAnswered, PushFails DEF PushStep
  <1>5. CASE VerifySelected \/ VerifyStep
    BY <1>5, Verifies, Matches, Fails, Unlocks DEF VerifyStep
  <1>6. CASE UNCHANGED vars
    BY <1>6, Stutters
  <1> QED BY <1>1, <1>2, <1>3, <1>4, <1>5, <1>6 DEF Next

--------------------------------------------------------------------------------
(* Theorems                                                                    *)

LEMMA Inductive == Spec => []IndInv
  BY InitIndInv, NextIndInv, PTL DEF Spec

\* Every variable keeps its type, and writes and read-backs exclude each other.
THEOREM TypeCorrect == Spec => []TypeOK
  BY Inductive, PTL DEF IndInv

\* The plan shown is for the targets the write button would write, and of the source
\* whose profile they would get unless a set-control's answer is out, lost or crossed.
THEOREM PlanShownFits == Spec => []PlanFits
  BY Inductive, PTL DEF IndInv

\* The source and the targets blocked for it are never selected.
THEOREM BlockedNeverSelected == Spec => []SelectionAdmissible
  BY Inductive, PTL DEF IndInv

\* Unless an answer was lost or two crossed, the backend has frozen the source the
\* page names, or none: also with any number of set-control requests.
THEOREM SourceFollowed == Spec => []SourceAgrees
  <1>1. IndInv => SourceAgrees
    BY DEF IndInv, ControlFollowed, AnswerDue, SourceAgrees, Idle
  <1> QED BY <1>1, Inductive, PTL

\* What was written and is still selected keeps the next write locked until it has
\* been read back.
THEOREM WrittenLocksNext == Spec => []OwedLocks
  BY Inductive, PTL DEF IndInv
================================================================================
