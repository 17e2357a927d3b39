---------------------------- MODULE ProfileRunProofs ---------------------------
(***************************************************************************)
(* Theorems about ProfileRun, for any number of devices, pushes, scans and *)
(* verifications, any settings and any merge of them: its type invariant,  *)
(* that at most one batch imports at a time, that a receipt never          *)
(* understates the risk (unless a device answers with malformed JSON),     *)
(* that what it calls verified has been read back, that the receipt store  *)
(* is called within its contract (it implements ReceiptLedger), and that   *)
(* verifications that come one at a time are final.                        *)
(***************************************************************************)
EXTENDS ProfileRun, ReceiptDataProofs, TLAPS

USE DEF Pushes, Devices

LedgerType == ledger \in [Ids -> Receipt \cup {None}]

--------------------------------------------------------------------------------
(* Lemmas about merged settings                                                *)

\* The profile written to a target takes the source's portable settings, keeps
\* what is local to the target, and its keys are the target's when the two are
\* compatible.
LEMMA MergeKeepsLocal ==
    ASSUME NEW s, NEW t, Compatible(s, t)
    PROVE  /\ DOMAIN BulkUpdateSettings(s, t) = DOMAIN t
           /\ \A k \in Portable(s) : BulkUpdateSettings(s, t)[k] = s[k]
           /\ LocalPart(BulkUpdateSettings(s, t)) = LocalPart(t)
  <1> DEFINE m == BulkUpdateSettings(s, t)
  <1>1. DOMAIN m = DOMAIN t
    BY DEF Compatible, BulkUpdateSettings
  <1>2. \A k \in Portable(s) : m[k] = s[k]
    BY DEF BulkUpdateSettings
  <1>3. \A k \in DOMAIN t \cap TargetLocalKeys : m[k] = t[k]
    BY DEF BulkUpdateSettings, Portable
  <1>4. LocalPart(m) = LocalPart(t)
    <2> HIDE DEF m
    <2> QED BY <1>1, <1>3 DEF LocalPart
  <1> QED BY <1>1, <1>2, <1>4

\* Merging twice is merging once: a repeated push writes the same settings.
LEMMA MergeIdempotent ==
    ASSUME NEW s, NEW t, Compatible(s, t)
    PROVE  BulkUpdateSettings(s, BulkUpdateSettings(s, t)) = BulkUpdateSettings(s, t)
  BY DEF Compatible, BulkUpdateSettings

\* Settings are compatible with themselves.
LEMMA SelfMerge ==
    ASSUME NEW s \in Settings
    PROVE  Compatible(s, s) /\ BulkUpdateSettings(s, s) \in Settings
  <1>1. Compatible(s, s)
    BY DEF Compatible, Portable
  <1> QED BY <1>1, SettingsAssumption

--------------------------------------------------------------------------------
(* What the ledger's operations do                                             *)

\* A summary that is there is a receipt.
LEMMA LedgerReceipt ==
    ASSUME LedgerType, NEW p \in Ids, ledger[p] # None
    PROVE  ledger[p] \in Receipt /\ DOMAIN ledger[p].target \subseteq Targets
  <1>1. ledger[p] \in Receipt
    BY DEF LedgerType
  <1> QED BY <1>1, ReceiptParts

LEMMA IntendEffect ==
    ASSUME LedgerType, NEW p \in Ids, NEW T \in SUBSET Targets, Ledger!Intend(p, T)
    PROVE  /\ ledger[p] = None
           /\ ledger' = [ledger EXCEPT ![p] = IntentReceipt(T)]
           /\ LedgerType'
           /\ ledger'[p] # None
           /\ ledger'[p].run_state = "intent-recorded"
           /\ DOMAIN ledger'[p].target = T
           /\ \A d \in T : ledger'[p].target[d] = "intent"
  <1>1. ledger[p] = None /\ ledger' = [ledger EXCEPT ![p] = IntentReceipt(T)]
    BY DEF Ledger!Intend, Ledger!IntentReceipt, IntentReceipt
  <1>2. IntentReceipt(T) \in Receipt
    BY IntentReceiptType
  <1>3. LedgerType' /\ ledger'[p] = IntentReceipt(T)
    BY <1>1, <1>2 DEF LedgerType
  <1>4. IntentReceipt(T) # None
    BY <1>2, NoneAssumption
  <1> QED BY <1>1, <1>3, <1>4 DEF IntentReceipt

LEMMA FinishEffect ==
    ASSUME LedgerType, NEW p \in Ids, NEW f \in [DOMAIN ledger[p].target -> MutationStates],
           Ledger!Finish(p, f)
    PROVE  /\ ledger[p] # None
           /\ ledger' = [ledger EXCEPT ![p] = WithOutcomes(f)]
           /\ LedgerType'
           /\ ledger'[p] # None
           /\ ledger'[p].target = f
  <1>1. ledger[p] # None /\ ledger' = [ledger EXCEPT ![p] = WithOutcomes(f)]
    BY DEF Ledger!Finish, Ledger!WithOutcomes, WithOutcomes
  <1>2. WithOutcomes(f) \in Receipt
    BY <1>1, LedgerReceipt, WithOutcomesType
  <1>3. LedgerType' /\ ledger'[p] = WithOutcomes(f)
    BY <1>1, <1>2 DEF LedgerType
  <1> QED BY <1>1, <1>2, <1>3, NoneAssumption DEF WithOutcomes

LEMMA VerifyEffect ==
    ASSUME LedgerType, NEW p \in Ids, NEW t \in Targets, NEW v \in VerificationStates,
           Ledger!Verify(p, t, v)
    PROVE  /\ ledger[p] # None
           /\ t \in DOMAIN ledger[p].target
           /\ ledger[p].target[t] \in Updated
           /\ ledger' = [ledger EXCEPT ![p] = WithVerification(ledger[p], t, v)]
           /\ LedgerType'
           /\ ledger'[p] # None
           /\ ledger'[p].target = [ledger[p].target EXCEPT ![t] = v]
           /\ DOMAIN ledger'[p].target = DOMAIN ledger[p].target
  <1>1. /\ ledger[p] # None
        /\ t \in DOMAIN ledger[p].target
        /\ ledger[p].target[t] \in Updated
        /\ ledger' = [ledger EXCEPT ![p] = WithVerification(ledger[p], t, v)]
    BY DEF Ledger!Verify, Ledger!WithVerification, WithVerification,
           Ledger!Updated, Updated, Ledger!VerificationStates, VerificationStates
  <1>2. WithVerification(ledger[p], t, v) \in Receipt
    BY <1>1, LedgerReceipt, WithVerificationType
  <1>3. LedgerType' /\ ledger'[p] = WithVerification(ledger[p], t, v)
    BY <1>1, <1>2 DEF LedgerType
  <1>4. ledger[p].target \in [DOMAIN ledger[p].target -> TargetStates]
    BY <1>1, LedgerReceipt, ReceiptParts
  <1> QED BY <1>1, <1>2, <1>3, <1>4, NoneAssumption DEF WithVerification

--------------------------------------------------------------------------------
(* Frames: what a step must leave alone for a run or a verification to stay OK *)

LEMMA RunFrame ==
    ASSUME NEW p \in Pushes, RunOK(p),
           push'[p] = push[p], ledger'[p] = ledger[p], expected'[p] = expected[p],
           \A d \in Devices : <<p, d>> \in reached' <=> <<p, d>> \in reached,
           observed \subseteq observed',
           push[p].pc = "importing" => lock' = lock,
           DOMAIN ledger[p].target \subseteq Devices \/ ledger[p] = None
    PROVE  RunOK(p)'
  BY DEF RunOK

\* A summary that changes keeps the confirmed imports a verification relies on.
LEMMA VerificationFrame ==
    ASSUME NEW v \in Verifiers, VerificationOK(v), verify'[v] = verify[v],
           observed \subseteq observed',
           verify[v] # None =>
              /\ ledger'[verify[v].push] # None
              /\ expected'[verify[v].push] = expected[verify[v].push]
              /\ DOMAIN ledger'[verify[v].push].target = DOMAIN ledger[verify[v].push].target
              /\ \A d \in DOMAIN ledger[verify[v].push].target :
                    ledger[verify[v].push].target[d] \in Updated =>
                        ledger'[verify[v].push].target[d] \in Updated
    PROVE  VerificationOK(v)'
  BY DEF VerificationOK

\* A step that touches no run and no receipt.
LEMMA QuietStep ==
    ASSUME IndInv, TypeOK',
           UNCHANGED <<push, lock, ledger, expected, verify, reached, observed>>
    PROVE  IndInv'
  <1>1. ASSUME NEW p \in Pushes PROVE RunOK(p)'
    BY <1>1 DEF IndInv, RunOK
  <1>2. ASSUME NEW v \in Verifiers PROVE VerificationOK(v)'
    BY <1>2 DEF IndInv, VerificationOK
  <1> QED BY <1>1, <1>2 DEF IndInv

--------------------------------------------------------------------------------
(* Type correctness of a step                                                  *)

USE DEF vars, backend, durable, world

LEMMA LedgerTyped == TypeOK => LedgerType
  BY DEF TypeOK, LedgerType

LEMMA TypeDevices ==
    ASSUME IndInv,
           \/ \E p \in Pushes, d \in Devices : DeviceApplies(p, d)
           \/ \E d \in Devices : ChangeLocally(d)
    PROVE  TypeOK'
  <1>1. ASSUME NEW p \in Pushes, NEW d \in Devices, DeviceApplies(p, d) PROVE TypeOK'
    <2>1. expected[p][d] \in Settings
      <3>1. <<p, d>> \in reached
        BY <1>1 DEF IndInv, TypeOK, DeviceApplies
      <3> QED BY <3>1 DEF IndInv, RunOK
    <2> QED BY <1>1, <2>1 DEF IndInv, TypeOK, DeviceApplies
  <1>2. ASSUME NEW d \in Devices, ChangeLocally(d) PROVE TypeOK'
    <2>1. LocallyChanged[device[d]] \in Settings
      BY SettingsAssumption DEF IndInv, TypeOK
    <2> QED BY <1>2, <2>1, BoundAssumption DEF IndInv, TypeOK, ChangeLocally
  <1> QED BY <1>1, <1>2

LEMMA TypeScans ==
    ASSUME IndInv,
           \/ \E s \in Scans : ScanNext(s)
           \/ \E d \in Devices : SetControl(d)
    PROVE  TypeOK'
  <1>1. ASSUME NEW s \in Scans, DiscoverStart(s) PROVE TypeOK'
    <2>1. [d \in Devices |-> None] \in [Devices -> ScanResult \cup {None}]
      OBVIOUS
    <2> QED BY <1>1, <2>1 DEF IndInv, TypeOK, DiscoverStart
  <1>2. ASSUME NEW s \in Scans, NEW d \in Devices, DiscoverRead(s, d) PROVE TypeOK'
    <2>1. PICK result \in ScanResult : scan' = [scan EXCEPT ![s][d] = result]
      BY <1>2 DEF DiscoverRead, IndInv, TypeOK, ScanResult
    <2>2. scan[s] \in [Devices -> ScanResult \cup {None}]
      BY <1>2 DEF DiscoverRead, IndInv, TypeOK
    <2>3. scan' \in [Scans -> [Devices -> ScanResult \cup {None}] \cup {None}]
      <3>1. [scan[s] EXCEPT ![d] = result] \in [Devices -> ScanResult \cup {None}]
        BY <2>2
      <3>2. scan' = [scan EXCEPT ![s] = [scan[s] EXCEPT ![d] = result]]
        BY <2>1
      <3> QED BY <3>1, <3>2 DEF IndInv, TypeOK
    <2> QED BY <1>2, <2>3 DEF IndInv, TypeOK, DiscoverRead
  <1>3. ASSUME NEW s \in Scans, DiscoverFinish(s) PROVE TypeOK'
    <2>1. scan[s] \in [Devices -> ScanResult]
      BY <1>3 DEF DiscoverFinish, IndInv, TypeOK
    <2> QED BY <1>3, <2>1 DEF IndInv, TypeOK, DiscoverFinish
  <1>4. ASSUME NEW d \in Devices, SetControl(d) PROVE TypeOK'
    <2>1. BulkUpdateSettings(inventory[d], inventory[d]) \in Settings
      BY <1>4, SelfMerge DEF SetControl, Read
    <2>2. control' \in Control
      BY <1>4, <2>1 DEF SetControl, Control
    <2> QED BY <1>4, <2>2 DEF IndInv, TypeOK, SetControl
  <1> QED BY <1>1, <1>2, <1>3, <1>4 DEF ScanNext

--------------------------------------------------------------------------------
(* A push starts                                                               *)

\* The settings a push is about to write are settings.
LEMMA PayloadsType ==
    ASSUME TypeOK, NEW p \in Pushes, NEW T \in SUBSET Devices, PushAllowed(p, T)
    PROVE  /\ Payloads(T) \in [Devices -> Settings \cup {None}]
           /\ \A d \in T : Payloads(T)[d] \in Settings
           /\ lock = None /\ push[p].pc = "new"
  <1>1. control \in Control
    BY DEF TypeOK, PushAllowed
  <1>2. ASSUME NEW d \in T PROVE BulkUpdateSettings(control.settings, inventory[d]) \in Settings
    <2>1. control.settings \in Settings /\ inventory[d] \in Settings
      BY <1>1, <1>2 DEF Control, PushAllowed, Read
    <2>2. Compatible(control.settings, inventory[d])
      BY <1>2 DEF PushAllowed
    <2> QED BY <2>1, <2>2, SettingsAssumption
  <1>3. Payloads(T) \in [Devices -> Settings \cup {None}]
    BY <1>2 DEF Payloads
  <1>4. \A d \in T : Payloads(T)[d] \in Settings
    BY <1>2 DEF Payloads
  <1> QED BY <1>3, <1>4 DEF PushAllowed

\* The step that records the intent and takes the lock, and the one that fails
\* right after the intent: p is the push, T its targets.
LEMMA PushStarts ==
    ASSUME IndInv, NEW p \in Pushes, NEW T \in SUBSET Devices,
           PushUpdates(p, T) \/ PushIntentFails(p, T)
    PROVE  IndInv'
  <1>1. /\ PushAllowed(p, T) /\ Ledger!Intend(p, T)
        /\ expected' = [expected EXCEPT ![p] = Payloads(T)]
        /\ UNCHANGED <<device, pending, inventory, control, scan, verify, reached, changes,
                       observed, crashes>>
    BY DEF PushUpdates, PushIntentFails
  <1>2. TypeOK /\ LedgerType
    BY LedgerTyped DEF IndInv
  <1>3. /\ Payloads(T) \in [Devices -> Settings \cup {None}]
        /\ \A d \in T : Payloads(T)[d] \in Settings
        /\ lock = None /\ push[p].pc = "new"
    BY <1>1, <1>2, PayloadsType
  <1>4. /\ ledger[p] = None
        /\ ledger' = [ledger EXCEPT ![p] = IntentReceipt(T)]
        /\ LedgerType'
        /\ ledger'[p] # None
        /\ ledger'[p].run_state = "intent-recorded"
        /\ DOMAIN ledger'[p].target = T
        /\ \A d \in T : ledger'[p].target[d] = "intent"
    BY <1>1, <1>2, IntendEffect
  <1>5. push[p].import = NotAsked /\ \A d \in Devices : <<p, d>> \notin reached
    BY <1>3 DEF IndInv, RunOK, NotAsked
  <1>6. ASSUME NEW q \in Pushes, q # p
        PROVE  push'[q] = push[q] /\ push[q].pc # "importing" /\ ledger'[q] = ledger[q]
               /\ expected'[q] = expected[q]
    <2>1. push'[q] = push[q]
      BY <1>2, <1>6 DEF PushUpdates, PushIntentFails, TypeOK
    <2>2. push[q].pc # "importing"
      BY <1>3, NoneAssumption DEF IndInv, RunOK
    <2> QED BY <1>1, <1>2, <1>4, <1>6, <2>1, <2>2 DEF TypeOK, LedgerType
  <1>7. expected'[p] = Payloads(T)
    BY <1>1, <1>2 DEF TypeOK
  <1>8. \/ /\ push'[p] = [pc |-> "importing",
                          import |-> [d \in Devices |-> IF d \in T THEN "due" ELSE "no-target"]]
           /\ lock' = p
        \/ push'[p] = [pc |-> "ended", import |-> NotAsked] /\ lock' = lock
    <2>1. CASE PushUpdates(p, T)
      BY <1>2, <2>1 DEF PushUpdates, TypeOK
    <2>2. CASE PushIntentFails(p, T)
      <3>1. push[p] = [pc |-> push[p].pc, import |-> NotAsked]
        BY <1>2, <1>5 DEF TypeOK, PushState
      <3> QED BY <1>2, <2>2, <3>1 DEF PushIntentFails, TypeOK
    <2> QED BY <2>1, <2>2
  <1>9. TypeOK'
    <2>1. push' \in [Pushes -> PushState]
      <3>1. push'[p] \in PushState
        BY <1>8 DEF PushState, ImportStates, NotAsked
      <3>2. DOMAIN push' = Pushes
        BY <1>2 DEF PushUpdates, PushIntentFails, TypeOK
      <3>3. push' = [q \in Pushes |-> push'[q]]
        BY <1>2 DEF PushUpdates, PushIntentFails, TypeOK
      <3> QED BY <1>2, <1>6, <3>1, <3>3 DEF TypeOK
    <2>2. expected' \in [Pushes -> [Devices -> Settings \cup {None}] \cup {None}]
      BY <1>1, <1>2, <1>3 DEF TypeOK
    <2>3. lock' \in Pushes \cup {None}
      BY <1>2, <1>8 DEF TypeOK
    <2> QED BY <1>1, <1>2, <1>4, <2>1, <2>2, <2>3 DEF TypeOK, LedgerType
  <1>10. RunOK(p)'
    BY <1>1, <1>3, <1>4, <1>5, <1>7, <1>8 DEF RunOK, NotAsked, Updated, VerificationStates
  <1>11. ASSUME NEW q \in Pushes, q # p PROVE RunOK(q)'
    <2>1. RunOK(q)
      BY DEF IndInv
    <2>2. DOMAIN ledger[q].target \subseteq Devices \/ ledger[q] = None
      BY <1>2, LedgerReceipt
    <2> QED BY <1>1, <1>6, <1>11, <2>1, <2>2, RunFrame
  <1>12. ASSUME NEW v \in Verifiers PROVE VerificationOK(v)'
    <2>1. VerificationOK(v)
      BY DEF IndInv
    <2>2. verify[v] # None => verify[v].push \in Pushes /\ verify[v].push # p
      BY <1>2, <1>4, <2>1 DEF TypeOK, Verification, VerificationOK
    <2> QED BY <1>1, <1>6, <2>1, <2>2, VerificationFrame DEF VerificationOK
  <1> QED BY <1>9, <1>10, <1>11, <1>12 DEF IndInv

--------------------------------------------------------------------------------
(* A push imports and ends                                                     *)

\* The shape of a push when one import changes: everything else stays.
LEMMA ImportStep ==
    ASSUME TypeOK, NEW p \in Pushes, NEW d \in Devices, NEW x \in ImportStates,
           push' = [push EXCEPT ![p].import[d] = x]
    PROVE  /\ push' \in [Pushes -> PushState]
           /\ push'[p].pc = push[p].pc
           /\ push'[p].import[d] = x
           /\ \A e \in Devices : e # d => push'[p].import[e] = push[p].import[e]
           /\ \A q \in Pushes : q # p => push'[q] = push[q]
  <1>1. push[p] \in PushState
    BY DEF TypeOK
  <1>2. push[p].import \in [Devices -> ImportStates] /\ push[p].pc \in {"new", "importing", "ended"}
    BY <1>1 DEF PushState
  <1>3. push' = [push EXCEPT ![p] = [push[p] EXCEPT !.import = [push[p].import EXCEPT ![d] = x]]]
    OBVIOUS
  <1>4. push'[p] = [push[p] EXCEPT !.import = [push[p].import EXCEPT ![d] = x]]
    BY <1>3 DEF TypeOK
  <1>5. push'[p].import = [push[p].import EXCEPT ![d] = x] /\ push'[p].pc = push[p].pc
    BY <1>1, <1>4 DEF PushState
  <1>6. push'[p] \in PushState
    BY <1>1, <1>2, <1>4 DEF PushState
  <1> QED BY <1>2, <1>3, <1>5, <1>6 DEF TypeOK

LEMMA SendImportStep ==
    ASSUME IndInv, NEW p \in Pushes, NEW d \in Devices, SendImport(p, d)
    PROVE  IndInv'
  <1>1. TypeOK /\ LedgerType /\ RunOK(p)
    BY LedgerTyped DEF IndInv
  <1>2. PICK x \in {"reached", "missed"} :
           /\ push' = [push EXCEPT ![p].import[d] = x]
           /\ x = "reached" => /\ pending' = pending \cup {<<p, d>>}
                               /\ reached' = reached \cup {<<p, d>>}
           /\ x = "missed" => UNCHANGED <<pending, reached>>
    BY DEF SendImport
  <1>3. x \in ImportStates
    BY DEF ImportStates
  <1>4. /\ push' \in [Pushes -> PushState]
        /\ push'[p].pc = push[p].pc
        /\ push'[p].import[d] = x
        /\ \A e \in Devices : e # d => push'[p].import[e] = push[p].import[e]
        /\ \A q \in Pushes : q # p => push'[q] = push[q]
    BY <1>1, <1>2, <1>3, ImportStep
  <1>5. /\ push[p].pc = "importing" /\ push[p].import[d] = "due"
        /\ UNCHANGED <<inventory, control, scan, lock, verify, ledger, expected, device,
                       changes, observed, crashes>>
    BY DEF SendImport
  <1>6. TypeOK'
    BY <1>1, <1>2, <1>4, <1>5 DEF TypeOK
  <1>7. RunOK(p)'
    <2>1. /\ ledger[p] # None /\ d \in DOMAIN ledger[p].target
          /\ ledger[p].target[d] = "intent" /\ expected[p][d] \in Settings
          /\ DOMAIN ledger[p].target = {e \in Devices : push[p].import[e] # "no-target"}
          /\ \A e \in DOMAIN ledger[p].target : ledger[p].target[e] = "intent"
      BY <1>1, <1>5 DEF RunOK
    <2>2. <<p, d>> \in reached' <=> x = "reached"
      BY <1>1, <1>2, <1>5 DEF RunOK
    <2>3. \A e \in Devices : e # d => (<<p, e>> \in reached' <=> <<p, e>> \in reached)
      BY <1>2
    <2>4. DOMAIN ledger[p].target = {e \in Devices : push'[p].import[e] # "no-target"}
      BY <1>4, <2>1
    <2> QED BY <1>1, <1>2, <1>4, <1>5, <2>1, <2>2, <2>3, <2>4 DEF RunOK, Risk, Updated, VerificationStates
  <1>8. ASSUME NEW q \in Pushes, q # p PROVE RunOK(q)'
    <2>1. RunOK(q) /\ push'[q] = push[q]
      BY <1>4, <1>8 DEF IndInv
    <2>2. \A e \in Devices : <<q, e>> \in reached' <=> <<q, e>> \in reached
      BY <1>2, <1>8
    <2>3. DOMAIN ledger[q].target \subseteq Devices \/ ledger[q] = None
      BY <1>1, LedgerReceipt
    <2> QED BY <1>5, <2>1, <2>2, <2>3, RunFrame
  <1>9. ASSUME NEW v \in Verifiers PROVE VerificationOK(v)'
    BY <1>5, <1>9, VerificationFrame DEF IndInv, VerificationOK
  <1> QED BY <1>6, <1>7, <1>8, <1>9 DEF IndInv

LEMMA ImportAnsweredStep ==
    ASSUME IndInv, NEW p \in Pushes, NEW d \in Devices, ImportAnswered(p, d)
    PROVE  IndInv'
  <1>1. TypeOK /\ LedgerType /\ RunOK(p)
    BY LedgerTyped DEF IndInv
  <1>2. PICK x \in Conclusions(push[p].import[d]) : push' = [push EXCEPT ![p].import[d] = x]
    BY DEF ImportAnswered
  <1>3. /\ push[p].pc = "importing"
        /\ UNCHANGED <<inventory, control, scan, lock, verify, ledger, expected, device, pending,
                       reached, changes, observed, crashes>>
    BY DEF ImportAnswered
  <1>4. \/ /\ push[p].import[d] = "reached"
           /\ x \in {"updated", "unknown", "failed"}
           /\ ~MalformedReplies => x # "failed"
        \/ push[p].import[d] = "missed" /\ x \in {"failed", "unknown"}
    BY <1>2 DEF Conclusions
  <1>5. x \in ImportStates
    BY <1>4 DEF ImportStates, MutationStates
  <1>6. /\ push' \in [Pushes -> PushState]
        /\ push'[p].pc = push[p].pc
        /\ push'[p].import[d] = x
        /\ \A e \in Devices : e # d => push'[p].import[e] = push[p].import[e]
        /\ \A q \in Pushes : q # p => push'[q] = push[q]
    BY <1>1, <1>2, <1>5, ImportStep
  <1>7. TypeOK'
    BY <1>1, <1>3, <1>6 DEF TypeOK
  <1>8. RunOK(p)'
    <2>1. DOMAIN ledger[p].target = {e \in Devices : push'[p].import[e] # "no-target"}
      BY <1>1, <1>3, <1>4, <1>6 DEF RunOK
    <2>2. push[p].import[d] = "reached" <=> <<p, d>> \in reached
      BY <1>1, <1>4 DEF RunOK
    <2> QED BY <1>1, <1>3, <1>4, <1>6, <2>1, <2>2 DEF RunOK
  <1>9. ASSUME NEW q \in Pushes, q # p PROVE RunOK(q)'
    <2>1. RunOK(q) /\ push'[q] = push[q]
      BY <1>6, <1>9 DEF IndInv
    <2>2. DOMAIN ledger[q].target \subseteq Devices \/ ledger[q] = None
      BY <1>1, LedgerReceipt
    <2> QED BY <1>3, <2>1, <2>2, RunFrame
  <1>10. ASSUME NEW v \in Verifiers PROVE VerificationOK(v)'
    BY <1>3, <1>10, VerificationFrame DEF IndInv, VerificationOK
  <1> QED BY <1>7, <1>8, <1>9, <1>10 DEF IndInv

LEMMA FinishPushStep ==
    ASSUME IndInv, NEW p \in Pushes, FinishPush(p)
    PROVE  IndInv'
  <1>1. TypeOK /\ LedgerType /\ RunOK(p)
    BY LedgerTyped DEF IndInv
  <1>2. /\ push[p].pc = "importing" /\ Answered(p) /\ lock' = None
        /\ push' = [push EXCEPT ![p].pc = "ended"]
        /\ Ledger!Finish(p, Outcome(p)) \/ UNCHANGED ledger
        /\ UNCHANGED <<inventory, control, scan, verify, expected, device, pending, reached,
                       changes, observed, crashes>>
    BY DEF FinishPush
  <1>3. /\ lock = p
        /\ ledger[p] # None
        /\ DOMAIN ledger[p].target = {e \in Devices : push[p].import[e] # "no-target"}
        /\ \A e \in DOMAIN ledger[p].target : ledger[p].target[e] = "intent"
    BY <1>1, <1>2 DEF RunOK
  <1>4. Outcome(p) \in [DOMAIN ledger[p].target -> MutationStates]
    BY <1>2, <1>3 DEF Answered, Outcome
  <1>5. /\ LedgerType'
        /\ \A q \in Pushes : q # p => ledger'[q] = ledger[q]
        /\ ledger'[p] # None
        /\ ledger'[p] = ledger[p] \/ ledger'[p].target = Outcome(p)
    BY <1>1, <1>2, <1>3, <1>4, FinishEffect DEF LedgerType
  <1>6. DOMAIN ledger'[p].target = DOMAIN ledger[p].target
    BY <1>4, <1>5
  <1>7. /\ push' \in [Pushes -> PushState]
        /\ push'[p].pc = "ended" /\ push'[p].import = push[p].import
        /\ \A q \in Pushes : q # p => push'[q] = push[q]
    <2>1. push[p] \in PushState
      BY <1>1 DEF TypeOK
    <2> QED BY <1>1, <1>2, <2>1 DEF TypeOK, PushState
  <1>8. TypeOK'
    BY <1>1, <1>2, <1>5, <1>7 DEF TypeOK, LedgerType
  <1>9. RunOK(p)'
    <2>1. CASE ledger'[p] = ledger[p]
      BY <1>1, <1>2, <1>3, <1>7, <2>1 DEF RunOK, Updated, VerificationStates
    <2>2. CASE ledger'[p].target = Outcome(p)
      <3>1. \A e \in DOMAIN ledger[p].target : ledger'[p].target[e] = push[p].import[e]
        BY <2>2 DEF Outcome
      <3>2. \A e \in Devices : <<p, e>> \in reached =>
                push[p].import[e] \in {"updated", "unknown", "failed"} /\ e \in DOMAIN ledger[p].target
        BY <1>1, <1>2, <1>3 DEF RunOK, Answered, MutationStates
      <3>3. \A e \in DOMAIN ledger[p].target :
                push[p].import[e] \in Updated => push[p].import[e] = "updated"
        BY <1>2, <1>3, <1>4 DEF Answered, Updated, VerificationStates, MutationStates
      <3>4. \A e \in DOMAIN ledger[p].target : push[p].import[e] # "verified"
        BY <1>2, <1>3 DEF Answered, MutationStates
      <3> QED BY <1>1, <1>2, <1>3, <1>5, <1>6, <1>7, <3>1, <3>2, <3>3, <3>4 DEF RunOK, Risk
    <2> QED BY <1>5, <2>1, <2>2
  <1>10. ASSUME NEW q \in Pushes, q # p PROVE RunOK(q)'
    <2>1. RunOK(q) /\ push'[q] = push[q] /\ ledger'[q] = ledger[q]
      BY <1>5, <1>7, <1>10 DEF IndInv
    <2>2. push[q].pc # "importing"
      BY <1>3, <1>10, <2>1 DEF RunOK
    <2>3. DOMAIN ledger[q].target \subseteq Devices \/ ledger[q] = None
      BY <1>1, LedgerReceipt
    <2> QED BY <1>2, <2>1, <2>2, <2>3, RunFrame
  <1>11. ASSUME NEW v \in Verifiers PROVE VerificationOK(v)'
    <2>1. VerificationOK(v)
      BY DEF IndInv
    <2>2. verify[v] # None => verify[v].push \in Pushes /\ verify[v].push # p
      BY <1>1, <1>3, <2>1 DEF TypeOK, Verification, VerificationOK, Updated, VerificationStates
    <2> QED BY <1>2, <1>5, <2>1, <2>2, VerificationFrame DEF VerificationOK
  <1> QED BY <1>8, <1>9, <1>10, <1>11 DEF IndInv

--------------------------------------------------------------------------------
(* Verifications                                                               *)

\* A step of a verification's own state: no run and no receipt changes.
LEMMA VerifyFrame ==
    ASSUME IndInv, TypeOK', NEW v \in Verifiers, VerificationOK(v)',
           \A w \in Verifiers : w # v => verify'[w] = verify[w],
           UNCHANGED <<push, lock, ledger, expected, reached>>,
           observed \subseteq observed'
    PROVE  IndInv'
  <1>1. ASSUME NEW p \in Pushes PROVE RunOK(p)'
    <2>1. DOMAIN ledger[p].target \subseteq Devices \/ ledger[p] = None
      BY LedgerTyped, LedgerReceipt DEF IndInv
    <2> QED BY <2>1, RunFrame DEF IndInv
  <1>2. ASSUME NEW w \in Verifiers, w # v PROVE VerificationOK(w)'
    BY <1>2, VerificationFrame DEF IndInv, VerificationOK
  <1> QED BY <1>1, <1>2 DEF IndInv

LEMMA VerifyTargetStep ==
    ASSUME IndInv, NEW v \in Verifiers, NEW p \in Pushes, NEW d \in Devices, VerifyTarget(v, p, d)
    PROVE  IndInv'
  <1> DEFINE profile == BulkUpdateSettings(control.settings, inventory[d])
             new == [push |-> p, ip |-> d, profile |-> profile, reads |-> 0, verdict |-> "open"]
  <1>1. TypeOK
    BY DEF IndInv
  <1>2. /\ verify' = [verify EXCEPT ![v] = new]
        /\ ledger[p] # None /\ d \in DOMAIN ledger[p].target
        /\ ledger[p].target[d] = "updated"
        /\ expected[p][d] = profile
        /\ UNCHANGED <<inventory, control, scan, push, lock, ledger, expected, device, pending,
                       reached, changes, observed, crashes>>
    BY DEF VerifyTarget
  <1>3. profile \in Settings
    <2>1. control.settings \in Settings /\ inventory[d] \in Settings
      BY <1>1 DEF VerifyTarget, TypeOK, Control, Read
    <2> QED BY <2>1, SettingsAssumption DEF VerifyTarget
  <1> HIDE DEF profile
  <1>4. new \in Verification
    BY <1>3, ReadsAssumption DEF Verification
  <1>5. verify'[v] = new /\ \A w \in Verifiers : w # v => verify'[w] = verify[w]
    BY <1>1, <1>2 DEF TypeOK
  <1>6. TypeOK'
    BY <1>1, <1>2, <1>4 DEF TypeOK
  <1>7. VerificationOK(v)'
    BY <1>2, <1>5, ReadsAssumption DEF VerificationOK, Updated
  <1> QED BY <1>2, <1>5, <1>6, <1>7, VerifyFrame

\* A read of the device, and the read that fails.
LEMMA ReadBackStep ==
    ASSUME IndInv, NEW v \in Verifiers, ReadBack(v) \/ ReadBackFails(v)
    PROVE  IndInv'
  <1>1. TypeOK /\ VerificationOK(v)
    BY DEF IndInv
  <1>2. /\ verify[v] # None /\ verify[v].verdict = "open"
        /\ UNCHANGED <<inventory, control, scan, push, lock, ledger, expected, device, pending,
                       reached, changes, crashes>>
    BY DEF ReadBack, ReadBackFails
  <1>3. verify[v] \in Verification
    BY <1>1, <1>2 DEF TypeOK
  <1>4. verify[v].reads \in Nat /\ verify[v].reads < MaxReads /\ MaxReads \in Nat
    BY <1>1, <1>2, <1>3, ReadsAssumption DEF VerificationOK, Verification
  <1>5. CASE ReadBack(v)
    <2> DEFINE new == [verify[v] EXCEPT !.reads = @ + 1, !.verdict = Verdict(v)]
               seen == <<verify[v].ip, device[verify[v].ip]>>
    <2>1. /\ Verdict(v) \in VerificationStates \cup {"open"}
          /\ Verdict(v) = "verified" => device[verify[v].ip] = verify[v].profile
          /\ Verdict(v) = "open" => verify[v].reads + 1 < MaxReads
      BY <1>4 DEF Verdict, VerificationStates
    <2>2. verify' = [verify EXCEPT ![v] = new] /\ observed' = observed \cup {seen}
      BY <1>5 DEF ReadBack
    <2>3. new \in Verification
      <3>1. verify[v].reads + 1 \in 0..MaxReads
        BY <1>4
      <3> HIDE DEF Verdict
      <3> QED BY <1>3, <2>1, <3>1 DEF Verification
    <2>4. verify'[v] = new /\ \A w \in Verifiers : w # v => verify'[w] = verify[w]
      BY <1>1, <2>2 DEF TypeOK
    <2>5. seen \in Devices \X Settings
      BY <1>1, <1>3 DEF TypeOK, Verification
    <2>6. TypeOK'
      BY <1>1, <1>2, <2>2, <2>3, <2>5 DEF TypeOK
    <2>7. VerificationOK(v)'
      BY <1>1, <1>2, <1>3, <2>1, <2>2, <2>4 DEF VerificationOK, Verification
    <2> QED BY <1>2, <2>2, <2>4, <2>6, <2>7, VerifyFrame
  <1>6. CASE ReadBackFails(v)
    <2> DEFINE new == [verify[v] EXCEPT !.verdict = "unavailable"]
    <2>1. verify' = [verify EXCEPT ![v] = new] /\ observed' = observed
      BY <1>6 DEF ReadBackFails
    <2>2. new \in Verification
      BY <1>3 DEF Verification, VerificationStates
    <2>3. verify'[v] = new /\ \A w \in Verifiers : w # v => verify'[w] = verify[w]
      BY <1>1, <2>1 DEF TypeOK
    <2>4. TypeOK'
      BY <1>1, <1>2, <2>1, <2>2 DEF TypeOK
    <2>5. VerificationOK(v)'
      BY <1>1, <1>2, <1>3, <2>1, <2>3 DEF VerificationOK, Verification
    <2> QED BY <1>2, <2>1, <2>3, <2>4, <2>5, VerifyFrame
  <1> QED BY <1>5, <1>6

LEMMA RecordVerificationStep ==
    ASSUME IndInv, NEW v \in Verifiers, RecordVerification(v)
    PROVE  IndInv'
  <1>1. TypeOK /\ LedgerType /\ VerificationOK(v)
    BY LedgerTyped DEF IndInv
  <1> PICK p \in Pushes, d \in Devices, x \in VerificationStates :
         p = verify[v].push /\ d = verify[v].ip /\ x = verify[v].verdict
    BY <1>1 DEF RecordVerification, TypeOK, Verification
  <1>2. /\ verify[v] # None
        /\ Ledger!Verify(p, d, x) \/ UNCHANGED ledger
        /\ verify' = [verify EXCEPT ![v] = None]
        /\ UNCHANGED <<inventory, control, scan, push, lock, expected, device, pending, reached,
                       changes, observed, crashes>>
    BY DEF RecordVerification
  <1>3. /\ ledger[p] # None /\ d \in DOMAIN ledger[p].target
        /\ ledger[p].target[d] \in Updated
        /\ x = "verified" => <<d, expected[p][d]>> \in observed
    BY <1>1, <1>2 DEF VerificationOK
  <1>4. ledger[p].target \in [DOMAIN ledger[p].target -> TargetStates]
    BY <1>1, <1>3, LedgerReceipt, ReceiptParts
  <1>5. /\ LedgerType'
        /\ \A q \in Pushes : q # p => ledger'[q] = ledger[q]
        /\ ledger'[p] # None
        /\ DOMAIN ledger'[p].target = DOMAIN ledger[p].target
        /\ ledger'[p] = ledger[p] \/ ledger'[p].target = [ledger[p].target EXCEPT ![d] = x]
    <2>1. CASE Ledger!Verify(p, d, x)
      BY <1>1, <1>2, <1>3, <2>1, VerifyEffect DEF LedgerType
    <2>2. CASE UNCHANGED ledger
      BY <1>1, <1>3, <2>2 DEF LedgerType
    <2> QED BY <1>2, <2>1, <2>2
  <1>6. \A e \in DOMAIN ledger[p].target :
           ledger[p].target[e] \in Updated => ledger'[p].target[e] \in Updated
    BY <1>2, <1>4, <1>5 DEF Updated
  <1>7. TypeOK'
    BY <1>1, <1>2, <1>5 DEF TypeOK, LedgerType
  <1>8. RunOK(p)'
    <2>1. RunOK(p) /\ push'[p] = push[p]
      BY <1>2 DEF IndInv
    <2>2. CASE ledger'[p] = ledger[p]
      <3>1. DOMAIN ledger[p].target \subseteq Devices
        BY <1>1, <1>3, LedgerReceipt
      <3> QED BY <1>2, <2>1, <2>2, <3>1, RunFrame
    <2>3. CASE ledger'[p].target = [ledger[p].target EXCEPT ![d] = x]
      <3>1. push[p].pc # "importing" /\ push[p].pc # "new"
        BY <1>3, <2>1 DEF RunOK, Updated, VerificationStates
      <3>2. \A e \in DOMAIN ledger[p].target : e # d => ledger'[p].target[e] = ledger[p].target[e]
        BY <1>4, <2>3
      <3>3. ledger'[p].target[d] = x /\ <<p, d>> \in reached
        BY <1>3, <1>4, <2>1, <2>3 DEF RunOK
      <3>4. Risk(x) # "no-device-effect-confirmed"
        BY <1>2 DEF Risk, VerificationStates
      <3>5. /\ DOMAIN ledger'[p].target = DOMAIN ledger[p].target
            /\ ledger'[p] # None /\ reached' = reached /\ observed' = observed
            /\ expected' = expected
        BY <1>2, <1>5
      <3>6. ASSUME NEW e \in Devices
            PROVE  /\ push'[p].import[e] # "no-target" =>
                         e \in DOMAIN ledger'[p].target /\ expected'[p][e] \in Settings
                   /\ <<p, e>> \in reached' =>
                         push'[p].import[e] \in {"reached", "updated", "unknown", "failed"}
                   /\ push'[p].import[e] \in {"reached", "updated"} => <<p, e>> \in reached'
                   /\ <<p, e>> \in reached' /\ ~MalformedReplies =>
                         /\ push'[p].import[e] # "failed"
                         /\ Risk(ledger'[p].target[e]) # "no-device-effect-confirmed"
        <4>1. /\ push[p].import[e] # "no-target" =>
                    e \in DOMAIN ledger[p].target /\ expected[p][e] \in Settings
              /\ <<p, e>> \in reached =>
                    push[p].import[e] \in {"reached", "updated", "unknown", "failed"}
              /\ push[p].import[e] \in {"reached", "updated"} => <<p, e>> \in reached
              /\ <<p, e>> \in reached /\ ~MalformedReplies =>
                    /\ push[p].import[e] # "failed"
                    /\ Risk(ledger[p].target[e]) # "no-device-effect-confirmed"
          BY <2>1 DEF RunOK
        <4>2. <<p, e>> \in reached => e \in DOMAIN ledger[p].target
          BY <4>1
        <4> QED BY <2>1, <3>2, <3>3, <3>4, <3>5, <4>1, <4>2
      <3>7. ASSUME NEW e \in DOMAIN ledger'[p].target
            PROVE  /\ ledger'[p].target[e] \in Updated => <<p, e>> \in reached'
                   /\ ledger'[p].target[e] = "verified" => <<e, expected'[p][e]>> \in observed'
        <4>1. e \in DOMAIN ledger[p].target
          BY <3>5
        <4>2. /\ ledger[p].target[e] \in Updated => <<p, e>> \in reached
              /\ ledger[p].target[e] = "verified" => <<e, expected[p][e]>> \in observed
          BY <1>3, <2>1, <4>1 DEF RunOK
        <4> QED BY <1>3, <3>2, <3>3, <3>5, <4>1, <4>2
      <3> QED BY <2>1, <3>1, <3>5, <3>6, <3>7 DEF RunOK
    <2> QED BY <1>5, <2>2, <2>3
  <1>9. ASSUME NEW q \in Pushes, q # p PROVE RunOK(q)'
    <2>1. RunOK(q) /\ ledger'[q] = ledger[q]
      BY <1>5, <1>9 DEF IndInv
    <2>2. DOMAIN ledger[q].target \subseteq Devices \/ ledger[q] = None
      BY <1>1, LedgerReceipt
    <2> QED BY <1>2, <2>1, <2>2, RunFrame
  <1>10. VerificationOK(v)'
    BY <1>1, <1>2 DEF VerificationOK, TypeOK
  <1>11. ASSUME NEW w \in Verifiers, w # v PROVE VerificationOK(w)'
    <2>1. VerificationOK(w) /\ verify'[w] = verify[w]
      BY <1>1, <1>2, <1>11 DEF IndInv, TypeOK
    <2>2. verify[w] # None => verify[w].push \in Pushes /\ ledger[verify[w].push] # None
      BY <1>1, <2>1 DEF TypeOK, Verification, VerificationOK
    <2> QED BY <1>2, <1>5, <1>6, <2>1, <2>2, VerificationFrame
  <1> QED BY <1>7, <1>8, <1>9, <1>10, <1>11 DEF IndInv

--------------------------------------------------------------------------------
(* A crash                                                                     *)

LEMMA CrashStep ==
    ASSUME IndInv, Crash
    PROVE  IndInv'
  <1>1. TypeOK
    BY DEF IndInv
  <1>2. ASSUME NEW p \in Pushes
        PROVE  /\ push'[p] \in PushState /\ push'[p].import = push[p].import
               /\ push'[p].pc # "importing"
               /\ push'[p].pc = "new" => push[p].pc = "new"
    <2>1. push[p] \in PushState
      BY <1>1 DEF TypeOK
    <2>2. CASE push[p].pc = "importing"
      BY <2>1, <2>2 DEF Crash, PushState
    <2>3. CASE push[p].pc # "importing"
      BY <2>1, <2>3 DEF Crash
    <2> QED BY <2>2, <2>3
  <1>3. TypeOK'
    <2>1. push' \in [Pushes -> PushState]
      BY <1>2 DEF Crash
    <2> QED BY <1>1, <2>1, BoundAssumption DEF Crash, TypeOK, ScanResult
  <1>4. ASSUME NEW p \in Pushes PROVE RunOK(p)'
    <2>1. RunOK(p)
      BY DEF IndInv
    <2> QED BY <1>2, <2>1 DEF Crash, RunOK
  <1>5. ASSUME NEW v \in Verifiers PROVE VerificationOK(v)'
    BY DEF Crash, VerificationOK
  <1> QED BY <1>3, <1>4, <1>5 DEF IndInv

--------------------------------------------------------------------------------
(* The theorems                                                                *)

LEMMA InitInductive == Init => IndInv
  <1> SUFFICES ASSUME Init PROVE IndInv
    OBVIOUS
  <1>1. ledger = [p \in Ids |-> None]
    BY DEF Init, Ledger!Init
  <1>2. TypeOK
    <2>1. [d \in Devices |-> NotRead] \in [Devices -> ScanResult]
      BY DEF ScanResult
    <2>2. NoPush \in PushState
      BY DEF NoPush, NotAsked, PushState, ImportStates
    <2> QED BY <1>1, <2>1, <2>2, SettingsAssumption, BoundAssumption DEF Init, TypeOK
  <1>3. ASSUME NEW p \in Pushes PROVE RunOK(p)
    BY <1>1 DEF Init, RunOK, NoPush, NotAsked
  <1>4. ASSUME NEW v \in Verifiers PROVE VerificationOK(v)
    BY DEF Init, VerificationOK
  <1> QED BY <1>2, <1>3, <1>4 DEF IndInv

LEMMA NextInductive == IndInv /\ [Next]_vars => IndInv'
  <1> SUFFICES ASSUME IndInv, [Next]_vars PROVE IndInv'
    OBVIOUS
  <1>1. ASSUME NEW s \in Scans, ScanNext(s) PROVE IndInv'
    <2>1. TypeOK'
      BY <1>1, TypeScans
    <2>2. UNCHANGED <<push, lock, ledger, expected, verify, reached, observed>>
      BY <1>1 DEF ScanNext, DiscoverStart, DiscoverRead, DiscoverFinish
    <2> QED BY <2>1, <2>2, QuietStep
  <1>2. ASSUME NEW d \in Devices, SetControl(d) \/ ChangeLocally(d) PROVE IndInv'
    <2>1. TypeOK'
      BY <1>2, TypeScans, TypeDevices
    <2>2. UNCHANGED <<push, lock, ledger, expected, verify, reached, observed>>
      BY <1>2 DEF SetControl, ChangeLocally
    <2> QED BY <2>1, <2>2, QuietStep
  <1>3. ASSUME NEW p \in Pushes, NEW d \in Devices, DeviceApplies(p, d) PROVE IndInv'
    <2>1. TypeOK'
      BY <1>3, TypeDevices
    <2>2. UNCHANGED <<push, lock, ledger, expected, verify, reached, observed>>
      BY <1>3 DEF DeviceApplies
    <2> QED BY <2>1, <2>2, QuietStep
  <1>4. ASSUME NEW p \in Pushes, PushNext(p) PROVE IndInv'
    BY <1>4, PushStarts, SendImportStep, ImportAnsweredStep, FinishPushStep DEF PushNext
  <1>5. ASSUME NEW v \in Verifiers, VerifyNext(v) PROVE IndInv'
    BY <1>5, VerifyTargetStep, ReadBackStep, RecordVerificationStep DEF VerifyNext
  <1>6. CASE Crash
    BY <1>6, CrashStep
  <1>7. CASE UNCHANGED vars
    <2>1. TypeOK'
      BY <1>7 DEF IndInv, TypeOK
    <2> QED BY <1>7, <2>1, QuietStep
  <1> QED BY <1>1, <1>2, <1>3, <1>4, <1>5, <1>6, <1>7 DEF Next

\* The inductive invariant holds of every behaviour.
THEOREM RunInductive == Spec => []IndInv
  BY InitInductive, NextInductive, PTL DEF Spec

\* The backend's, the devices' and the receipts' state always has its type.
THEOREM RunTypeCorrect == Spec => []TypeOK
  <1>1. IndInv => TypeOK
    BY DEF IndInv
  <1> QED BY <1>1, RunInductive, PTL

\* At most one push imports at a time: the push that imports holds the lock.
THEOREM SingleBatch == Spec => []OneMutationBatch
  <1>1. IndInv => OneMutationBatch
    BY DEF IndInv, RunOK, OneMutationBatch
  <1> QED BY <1>1, RunInductive, PTL

\* If every reply to an import is well-formed JSON (or none arrives), a receipt
\* never shows a device as untouched that the run's import has reached.
THEOREM RiskKept ==
    ASSUME ~MalformedReplies
    PROVE  Spec => []RiskNeverUnderstated
  <1>1. ASSUME IndInv PROVE RiskNeverUnderstated
    <2> SUFFICES ASSUME NEW p \in Pushes, NEW d \in Devices, <<p, d>> \in reached
                 PROVE  /\ ledger[p] # None
                        /\ d \in DOMAIN ledger[p].target
                        /\ Risk(ledger[p].target[d]) # "no-device-effect-confirmed"
      BY DEF RiskNeverUnderstated
    <2>1. RunOK(p)
      BY <1>1 DEF IndInv
    <2>2. push[p].import[d] # "no-target"
      BY <2>1 DEF RunOK
    <2> QED BY <2>1, <2>2 DEF RunOK
  <1> QED BY <1>1, RunInductive, PTL

\* What a receipt calls verified has been read back from the device with the
\* settings the receipt expects, and the import had reached it.
THEOREM VerifiedRead == Spec => []VerifiedWasRead
  <1>1. ASSUME IndInv PROVE VerifiedWasRead
    BY <1>1 DEF IndInv, RunOK, VerifiedWasRead, Updated, VerificationStates
  <1> QED BY <1>1, RunInductive, PTL

--------------------------------------------------------------------------------
(* Target-local settings                                                       *)

\* Without changes made outside this backend, every copy of a device's settings
\* has the target-local part the device started with.
SameLocal(settings, d) ==
    settings \in Settings => LocalPart(settings) = LocalPart(InitialSettings[d])

LocalDevices   == \A d \in Devices : SameLocal(device[d], d)
LocalInventory == \A d \in Devices : SameLocal(inventory[d], d)
LocalScans     == \A s \in Scans, d \in Devices : scan[s] # None => SameLocal(scan[s][d], d)
LocalExpected  == \A p \in Pushes, d \in Devices :
                      push[p].import[d] # "no-target" => SameLocal(expected[p][d], d)
LocalInv       == LocalDevices /\ LocalInventory /\ LocalScans /\ LocalExpected

\* What a device applies was written for it.
LEMMA AppliesWritten ==
    ASSUME IndInv, NEW p \in Pushes, NEW d \in Devices, DeviceApplies(p, d)
    PROVE  push[p].import[d] # "no-target" /\ expected[p][d] \in Settings
  <1>1. <<p, d>> \in reached
    BY DEF DeviceApplies, IndInv, TypeOK
  <1> QED BY <1>1 DEF IndInv, RunOK

LEMMA LocalDevicesStep ==
    ASSUME MaxChanges = 0, IndInv, LocalInv, [Next]_vars
    PROVE  LocalDevices'
  <1>1. TypeOK
    BY DEF IndInv
  <1>2. ASSUME NEW p \in Pushes, NEW d \in Devices, DeviceApplies(p, d) PROVE LocalDevices'
    <2>1. SameLocal(expected[p][d], d)
      BY <1>2, AppliesWritten DEF LocalInv, LocalExpected
    <2> QED BY <1>1, <1>2, <2>1 DEF DeviceApplies, TypeOK, LocalInv, LocalDevices, SameLocal
  <1>3. ASSUME NEW d \in Devices, ChangeLocally(d) PROVE LocalDevices'
    BY <1>1, <1>3 DEF ChangeLocally, TypeOK
  <1>4. ASSUME UNCHANGED device PROVE LocalDevices'
    BY <1>4 DEF LocalInv, LocalDevices, SameLocal
  <1> QED BY <1>2, <1>3, <1>4 DEF Next, ScanNext, DiscoverStart, DiscoverRead, DiscoverFinish,
             SetControl, PushNext, PushUpdates, PushIntentFails, SendImport, ImportAnswered,
             FinishPush, VerifyNext, VerifyTarget, ReadBack, ReadBackFails, RecordVerification,
             Crash

\* A scan copies what the devices have; the inventory copies the scan.
LEMMA LocalScansStep ==
    ASSUME MaxChanges = 0, IndInv, LocalInv, [Next]_vars
    PROVE  LocalScans' /\ LocalInventory'
  <1>1. TypeOK
    BY DEF IndInv
  <1>2. \A d \in Devices : SameLocal(NotRead, d) /\ SameLocal(None, d)
    BY SettingsAssumption DEF SameLocal
  <1>3. ASSUME NEW s \in Scans, DiscoverStart(s) PROVE LocalScans' /\ LocalInventory'
    BY <1>1, <1>2, <1>3 DEF DiscoverStart, TypeOK, LocalInv, LocalScans, LocalInventory, SameLocal
  <1>4. ASSUME NEW s \in Scans, NEW d \in Devices, DiscoverRead(s, d)
        PROVE  LocalScans' /\ LocalInventory'
    <2>1. PICK result \in {device[d], NotRead} : scan' = [scan EXCEPT ![s][d] = result]
      BY <1>4 DEF DiscoverRead
    <2>2. SameLocal(result, d)
      BY <1>2, <2>1 DEF LocalInv, LocalDevices
    <2>3. scan[s] \in [Devices -> ScanResult \cup {None}]
      BY <1>1, <1>4 DEF DiscoverRead, TypeOK
    <2>4. \A r \in Scans, e \in Devices :
             scan'[r] # None => scan[r] # None /\ (scan'[r][e] = scan[r][e] \/ (e = d /\ scan'[r][e] = result))
      BY <1>1, <1>4, <2>1, <2>3 DEF DiscoverRead, TypeOK
    <2>5. LocalScans'
      BY <2>2, <2>4 DEF LocalInv, LocalScans, SameLocal
    <2> QED BY <1>4, <2>5 DEF DiscoverRead, LocalInv, LocalInventory, SameLocal
  <1>5. ASSUME NEW s \in Scans, DiscoverFinish(s) PROVE LocalScans' /\ LocalInventory'
    BY <1>1, <1>5 DEF DiscoverFinish, TypeOK, LocalInv, LocalScans, LocalInventory, SameLocal
  <1>6. CASE Crash
    BY <1>2, <1>6 DEF Crash, LocalInv, LocalScans, LocalInventory, SameLocal
  <1>7. ASSUME UNCHANGED <<scan, inventory>> PROVE LocalScans' /\ LocalInventory'
    BY <1>7 DEF LocalInv, LocalScans, LocalInventory, SameLocal
  <1> QED BY <1>3, <1>4, <1>5, <1>6, <1>7 DEF Next, ScanNext, DeviceApplies, ChangeLocally,
             SetControl, PushNext, PushUpdates, PushIntentFails, SendImport, ImportAnswered,
             FinishPush, VerifyNext, VerifyTarget, ReadBack, ReadBackFails, RecordVerification

\* A push writes each target's own local part, as the inventory has it.
LEMMA LocalExpectedStep ==
    ASSUME MaxChanges = 0, IndInv, LocalInv, [Next]_vars
    PROVE  LocalExpected'
  <1>1. TypeOK
    BY DEF IndInv
  <1>2. ASSUME NEW p \in Pushes, NEW T \in SUBSET Devices, PushUpdates(p, T) PROVE LocalExpected'
    <2>1. PushAllowed(p, T)
      BY <1>2 DEF PushUpdates
    <2>2. ASSUME NEW d \in T PROVE SameLocal(Payloads(T)[d], d)
      <3>1. Compatible(control.settings, inventory[d]) /\ inventory[d] \in Settings
        BY <2>1 DEF PushAllowed, Read
      <3>2. Payloads(T)[d] = BulkUpdateSettings(control.settings, inventory[d])
        BY DEF Payloads
      <3>3. LocalPart(Payloads(T)[d]) = LocalPart(inventory[d])
        BY <3>1, <3>2, MergeKeepsLocal
      <3> QED BY <3>1, <3>3 DEF LocalInv, LocalInventory, SameLocal
    <2>3. /\ expected'[p] = Payloads(T)
          /\ \A d \in Devices : push'[p].import[d] # "no-target" => d \in T
          /\ \A q \in Pushes : q # p => expected'[q] = expected[q] /\ push'[q] = push[q]
      BY <1>1, <1>2 DEF PushUpdates, TypeOK
    <2> QED BY <2>2, <2>3 DEF LocalInv, LocalExpected, SameLocal
  <1>3. ASSUME NEW p \in Pushes, NEW T \in SUBSET Devices, PushIntentFails(p, T)
        PROVE  LocalExpected'
    <2>1. push[p].pc = "new" /\ push[p].import = NotAsked /\ push[p] \in PushState
      BY <1>1, <1>3 DEF PushIntentFails, PushAllowed, IndInv, RunOK, TypeOK
    <2>2. /\ push'[p].import = NotAsked
          /\ \A q \in Pushes : q # p => expected'[q] = expected[q] /\ push'[q] = push[q]
      BY <1>1, <1>3, <2>1 DEF PushIntentFails, TypeOK, PushState
    <2> QED BY <2>2 DEF NotAsked, LocalInv, LocalExpected, SameLocal
  <1>4. ASSUME UNCHANGED expected,
               \A p \in Pushes, d \in Devices :
                   push'[p].import[d] # "no-target" => push[p].import[d] # "no-target"
        PROVE  LocalExpected'
    BY <1>4 DEF LocalInv, LocalExpected, SameLocal
  <1>5. ASSUME NEW p \in Pushes, NEW d \in Devices, NEW x, push[p].import[d] # "no-target",
               x \in ImportStates, push' = [push EXCEPT ![p].import[d] = x], UNCHANGED expected
        PROVE  LocalExpected'
    BY <1>1, <1>4, <1>5, ImportStep
  <1>6. ASSUME NEW p \in Pushes, NEW d \in Devices, SendImport(p, d) PROVE LocalExpected'
    <2>1. PICK x \in {"reached", "missed"} : push' = [push EXCEPT ![p].import[d] = x]
      BY <1>6 DEF SendImport
    <2> QED BY <1>5, <1>6, <2>1 DEF SendImport, ImportStates
  <1>7. ASSUME NEW p \in Pushes, NEW d \in Devices, ImportAnswered(p, d) PROVE LocalExpected'
    <2>1. PICK x \in Conclusions(push[p].import[d]) : push' = [push EXCEPT ![p].import[d] = x]
      BY <1>7 DEF ImportAnswered
    <2>2. push[p].import[d] # "no-target" /\ x \in ImportStates
      BY <2>1 DEF Conclusions, ImportStates, MutationStates
    <2> QED BY <1>5, <1>7, <2>1, <2>2 DEF ImportAnswered
  <1>8. ASSUME NEW p \in Pushes, FinishPush(p) PROVE LocalExpected'
    <2>1. \A q \in Pushes : push'[q].import = push[q].import
      BY <1>1, <1>8 DEF FinishPush, TypeOK, PushState
    <2> QED BY <1>4, <1>8, <2>1 DEF FinishPush
  <1>9. CASE Crash
    <2>1. \A q \in Pushes : push'[q].import = push[q].import
      BY <1>1, <1>9 DEF Crash, TypeOK, PushState
    <2> QED BY <1>4, <1>9, <2>1 DEF Crash
  <1>10. ASSUME UNCHANGED <<push, expected>> PROVE LocalExpected'
    BY <1>4, <1>10
  <1> QED BY <1>2, <1>3, <1>6, <1>7, <1>8, <1>9, <1>10 DEF Next, ScanNext, DiscoverStart,
             DiscoverRead, DiscoverFinish, SetControl, DeviceApplies, ChangeLocally, PushNext,
             VerifyNext, VerifyTarget, ReadBack, ReadBackFails, RecordVerification

\* If nothing else changes a device, an import leaves its target-local settings
\* as they are on the device when it is applied, however late that is.
THEOREM LocalKept ==
    ASSUME MaxChanges = 0
    PROVE  Spec => ImportKeepsLocal
  <1>1. Init => LocalInv
    <2> SUFFICES ASSUME Init PROVE LocalInv
      OBVIOUS
    <2>1. LocalDevices
      BY DEF Init, LocalDevices, SameLocal
    <2>2. LocalInventory
      BY SettingsAssumption DEF Init, LocalInventory, SameLocal
    <2>3. LocalScans /\ LocalExpected
      BY DEF Init, LocalScans, LocalExpected, NoPush, NotAsked
    <2> QED BY <2>1, <2>2, <2>3 DEF LocalInv
  <1>2. IndInv /\ LocalInv /\ [Next]_vars => LocalInv'
    BY LocalDevicesStep, LocalScansStep, LocalExpectedStep DEF LocalInv
  <1>3. ASSUME IndInv, LocalInv, NEW p \in Pushes, NEW d \in Devices, DeviceApplies(p, d)
        PROVE  LocalPart(device'[d]) = LocalPart(device[d])
    <2>1. /\ SameLocal(expected[p][d], d) /\ SameLocal(device[d], d)
          /\ expected[p][d] \in Settings /\ device[d] \in Settings
      BY <1>3, AppliesWritten DEF LocalInv, LocalExpected, LocalDevices, IndInv, TypeOK
    <2>2. device'[d] = expected[p][d]
      BY <1>3 DEF DeviceApplies, IndInv, TypeOK
    <2> QED BY <2>1, <2>2 DEF SameLocal
  <1>4. IndInv /\ LocalInv /\ [Next]_vars =>
           [\A p \in Pushes, d \in Devices :
               DeviceApplies(p, d) => LocalPart(device'[d]) = LocalPart(device[d])]_vars
    BY <1>3
  <1> QED BY <1>1, <1>2, <1>4, RunInductive, PTL DEF Spec, ImportKeepsLocal

--------------------------------------------------------------------------------
(* The receipt ledger is used within its contract                              *)

\* What the handlers owe the receipt store at the points at which they call it:
\* outcomes are handed in for exactly the targets of an intent without outcomes,
\* a verdict for a target whose import was accepted.  record_mutation_outcomes
\* and record_verification_outcome rely on it.
ContractKept ==
    /\ \A p \in Pushes : push[p].pc = "importing" /\ Answered(p) =>
          /\ ledger[p] # None
          /\ ledger[p].run_state = "intent-recorded"
          /\ Outcome(p) \in [DOMAIN ledger[p].target -> MutationStates]
    /\ \A v \in Verifiers : verify[v] # None =>
          /\ ledger[verify[v].push] # None
          /\ verify[v].ip \in DOMAIN ledger[verify[v].push].target
          /\ ledger[verify[v].push].target[verify[v].ip] \in Updated

\* The inductive invariant implies the contract.
LEMMA InductiveContract == IndInv => ContractKept
  <1> SUFFICES ASSUME IndInv PROVE ContractKept
    OBVIOUS
  <1>1. ASSUME NEW p \in Pushes, push[p].pc = "importing", Answered(p)
        PROVE  /\ ledger[p] # None
               /\ ledger[p].run_state = "intent-recorded"
               /\ Outcome(p) \in [DOMAIN ledger[p].target -> MutationStates]
    <2>1. /\ ledger[p] # None
          /\ ledger[p].run_state = "intent-recorded"
          /\ DOMAIN ledger[p].target = {d \in Devices : push[p].import[d] # "no-target"}
      BY <1>1 DEF IndInv, RunOK
    <2> QED BY <1>1, <2>1 DEF Answered, Outcome
  <1> QED BY <1>1 DEF ContractKept, IndInv, VerificationOK

\* The steps that change a receipt: an intent, the outcomes of a push that
\* imports, the verdict of a verification that ends with it.
LEMMA LedgerSteps ==
    ASSUME IndInv, [Next]_vars
    PROVE  \/ UNCHANGED ledger
           \/ \E p \in Pushes, T \in SUBSET Devices : Ledger!Intend(p, T)
           \/ \E p \in Pushes :
                 /\ push[p].pc = "importing" /\ Answered(p)
                 /\ Ledger!Finish(p, Outcome(p))
                 /\ UNCHANGED verify
           \/ \E v \in Verifiers :
                 /\ verify[v] # None
                 /\ verify[v].verdict \in VerificationStates
                 /\ Ledger!Verify(verify[v].push, verify[v].ip, verify[v].verdict)
                 /\ verify' = [verify EXCEPT ![v] = None]
  <1>1. ASSUME NEW p \in Pushes, NEW T \in SUBSET Devices, PushUpdates(p, T) \/ PushIntentFails(p, T)
        PROVE  Ledger!Intend(p, T)
    BY <1>1 DEF PushUpdates, PushIntentFails
  <1>2. ASSUME NEW p \in Pushes, FinishPush(p)
        PROVE  /\ push[p].pc = "importing" /\ Answered(p) /\ UNCHANGED verify
               /\ Ledger!Finish(p, Outcome(p)) \/ UNCHANGED ledger
    BY <1>2 DEF FinishPush
  <1>3. ASSUME NEW v \in Verifiers, RecordVerification(v)
        PROVE  /\ verify[v] # None
               /\ verify[v].verdict \in VerificationStates
               /\ \/ Ledger!Verify(verify[v].push, verify[v].ip, verify[v].verdict)
                  \/ UNCHANGED ledger
               /\ verify' = [verify EXCEPT ![v] = None]
    BY <1>3 DEF RecordVerification
  <1> QED BY <1>1, <1>2, <1>3 DEF Next, ScanNext, DiscoverStart, DiscoverRead, DiscoverFinish,
             SetControl, DeviceApplies, ChangeLocally, PushNext, SendImport, ImportAnswered,
             VerifyNext, VerifyTarget, ReadBack, ReadBackFails, Crash

\* The handlers never call the receipt store outside its contract, whatever is
\* in flight and wherever the backend restarts.
THEOREM StoreCallsLegal == Spec => []ContractKept
  BY InductiveContract, RunInductive, PTL

\* Seen from the receipts, all of the workflow is a behaviour of the receipt
\* ledger, the one that the store with its files implements.
THEOREM RunsKeepLedger == Spec => Ledger!Spec
  <1>1. Init => Ledger!Init
    BY DEF Init
  <1>2. ASSUME IndInv, [Next]_vars PROVE [Ledger!Next]_ledger
    <2> SUFFICES ASSUME ledger' # ledger PROVE Ledger!Next
      OBVIOUS
    <2>1. TypeOK /\ LedgerType /\ ContractKept
      BY <1>2, LedgerTyped, InductiveContract DEF IndInv
    <2>2. ASSUME NEW p \in Pushes, NEW T \in SUBSET Devices, Ledger!Intend(p, T)
          PROVE  Ledger!Next
      BY <2>2 DEF Ledger!Next
    <2>3. ASSUME NEW p \in Pushes, push[p].pc = "importing", Answered(p),
                 Ledger!Finish(p, Outcome(p))
          PROVE  Ledger!Next
      <3>1. ledger[p] # None /\ Outcome(p) \in [DOMAIN ledger[p].target -> MutationStates]
        BY <2>1, <2>3 DEF ContractKept
      <3>2. DOMAIN ledger[p].target \in SUBSET Targets
        BY <2>1, <3>1, LedgerReceipt
      <3> QED BY <2>3, <3>1, <3>2 DEF Ledger!Next, Ledger!MutationStates, MutationStates
    <2>4. ASSUME NEW v \in Verifiers, verify[v] # None, verify[v].verdict \in VerificationStates,
                 Ledger!Verify(verify[v].push, verify[v].ip, verify[v].verdict)
          PROVE  Ledger!Next
      <3>1. verify[v].push \in Ids /\ verify[v].ip \in Targets
        BY <2>1, <2>4 DEF TypeOK, Verification
      <3> QED BY <2>4, <3>1 DEF Ledger!Next, Ledger!VerificationStates, VerificationStates
    <2> QED BY <1>2, <2>2, <2>3, <2>4, LedgerSteps
  <1> QED BY <1>1, <1>2, RunInductive, PTL DEF Spec, Ledger!Spec

--------------------------------------------------------------------------------
(* Verifications one at a time                                                 *)

\* A verification under way is of an import not yet verified.
NotYetRecorded ==
    \A v \in Verifiers : verify[v] # None =>
        ledger[verify[v].push].target[verify[v].ip] = "updated"

\* With one request at a time nothing is recorded between its check and its
\* record.
LEMMA NotYetRecordedStep ==
    ASSUME \A v, w \in Verifiers : v = w, IndInv, NotYetRecorded, [Next]_vars
    PROVE  NotYetRecorded'
  <1>1. TypeOK /\ LedgerType /\ ContractKept
    BY LedgerTyped, InductiveContract DEF IndInv
  <1> SUFFICES ASSUME NEW v \in Verifiers, verify'[v] # None
               PROVE  ledger'[verify'[v].push].target[verify'[v].ip] = "updated"
    BY DEF NotYetRecorded
  <1>2. ASSUME NEW w \in Verifiers, NEW p \in Pushes, NEW d \in Devices, VerifyTarget(w, p, d)
        PROVE  ledger'[verify'[v].push].target[verify'[v].ip] = "updated"
    <2>1. verify'[v].push = p /\ verify'[v].ip = d
      BY <1>1, <1>2 DEF VerifyTarget, TypeOK
    <2> QED BY <1>2, <2>1 DEF VerifyTarget
  <1>3. ASSUME verify[v] # None, verify'[v].push = verify[v].push, verify'[v].ip = verify[v].ip
        PROVE  ledger'[verify'[v].push].target[verify'[v].ip] = "updated"
    <2> DEFINE q == verify[v].push
    <2>1. /\ q \in Pushes /\ ledger[q] # None
          /\ verify[v].ip \in DOMAIN ledger[q].target
          /\ ledger[q].target[verify[v].ip] = "updated"
      BY <1>1, <1>3 DEF NotYetRecorded, ContractKept, TypeOK, Verification
    <2>2. ASSUME NEW p \in Pushes, NEW T \in SUBSET Devices, Ledger!Intend(p, T)
          PROVE  ledger'[q] = ledger[q]
      BY <1>1, <2>1, <2>2, IntendEffect DEF LedgerType
    <2>3. ASSUME NEW p \in Pushes, push[p].pc = "importing", Answered(p),
                 Ledger!Finish(p, Outcome(p))
          PROVE  ledger'[q] = ledger[q]
      <3>1. p # q
        BY <2>1, <2>3 DEF IndInv, RunOK
      <3>2. Outcome(p) \in [DOMAIN ledger[p].target -> MutationStates]
        BY <1>1, <2>3 DEF ContractKept
      <3> QED BY <1>1, <2>1, <2>3, <3>1, <3>2, FinishEffect DEF LedgerType
    <2>4. ASSUME NEW w \in Verifiers, verify' = [verify EXCEPT ![w] = None]
          PROVE  FALSE
      BY <1>1, <2>4 DEF TypeOK
    <2> QED BY <1>3, <2>1, <2>2, <2>3, <2>4, LedgerSteps
  <1>4. ASSUME NEW w \in Verifiers, ReadBack(w) \/ ReadBackFails(w)
        PROVE  verify[v] # None /\ verify'[v].push = verify[v].push /\ verify'[v].ip = verify[v].ip
    <2>1. w = v /\ verify[v] \in Verification
      BY <1>1, <1>4 DEF ReadBack, ReadBackFails, TypeOK
    <2> QED BY <1>1, <1>4, <2>1 DEF ReadBack, ReadBackFails, TypeOK, Verification
  <1>5. ASSUME UNCHANGED verify
        PROVE  verify[v] # None /\ verify'[v].push = verify[v].push /\ verify'[v].ip = verify[v].ip
    BY <1>5
  <1>6. ASSUME NEW w \in Verifiers, RecordVerification(w) PROVE FALSE
    BY <1>1, <1>6 DEF RecordVerification, TypeOK
  <1>7. CASE Crash
    BY <1>7 DEF Crash
  <1> QED BY <1>2, <1>3, <1>4, <1>5, <1>6, <1>7 DEF Next, ScanNext, DiscoverStart, DiscoverRead,
             DiscoverFinish, SetControl, DeviceApplies, ChangeLocally, PushNext, PushUpdates,
             PushIntentFails, SendImport, ImportAnswered, FinishPush, VerifyNext

\* If verify-target requests come one at a time, a recorded verification is
\* final: what the code promises fails for concurrent requests only.
THEOREM FinalIfSequential ==
    ASSUME \A v, w \in Verifiers : v = w
    PROVE  Spec => VerificationFinal
  <1>1. Init => NotYetRecorded
    BY DEF Init, NotYetRecorded
  <1>2. IndInv /\ NotYetRecorded /\ [Next]_vars => NotYetRecorded'
    BY NotYetRecordedStep
  <1>3. ASSUME IndInv, NotYetRecorded, [Next]_vars, NEW p \in Pushes, ledger[p] # None,
               NEW d \in DOMAIN ledger[p].target, ledger[p].target[d] \in VerificationStates
        PROVE  ledger'[p].target[d] = ledger[p].target[d]
    <2>1. TypeOK /\ LedgerType /\ ContractKept
      BY <1>3, LedgerTyped, InductiveContract DEF IndInv
    <2>2. ASSUME NEW q \in Pushes, NEW T \in SUBSET Devices, Ledger!Intend(q, T)
          PROVE  ledger'[p] = ledger[p]
      BY <1>3, <2>1, <2>2, IntendEffect DEF LedgerType
    <2>3. ASSUME NEW q \in Pushes, push[q].pc = "importing", Answered(q),
                 Ledger!Finish(q, Outcome(q))
          PROVE  ledger'[p] = ledger[p]
      <3>1. p # q
        BY <1>3, <2>3 DEF IndInv, RunOK, VerificationStates
      <3>2. Outcome(q) \in [DOMAIN ledger[q].target -> MutationStates]
        BY <2>1, <2>3 DEF ContractKept
      <3> QED BY <2>1, <2>3, <3>1, <3>2, FinishEffect DEF LedgerType
    <2>4. ASSUME NEW v \in Verifiers, verify[v] # None, verify[v].verdict \in VerificationStates,
                 Ledger!Verify(verify[v].push, verify[v].ip, verify[v].verdict)
          PROVE  ledger'[p].target[d] = ledger[p].target[d]
      <3>1. verify[v].push \in Ids /\ verify[v].ip \in Targets
        BY <2>1, <2>4 DEF TypeOK, Verification
      <3>2. ledger[verify[v].push].target[verify[v].ip] = "updated"
        BY <1>3, <2>4 DEF NotYetRecorded
      <3>3. verify[v].push # p \/ verify[v].ip # d
        BY <1>3, <3>2 DEF VerificationStates
      <3>4. ledger[p].target \in [DOMAIN ledger[p].target -> TargetStates]
        BY <1>3, <2>1, LedgerReceipt, ReceiptParts
      <3>5. /\ ledger' = [ledger EXCEPT ![verify[v].push] =
                             WithVerification(ledger[verify[v].push], verify[v].ip, verify[v].verdict)]
            /\ ledger'[verify[v].push].target =
                  [ledger[verify[v].push].target EXCEPT ![verify[v].ip] = verify[v].verdict]
        BY <2>1, <2>4, <3>1, VerifyEffect
      <3>6. CASE verify[v].push # p
        BY <2>1, <3>5, <3>6 DEF LedgerType
      <3>7. CASE verify[v].push = p
        BY <3>3, <3>4, <3>5, <3>7
      <3> QED BY <3>6, <3>7
    <2> QED BY <1>3, <2>2, <2>3, <2>4, LedgerSteps
  <1>4. IndInv /\ NotYetRecorded /\ [Next]_vars =>
           [\A p \in Pushes : ledger[p] # None =>
              \A d \in DOMAIN ledger[p].target :
                  ledger[p].target[d] \in VerificationStates =>
                      ledger'[p].target[d] = ledger[p].target[d]]_vars
    BY <1>3
  <1> QED BY <1>1, <1>2, <1>4, RunInductive, PTL DEF Spec, VerificationFinal
================================================================================
