--------------------------- MODULE ReceiptDataProofs ---------------------------
(***************************************************************************)
(* Lemmas about receipts, used by the proofs about the store and about the *)
(* profile run.                                                            *)
(***************************************************************************)
EXTENDS ReceiptData, TLAPS

\* A receipt is a record of a run state and a target function.
LEMMA ReceiptParts ==
    ASSUME NEW r \in Receipt
    PROVE  /\ DOMAIN r.target \subseteq Targets
           /\ r.target \in [DOMAIN r.target -> TargetStates]
           /\ r.run_state \in RunStates
           /\ r = [run_state |-> r.run_state, target |-> r.target]
  <1>1. PICK T \in SUBSET Targets : r \in [run_state : RunStates, target : [T -> TargetStates]]
    BY DEF Receipt
  <1> QED BY <1>1

\* A record of a run state and a function from targets to states is a receipt.
LEMMA ReceiptIntro ==
    ASSUME NEW T \in SUBSET Targets, NEW f \in [T -> TargetStates], NEW s \in RunStates
    PROVE  [run_state |-> s, target |-> f] \in Receipt
  BY DEF Receipt

\* The three receipts the handlers build are receipts.
LEMMA IntentReceiptType ==
    ASSUME NEW T \in SUBSET Targets
    PROVE  IntentReceipt(T) \in Receipt
  <1>1. [t \in T |-> "intent"] \in [T -> TargetStates]
    BY DEF TargetStates
  <1>2. "intent-recorded" \in RunStates
    BY DEF RunStates
  <1> QED BY <1>1, <1>2, ReceiptIntro DEF IntentReceipt

LEMMA WithOutcomesType ==
    ASSUME NEW T \in SUBSET Targets, NEW f \in [T -> MutationStates]
    PROVE  WithOutcomes(f) \in Receipt
  <1>1. f \in [T -> TargetStates]
    BY DEF TargetStates
  <1>2. "mutation-finished" \in RunStates
    BY DEF RunStates
  <1> QED BY <1>1, <1>2, ReceiptIntro DEF WithOutcomes

LEMMA WithVerificationType ==
    ASSUME NEW r \in Receipt, NEW t \in DOMAIN r.target, NEW v \in VerificationStates
    PROVE  WithVerification(r, t, v) \in Receipt
  <1>1. v \in TargetStates
    BY DEF TargetStates
  <1>2. [r.target EXCEPT ![t] = v] \in [DOMAIN r.target -> TargetStates]
    BY <1>1, ReceiptParts
  <1>3. "verification-recorded" \in RunStates
    BY DEF RunStates
  <1>4. DOMAIN r.target \in SUBSET Targets
    BY ReceiptParts
  <1> QED BY <1>2, <1>3, <1>4, ReceiptIntro DEF WithVerification
================================================================================
