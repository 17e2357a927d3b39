------------------------------ MODULE ReceiptData ------------------------------
(***************************************************************************)
(* The redacted profile-run receipt, shared by the store that persists it  *)
(* (RunReceipts), by the ledger it promises (ReceiptLedger) and by the     *)
(* handlers that fill it in (ProfileRun).                                  *)
(*                                                                         *)
(* A receipt lists the targets of one profile write.  The three fields the *)
(* code keeps per target ("mutation", "verification", "risk_state") only   *)
(* occur in the seven combinations of TargetStates, so one value stands    *)
(* for all three.                                                          *)
(***************************************************************************)
CONSTANTS Ids,      \* receipt identities (uuid4: never issued twice)
          Targets   \* device addresses a receipt may list

RunStates == {"intent-recorded", "mutation-finished", "verification-recorded"}

\* mutation.status/reason_code of a finished import: "updated" is an accepted
\* import, "unknown" is mutation-response-unknown, "failed" is login-failed or
\* device-rejected.
MutationStates == {"updated", "unknown", "failed"}

VerificationStates == {"verified", "mismatch", "unavailable"}

TargetStates == {"intent"} \cup MutationStates \cup VerificationStates

\* mutation.status is "updated" in all of these
Updated == {"updated"} \cup VerificationStates

Receipt == UNION { [run_state : RunStates, target : [T -> TargetStates]] :
                       T \in SUBSET Targets }

IntentReceipt(T) ==
    [run_state |-> "intent-recorded", target |-> [t \in T |-> "intent"]]

\* {**receipt, "run_state": "mutation-finished", "targets": targets}
WithOutcomes(outcome) ==
    [run_state |-> "mutation-finished", target |-> outcome]

\* risk_state: what the receipt tells an operator about a target
Risk(state) ==
    CASE state = "updated"  -> "verification-pending"
      [] state = "verified" -> "verified"
      [] state = "failed"   -> "no-device-effect-confirmed"
      [] OTHER              -> "uncertain-high-risk"

\* Mutant: the risk is stored where the verification status belongs.
WithVerification_RiskOnly(r, t, v) ==
    [run_state |-> "verification-recorded", target |-> [r.target EXCEPT ![t] = Risk(v)]]

WithVerification(r, t, v) ==
    [run_state |-> "verification-recorded", target |-> [r.target EXCEPT ![t] = v]]
================================================================================
