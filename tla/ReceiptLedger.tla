----------------------------- MODULE ReceiptLedger -----------------------------
(***************************************************************************)
(* What the receipt store promises its callers: one summary per receipt,   *)
(* created as an intent, replaced once by the mutation outcomes, and after *)
(* that changed only by verifications of targets whose import was          *)
(* accepted.  Every change is a single atomic step: a crash leaves the old *)
(* or the new summary, never a mixture.                                    *)
(***************************************************************************)
EXTENDS ReceiptData

CONSTANT NoReceipt
VARIABLE ledger

Init == ledger = [i \in Ids |-> NoReceipt]

Intend(i, T) ==
    /\ ledger[i] = NoReceipt
    /\ ledger' = [ledger EXCEPT ![i] = IntentReceipt(T)]

Finish(i, outcome) ==
    /\ ledger[i] # NoReceipt
    /\ ledger[i].run_state = "intent-recorded"
    /\ DOMAIN outcome = DOMAIN ledger[i].target
    /\ ledger' = [ledger EXCEPT ![i] = WithOutcomes(outcome)]

Verify(i, t, v) ==
    /\ ledger[i] # NoReceipt
    /\ t \in DOMAIN ledger[i].target
    /\ ledger[i].target[t] \in Updated
    /\ ledger' = [ledger EXCEPT ![i] = WithVerification(ledger[i], t, v)]

Next ==
    \E i \in Ids :
        \/ \E T \in SUBSET Targets : Intend(i, T)
        \/ \E T \in SUBSET Targets :
              \E outcome \in [T -> MutationStates] : Finish(i, outcome)
        \/ \E t \in Targets, v \in VerificationStates : Verify(i, t, v)

Spec == Init /\ [][Next]_ledger
================================================================================
