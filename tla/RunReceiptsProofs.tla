--------------------------- MODULE RunReceiptsProofs ---------------------------
(***************************************************************************)
(* Theorems about RunReceipts, for every set of receipts and targets and   *)
(* every capacity: its type invariant, the records and the bytes kept free *)
(* for terminal events, the durability of a granted intent, that the       *)
(* summaries implement ReceiptLedger, follow the journal and only go       *)
(* forward, and which events are refused as too long.                      *)
(***************************************************************************)
EXTENDS RunReceipts, ReceiptDataProofs, SumProofs, TLAPS, FiniteSetTheorems

--------------------------------------------------------------------------------
(* Lemmas about the data                                                       *)

\* A fresh intent marks every target as intended, nothing more.
LEMMA IntentIsIntentOnly ==
    ASSUME NEW T \in SUBSET Targets
    PROVE  IntentReceipt(T) \in Receipt /\ IntentOnly(IntentReceipt(T))
  BY IntentReceiptType DEF IntentReceipt, IntentOnly

\* An append adds at most one line.
LEMMA AppendedType ==
    ASSUME journal \in Seq(Line), NEW e \in Entry, NEW b \in BOOLEAN
    PROVE  /\ Appended(e, b) \in Seq(Line)
           /\ Len(Appended(e, b)) \in Nat
           /\ Len(Appended(e, b)) <= Len(journal) + 1
  <1>1. CASE journal # <<>> /\ ~journal[Len(journal)].ended
    <2> DEFINE n == Len(journal)
               line == [entries |-> Append(journal[n].entries, e), ended |-> b]
    <2>1. n \in 1..Len(journal)
      BY <1>1
    <2>2. journal[n] \in Line
      BY <2>1
    <2>3. line \in Line
      BY <2>2 DEF Line
    <2>4. Appended(e, b) = [journal EXCEPT ![n] = line]
      BY <1>1 DEF Appended
    <2>5. [journal EXCEPT ![n] = line] \in Seq(Line) /\ Len([journal EXCEPT ![n] = line]) = n
      BY <2>1, <2>3
    <2> QED BY <2>4, <2>5
  <1>2. CASE ~(journal # <<>> /\ ~journal[Len(journal)].ended)
    <2>1. Appended(e, b) = Append(journal, [entries |-> <<e>>, ended |-> b])
      BY <1>2 DEF Appended
    <2>2. [entries |-> <<e>>, ended |-> b] \in Line
      BY DEF Line
    <2> QED BY <2>1, <2>2
  <1> QED BY <1>1, <1>2

--------------------------------------------------------------------------------
(* Type correctness                                                            *)

\* The event a call writes is an entry.
LEMMA EventType ==
    ASSUME TypeOK, op \in Call
    PROVE  /\ WholeEvent \in Seq(Line) /\ TornEvent \in Seq(Line)
           /\ Len(WholeEvent) \in Nat /\ Len(WholeEvent) <= Len(journal) + 1
           /\ Len(TornEvent) \in Nat /\ Len(TornEvent) <= Len(journal) + 1
  <1>1. op.id \in Ids /\ op.new \in Receipt
    BY DEF Call
  <1>2. /\ [id |-> op.id, receipt |-> op.new, whole |-> TRUE] \in Entry
        /\ [id |-> op.id, receipt |-> op.new, whole |-> FALSE] \in Entry
    BY <1>1 DEF Entry
  <1>3. journal \in Seq(Line)
    BY DEF TypeOK
  <1> QED BY <1>2, <1>3, AppendedType DEF WholeEvent, TornEvent

\* A call that is not idle is a Call.
LEMMA CallType ==
    ASSUME TypeOK, op.stage # "idle"
    PROVE  op \in Call /\ op.id \in Ids /\ op.new \in Receipt
  <1>1. op \in Call
    BY DEF TypeOK, Idle
  <1> QED BY <1>1 DEF Call

\* Whatever an interrupted step leaves on disk is well-formed.
LEMMA InterruptedType ==
    ASSUME TypeOK, Interrupted
    PROVE  /\ op \in Call
           /\ journal' \in Seq(Line) /\ Len(journal') \in Nat
           /\ current' \in [Ids -> Receipt \cup {NoFile}]
           /\ reservations' \subseteq Ids
  <1>1. op.stage # "idle"
    BY DEF Interrupted
  <1>2. op \in Call /\ op.id \in Ids /\ op.new \in Receipt
    BY <1>1, CallType
  <1>3. journal \in Seq(Line) /\ current \in [Ids -> Receipt \cup {NoFile}] /\ reservations \subseteq Ids
    BY DEF TypeOK
  <1>4. SummaryReplaced \in [Ids -> Receipt \cup {NoFile}]
    BY <1>2, <1>3 DEF SummaryReplaced
  <1>5. CASE op.stage = "append"
    BY <1>2, <1>3, <1>5, EventType DEF Interrupted
  <1>6. CASE op.stage = "summary"
    BY <1>2, <1>3, <1>4, <1>6 DEF Interrupted
  <1>7. CASE op.stage = "reserve"
    BY <1>2, <1>3, <1>7 DEF Interrupted
  <1>8. CASE op.stage = "consume"
    BY <1>2, <1>3, <1>8 DEF Interrupted
  <1> QED BY <1>5, <1>6, <1>7, <1>8 DEF Interrupted

LEMMA TypeInit == Init => TypeOK
  BY FaultAssumption DEF Init, TypeOK

\* Every step of the store keeps the state well typed.
LEMMA TypeStep == TypeOK /\ [Next]_vars => TypeOK'
  <1> SUFFICES ASSUME TypeOK, [Next]_vars PROVE TypeOK'
    OBVIOUS
  <1> USE DEF TypeOK
  <1>1. ASSUME NEW i \in Ids, NEW T \in SUBSET Targets \ {{}}, ReserveAndRecordIntent(i, T)
        PROVE  TypeOK'
    <2>1. IntentReceipt(T) \in Receipt
      BY IntentReceiptType
    <2>2. op' \in Call
      BY <1>1, <2>1 DEF ReserveAndRecordIntent, Call
    <2> QED BY <1>1, <2>2 DEF ReserveAndRecordIntent, disk
  <1>2. ASSUME NEW i \in Ids, NEW T \in SUBSET Targets, NEW outcome \in [T -> MutationStates],
               RecordMutationOutcomes(i, outcome)
        PROVE  TypeOK'
    <2>1. WithOutcomes(outcome) \in Receipt
      BY WithOutcomesType
    <2>2. op' \in Call
      BY <1>2, <2>1 DEF RecordMutationOutcomes, Call
    <2> QED BY <1>2, <2>2 DEF RecordMutationOutcomes, disk
  <1>3. ASSUME NEW i \in Ids, NEW t \in Targets, NEW v \in VerificationStates,
               RecordVerificationOutcome(i, t, v)
        PROVE  TypeOK'
    <2>1. current[i] \in Receipt
      BY <1>3 DEF RecordVerificationOutcome
    <2>2. WithVerification(current[i], t, v) \in Receipt
      BY <1>3, <2>1, WithVerificationType DEF RecordVerificationOutcome
    <2>3. op' \in Call
      BY <1>3, <2>2 DEF RecordVerificationOutcome, Call
    <2> QED BY <1>3, <2>3 DEF RecordVerificationOutcome, disk
  <1>4. CASE AppendEvent
    <2>1. op \in Call
      BY <1>4, CallType DEF AppendEvent
    <2>2. op' \in Call
      BY <1>4, <2>1 DEF AppendEvent, Call
    <2> QED BY <1>4, <2>1, <2>2, EventType DEF AppendEvent
  <1>5. CASE RefuseOversizedEvent
    BY <1>5 DEF RefuseOversizedEvent, disk
  <1>6. CASE WriteCurrent
    <2>1. op \in Call /\ op.id \in Ids /\ op.new \in Receipt
      BY <1>6, CallType DEF WriteCurrent
    <2>2. op' \in Call \cup {Idle}
      BY <1>6, <2>1 DEF WriteCurrent, AfterSummary, Call
    <2>3. current' \in [Ids -> Receipt \cup {NoFile}]
      BY <1>6, <2>1 DEF WriteCurrent, SummaryReplaced
    <2> QED BY <1>6, <2>2, <2>3 DEF WriteCurrent
  <1>7. CASE WriteCurrentBlocked
    BY <1>7 DEF WriteCurrentBlocked, disk
  <1>8. CASE WriteReservation
    <2>1. op.id \in Ids
      BY <1>8, CallType DEF WriteReservation
    <2> QED BY <1>8, <2>1 DEF WriteReservation
  <1>9. CASE ConsumeReservation
    BY <1>9 DEF ConsumeReservation
  <1>10. CASE IOError
    <2>1. faults' \in 0..MaxFaults
      BY <1>10, FaultAssumption DEF IOError
    <2> QED BY <1>10, <2>1, InterruptedType DEF IOError
  <1>11. CASE Crash
    <2>1. faults' \in 0..MaxFaults
      BY <1>11, FaultAssumption DEF Crash
    <2>2. /\ journal' \in Seq(Line)
          /\ current' \in [Ids -> Receipt \cup {NoFile}]
          /\ reservations' \subseteq Ids
      BY <1>11, InterruptedType DEF Crash, disk
    <2>3. leftovers' \subseteq Temp
      <3>1. ASSUME op.stage \in {"summary", "reserve"}, NEW d \in {"current", "reservations"}
            PROVE  TempFile(d) \in Temp
        BY <3>1, CallType DEF TempFile, Temp
      <3> QED BY <1>11, <3>1 DEF Crash
    <2> QED BY <1>11, <2>1, <2>2, <2>3 DEF Crash
  <1>12. CASE UNCHANGED vars
    BY <1>12 DEF vars
  <1> QED BY <1>1, <1>2, <1>3, <1>4, <1>5, <1>6, <1>7, <1>8, <1>9, <1>10, <1>11, <1>12 DEF Next

\* The store's state keeps its type whatever the order of calls, I/O errors
\* and crashes.
THEOREM TypeCorrect == Spec => []TypeOK
  BY TypeInit, TypeStep, PTL DEF Spec

--------------------------------------------------------------------------------
(* The inductive invariant                                                     *)

\* An interrupted step keeps every reservation but the one it may consume, adds
\* at most the line it owes, and may only touch the summary of its own receipt.
LEMMA InterruptedEffect ==
    ASSUME RecordsInv, Interrupted
    PROVE  /\ IsFiniteSet(reservations')
           /\ granted \subseteq reservations'
           /\ Len(journal') + Cardinality(granted) <= MaxRecords
           /\ \A i \in Ids : current'[i] = current[i] \/ i = op.id
           /\ op.id \in issued \ granted
  <1> USE DEF RecordsInv
  <1>1. TypeOK /\ op \in Call /\ op.id \in Ids /\ op.stage # "idle"
    BY CallType DEF Interrupted
  <1>2. op.id \in issued \ granted
    BY <1>1 DEF CallOK
  <1>3. journal \in Seq(Line) /\ Len(journal) \in Nat /\ Cardinality(granted) \in Nat /\ MaxRecords \in Nat
    BY <1>1, LimitAssumption, FS_Subset, FS_CardinalityType DEF TypeOK
  <1>4. CASE op.stage = "append"
    <2>1. RecordsDue \in {1, 2}
      BY <1>4 DEF RecordsDue
    <2>2. Len(journal') \in Nat /\ Len(journal') <= Len(journal) + 1
      BY <1>1, <1>3, <1>4, EventType DEF Interrupted
    <2> QED BY <1>2, <1>3, <1>4, <2>1, <2>2 DEF Interrupted
  <1>5. CASE op.stage = "summary"
    <2>1. RecordsDue \in {0, 1}
      BY <1>5 DEF RecordsDue
    <2>2. \A i \in Ids : SummaryReplaced[i] = current[i] \/ i = op.id
      BY <1>1 DEF SummaryReplaced, TypeOK
    <2> QED BY <1>2, <1>3, <1>5, <2>1, <2>2 DEF Interrupted
  <1>6. CASE op.stage = "reserve"
    <2>1. RecordsDue \in {0, 1}
      BY <1>6 DEF RecordsDue
    <2>2. IsFiniteSet(reservations \cup {op.id})
      BY FS_AddElement
    <2>3. IsFiniteSet(reservations') /\ granted \subseteq reservations'
      <3>1. CASE reservations' = reservations
        BY <3>1
      <3>2. CASE reservations' = reservations \cup {op.id}
        BY <2>2, <3>2
      <3> QED BY <1>6, <3>1, <3>2 DEF Interrupted
    <2>4. UNCHANGED <<journal, current>>
      BY <1>6 DEF Interrupted
    <2> QED BY <1>2, <1>3, <2>1, <2>3, <2>4
  <1>7. CASE op.stage = "consume"
    <2>1. RecordsDue = 0
      BY <1>7 DEF RecordsDue
    <2>2. IsFiniteSet(reservations \ {op.id})
      BY FS_RemoveElement
    <2>3. IsFiniteSet(reservations') /\ granted \subseteq reservations'
      <3>1. CASE reservations' = reservations
        BY <3>1
      <3>2. CASE reservations' = reservations \ {op.id}
        BY <1>2, <2>2, <3>2
      <3> QED BY <1>7, <3>1, <3>2 DEF Interrupted
    <2>4. UNCHANGED <<journal, current>>
      BY <1>7 DEF Interrupted
    <2> QED BY <1>2, <1>3, <2>1, <2>3, <2>4
  <1> QED BY <1>4, <1>5, <1>6, <1>7 DEF Interrupted

LEMMA RecordsInit == Init => RecordsInv
  <1> SUFFICES ASSUME Init PROVE RecordsInv
    OBVIOUS
  <1>1. TypeOK
    BY TypeInit
  <1>2. CallOK
    BY DEF Init, Idle, CallOK
  <1>3. RecordsDue = 0
    BY DEF Init, Idle, RecordsDue
  <1>4. IsFiniteSet(reservations) /\ Cardinality(granted) = 0
    BY FS_EmptySet DEF Init
  <1> QED BY <1>1, <1>2, <1>3, <1>4, LimitAssumption DEF Init, RecordsInv

\* Every step of the store preserves the inductive invariant.
LEMMA RecordsStep == RecordsInv /\ [Next]_vars => RecordsInv'
  <1> SUFFICES ASSUME RecordsInv, [Next]_vars PROVE RecordsInv'
    OBVIOUS
  <1> USE DEF RecordsInv
  <1>a. TypeOK /\ TypeOK'
    BY TypeStep
  <1>b. IsFiniteSet(granted) /\ Cardinality(granted) \in Nat /\ Cardinality(granted) <= Cardinality(reservations)
    BY FS_Subset, FS_CardinalityType
  <1>c. Len(journal) \in Nat /\ MaxRecords \in Nat /\ Cardinality(reservations) \in Nat
    BY <1>a, LimitAssumption, FS_CardinalityType DEF TypeOK
  <1>1. ASSUME NEW i \in Ids, NEW T \in SUBSET Targets \ {{}}, ReserveAndRecordIntent(i, T)
        PROVE  RecordsInv'
    <2>1. CallOK'
      BY <1>1, IntentIsIntentOnly DEF ReserveAndRecordIntent, disk, CallOK
    <2>2. RecordsDue' = 2
      BY <1>1 DEF ReserveAndRecordIntent, RecordsDue
    <2>3. Len(journal) + Cardinality(reservations) + 2 <= MaxRecords
      BY <1>1 DEF ReserveAndRecordIntent, EnsureReservation
    <2>4. (Len(journal) + Cardinality(granted) + RecordsDue)' <= MaxRecords
      BY <1>1, <1>b, <1>c, <2>2, <2>3 DEF ReserveAndRecordIntent, disk
    <2> QED BY <1>a, <1>1, <2>1, <2>4 DEF ReserveAndRecordIntent, disk
  <1>2. ASSUME NEW i \in Ids, NEW T \in SUBSET Targets, NEW outcome \in [T -> MutationStates],
               RecordMutationOutcomes(i, outcome)
        PROVE  RecordsInv'
    <2>1. CallOK'
      <3>1. op'.id = i /\ op'.call = "outcomes" /\ op'.stage = "append" /\ op'.new = WithOutcomes(outcome)
        BY <1>2 DEF RecordMutationOutcomes
      <3>2. current[i] # NoFile /\ current[i].run_state = "intent-recorded"
        BY <1>2 DEF RecordMutationOutcomes, IntentOnly
      <3>3. /\ op'.new.target = outcome
            /\ DOMAIN outcome = DOMAIN current[i].target
            /\ \A t \in DOMAIN outcome : outcome[t] \in MutationStates
        BY <1>2, <3>1 DEF RecordMutationOutcomes, WithOutcomes
      <3>4. i \in (issued \ granted)'
        BY <1>2 DEF RecordMutationOutcomes
      <3>5. current' = current
        BY <1>2 DEF RecordMutationOutcomes, disk
      <3> QED BY <3>1, <3>2, <3>3, <3>4, <3>5 DEF CallOK
    <2>2. RecordsDue' = 1
      BY <1>2 DEF RecordMutationOutcomes, RecordsDue
    <2>3. Cardinality(granted \ {i}) = Cardinality(granted) - 1
      BY <1>2, <1>b, FS_RemoveElement DEF RecordMutationOutcomes
    <2>4. RecordsDue = 0
      BY <1>2 DEF RecordMutationOutcomes, RecordsDue, Idle
    <2>5. (Len(journal) + Cardinality(granted) + RecordsDue)' <= MaxRecords
      BY <1>2, <1>b, <1>c, <2>2, <2>3, <2>4 DEF RecordMutationOutcomes, disk
    <2> QED BY <1>a, <1>2, <2>1, <2>5 DEF RecordMutationOutcomes, disk
  <1>3. ASSUME NEW i \in Ids, NEW t \in Targets, NEW v \in VerificationStates,
               RecordVerificationOutcome(i, t, v)
        PROVE  RecordsInv'
    <2>1. i \in issued \ granted
      BY <1>3 DEF RecordVerificationOutcome, IntentOnly, Updated, VerificationStates
    <2>2. CallOK'
      BY <1>3, <2>1 DEF RecordVerificationOutcome, disk, CallOK
    <2>3. RecordsDue' = 1
      BY <1>3 DEF RecordVerificationOutcome, RecordsDue
    <2>4. Len(journal) + Cardinality(reservations) + 1 <= MaxRecords
      BY <1>3 DEF RecordVerificationOutcome, EnsureReservation
    <2>5. (Len(journal) + Cardinality(granted) + RecordsDue)' <= MaxRecords
      BY <1>3, <1>b, <1>c, <2>3, <2>4 DEF RecordVerificationOutcome, disk
    <2> QED BY <1>a, <1>3, <2>2, <2>5 DEF RecordVerificationOutcome, disk
  <1>4. CASE AppendEvent
    <2>1. op \in Call
      BY <1>4, <1>a, CallType DEF AppendEvent
    <2>2. op' \in Call /\ op'.call = op.call /\ op'.id = op.id /\ op'.new = op.new /\ op'.stage = "summary"
      BY <1>4, <2>1 DEF AppendEvent, Call
    <2>3. CallOK'
      BY <1>4, <2>2 DEF AppendEvent, CallOK
    <2>4. Len(journal') \in Nat /\ Len(journal') <= Len(journal) + 1
      BY <1>4, <1>a, <2>1, EventType DEF AppendEvent
    <2>5. RecordsDue \in Nat /\ RecordsDue' = RecordsDue - 1
      BY <1>4, <2>1, <2>2 DEF AppendEvent, RecordsDue, Call
    <2>6. (Len(journal) + Cardinality(granted) + RecordsDue)' <= MaxRecords
      BY <1>4, <1>b, <1>c, <2>4, <2>5 DEF AppendEvent
    <2> QED BY <1>a, <1>4, <2>3, <2>6 DEF AppendEvent
  <1>5. ASSUME op' = Idle, UNCHANGED <<journal, granted, issued>>,
               IsFiniteSet(reservations'), granted \subseteq reservations',
               \A i \in Ids : current'[i] = current[i] \/ i \in issued \ granted
        PROVE  RecordsInv'
    <2>1. CallOK' /\ RecordsDue' = 0
      BY <1>5 DEF CallOK, RecordsDue, Idle
    <2>2. RecordsDue \in Nat
      BY DEF RecordsDue
    <2>3. \A i \in granted : i \in Ids
      BY <1>a DEF TypeOK
    <2> QED BY <1>a, <1>b, <1>c, <1>5, <2>1, <2>2, <2>3
  <1>6. CASE RefuseOversizedEvent \/ WriteCurrentBlocked
    BY <1>5, <1>6 DEF RefuseOversizedEvent, WriteCurrentBlocked, disk
  <1>7. CASE WriteCurrent
    <2>1. op \in Call /\ op.id \in Ids
      BY <1>7, <1>a, CallType DEF WriteCurrent
    <2>2. op.id \in issued \ granted
      BY <1>7 DEF WriteCurrent, CallOK
    <2>3. /\ current'[op.id] = op.new
          /\ \A i \in Ids : current'[i] = current[i] \/ i = op.id
      BY <1>7, <1>a, <2>1 DEF WriteCurrent, SummaryReplaced, TypeOK
    <2>4. CASE op.call = "verification"
      BY <1>7, <1>5, <2>2, <2>3, <2>4 DEF WriteCurrent, AfterSummary
    <2>5. CASE op.call # "verification"
      <3>1. /\ op'.call = op.call /\ op'.id = op.id /\ op'.new = op.new
            /\ op'.stage = IF op.call = "intent" THEN "reserve" ELSE "consume"
        BY <1>7, <2>1, <2>5 DEF WriteCurrent, AfterSummary, Call
      <3>2. CallOK'
        <4>1. op.call = "intent" \/ op.call = "outcomes"
          BY <2>1, <2>5 DEF Call
        <4> QED BY <1>7, <2>2, <2>3, <3>1, <4>1 DEF WriteCurrent, CallOK
      <3>3. RecordsDue \in Nat /\ RecordsDue' \in Nat /\ RecordsDue' <= RecordsDue
        BY <1>7, <2>5, <3>1 DEF WriteCurrent, RecordsDue
      <3>4. (Len(journal) + Cardinality(granted) + RecordsDue)' <= MaxRecords
        BY <1>7, <1>b, <1>c, <3>3 DEF WriteCurrent
      <3>5. \A i \in granted : i \in Ids
        BY <1>a DEF TypeOK
      <3> QED BY <1>a, <1>7, <2>2, <2>3, <3>2, <3>4, <3>5 DEF WriteCurrent
    <2> QED BY <2>4, <2>5
  <1>8. CASE WriteReservation
    <2>1. op \in Call /\ op.call = "intent" /\ op.id \in issued \ granted
      BY <1>8, <1>a, CallType DEF WriteReservation, CallOK
    <2>2. Cardinality(granted \cup {op.id}) = Cardinality(granted) + 1
      BY <1>b, <2>1, FS_AddElement
    <2>3. IsFiniteSet(reservations \cup {op.id})
      BY FS_AddElement
    <2>4. CallOK' /\ RecordsDue' = 0 /\ RecordsDue = 1
      BY <1>8, <2>1 DEF WriteReservation, CallOK, RecordsDue, Idle
    <2>5. (Len(journal) + Cardinality(granted) + RecordsDue)' <= MaxRecords
      BY <1>8, <1>b, <1>c, <2>2, <2>4 DEF WriteReservation
    <2>6. current[op.id] # NoFile /\ IntentOnly(current[op.id])
      BY <1>8, <2>1, NoFileAssumption DEF WriteReservation, CallOK, Call
    <2> QED BY <1>a, <1>8, <2>1, <2>3, <2>4, <2>5, <2>6 DEF WriteReservation
  <1>9. CASE ConsumeReservation
    <2>1. op.id \in issued \ granted
      BY <1>9 DEF ConsumeReservation, CallOK
    <2>2. IsFiniteSet(reservations \ {op.id})
      BY FS_RemoveElement
    <2> QED BY <1>5, <1>9, <2>1, <2>2 DEF ConsumeReservation
  <1>10. CASE IOError
    <2>1. /\ IsFiniteSet(reservations')
          /\ granted \subseteq reservations'
          /\ Len(journal') + Cardinality(granted) <= MaxRecords
          /\ \A i \in Ids : current'[i] = current[i] \/ i = op.id
          /\ op.id \in issued \ granted
      BY <1>10, InterruptedEffect DEF IOError
    <2>2. CallOK' /\ RecordsDue' = 0
      BY <1>10 DEF IOError, CallOK, RecordsDue, Idle
    <2>3. Len(journal') \in Nat
      BY <1>a DEF TypeOK
    <2>4. \A i \in granted : i \in Ids
      BY <1>a DEF TypeOK
    <2> QED BY <1>a, <1>b, <1>10, <2>1, <2>2, <2>3, <2>4 DEF IOError
  <1>11. CASE Crash
    <2>1. /\ IsFiniteSet(reservations')
          /\ Len(journal') \in Nat /\ Len(journal') <= MaxRecords
          /\ \A i \in Ids : current'[i] = current[i] \/ i \in issued
      <3>1. CASE Interrupted
        BY <1>a, <1>b, <1>c, <3>1, InterruptedEffect DEF TypeOK
      <3>2. CASE UNCHANGED disk
        <4>1. RecordsDue \in Nat
          BY DEF RecordsDue
        <4> QED BY <1>b, <1>c, <3>2, <4>1 DEF disk
      <3> QED BY <1>11, <3>1, <3>2 DEF Crash
    <2>2. CallOK' /\ RecordsDue' = 0
      BY <1>11 DEF Crash, CallOK, RecordsDue, Idle
    <2>3. Cardinality(granted') = 0
      BY <1>11, FS_EmptySet DEF Crash
    <2> QED BY <1>a, <1>c, <1>11, <2>1, <2>2, <2>3 DEF Crash
  <1>12. CASE UNCHANGED vars
    BY <1>a, <1>12 DEF vars, CallOK, RecordsDue
  <1> QED BY <1>1, <1>2, <1>3, <1>4, <1>6, <1>7, <1>8, <1>9, <1>10, <1>11, <1>12 DEF Next

\* The inductive invariant holds in every reachable state.
THEOREM RecordsInductive == Spec => []RecordsInv
  BY RecordsInit, RecordsStep, PTL DEF Spec

--------------------------------------------------------------------------------
(* What it implies                                                             *)

\* A push that has been granted its receipt always finds room in the journal
\* for its terminal event, and the journal never exceeds its limit.
THEOREM JournalRoom == Spec => []JournalRoomKept
  <1>1. ASSUME RecordsInv PROVE JournalRoomKept
    <2>1. RecordsDue \in Nat /\ Len(journal) \in Nat /\ MaxRecords \in Nat
      BY <1>1, LimitAssumption DEF RecordsInv, TypeOK, RecordsDue
    <2>2. Cardinality(granted) \in Nat
      BY <1>1, FS_Subset, FS_CardinalityType DEF RecordsInv
    <2> QED BY <1>1, <2>1, <2>2 DEF RecordsInv, JournalRoomKept
  <1> QED BY <1>1, RecordsInductive, PTL

\* While a push may touch devices, its reservation and its all-uncertain
\* summary are on disk: a crash at any point leaves them for the operator.
THEOREM DurableIntent == Spec => []GrantedIsDurable
  <1>1. ASSUME RecordsInv PROVE GrantedIsDurable
    BY <1>1 DEF RecordsInv, GrantedIsDurable, IntentOnly, Risk
  <1> QED BY <1>1, RecordsInductive, PTL

\* A store step either leaves the summaries alone or replaces the one the call
\* in progress is about.
LEMMA SummaryStep ==
    ASSUME RecordsInv, [Next]_vars, current' # current
    PROVE  op.stage = "summary" /\ current' = SummaryReplaced
  BY DEF Next, vars, disk, ReserveAndRecordIntent, RecordMutationOutcomes,
         RecordVerificationOutcome, AppendEvent, RefuseOversizedEvent, WriteCurrent,
         WriteCurrentBlocked, WriteReservation, ConsumeReservation, IOError, Crash, Interrupted

\* The store implements ReceiptLedger: its summaries start empty, and every
\* step, interrupted ones included, is a ledger step or leaves them alone.
THEOREM Refinement == Spec => LedgerRefinement
  <1>1. Init => Ledger!Init
    BY DEF Init, Ledger!Init
  <1>2. ASSUME RecordsInv, [Next]_vars PROVE [Ledger!Next]_current
    <2> SUFFICES ASSUME current' # current PROVE Ledger!Next
      OBVIOUS
    <2>1. op.stage = "summary" /\ current' = [current EXCEPT ![op.id] = op.new]
      BY <1>2, SummaryStep DEF SummaryReplaced
    <2>2. op \in Call /\ op.id \in Ids /\ op.new \in Receipt
      BY <1>2, <2>1, CallType DEF RecordsInv
    <2>3. CallOK /\ current \in [Ids -> Receipt \cup {NoFile}]
      BY <1>2 DEF RecordsInv, TypeOK
    <2>4. CASE op.call = "intent"
      <3> DEFINE T == DOMAIN op.new.target
      <3>1. current[op.id] = NoFile /\ IntentOnly(op.new)
        BY <2>1, <2>3, <2>4 DEF CallOK
      <3>2. T \in SUBSET Targets /\ op.new.target \in [T -> TargetStates]
        BY <2>2, ReceiptParts
      <3>3. op.new.target = [t \in T |-> "intent"]
        BY <3>1, <3>2 DEF IntentOnly
      <3>4. op.new = IntentReceipt(T)
        BY <2>2, <3>1, <3>3, ReceiptParts DEF IntentOnly, IntentReceipt
      <3>5. Ledger!Intend(op.id, T)
        BY <2>1, <3>1, <3>4 DEF Ledger!Intend, Ledger!IntentReceipt, IntentReceipt
      <3> QED BY <2>2, <3>2, <3>5 DEF Ledger!Next
    <2>5. CASE op.call = "outcomes"
      <3> DEFINE f == op.new.target
      <3>1. /\ current[op.id] # NoFile
            /\ current[op.id].run_state = "intent-recorded"
            /\ DOMAIN f = DOMAIN current[op.id].target
            /\ op.new = WithOutcomes(f)
            /\ \A t \in DOMAIN f : f[t] \in MutationStates
        BY <2>1, <2>3, <2>5 DEF CallOK
      <3>2. DOMAIN f \in SUBSET Targets /\ f \in [DOMAIN f -> TargetStates]
        BY <2>2, ReceiptParts
      <3>3. f \in [DOMAIN f -> MutationStates]
        BY <3>1, <3>2
      <3>4. Ledger!Finish(op.id, f)
        BY <2>1, <3>1 DEF Ledger!Finish, Ledger!WithOutcomes, WithOutcomes
      <3> QED BY <2>2, <3>2, <3>3, <3>4 DEF Ledger!Next, Ledger!MutationStates, MutationStates
    <2>6. CASE op.call = "verification"
      <3>1. /\ current[op.id] # NoFile
            /\ \E t \in DOMAIN current[op.id].target, v \in VerificationStates :
                  /\ current[op.id].target[t] \in Updated
                  /\ op.new = WithVerification(current[op.id], t, v)
        BY <2>1, <2>3, <2>6 DEF CallOK
      <3>2. PICK t \in DOMAIN current[op.id].target, v \in VerificationStates :
                  /\ current[op.id].target[t] \in Updated
                  /\ op.new = WithVerification(current[op.id], t, v)
        BY <3>1
      <3>3. t \in Targets
        BY <2>2, <2>3, <3>1, <3>2, ReceiptParts
      <3>4. Ledger!Verify(op.id, t, v)
        BY <2>1, <3>1, <3>2 DEF Ledger!Verify, Ledger!WithVerification, WithVerification,
              Ledger!Updated, Updated, Ledger!VerificationStates, VerificationStates
      <3> QED BY <2>2, <3>2, <3>3, <3>4 DEF Ledger!Next, Ledger!VerificationStates, VerificationStates
    <2> QED BY <2>2, <2>4, <2>5, <2>6 DEF Call
  <1> QED BY <1>1, <1>2, RecordsInductive, PTL DEF Spec, LedgerRefinement, Ledger!Spec

--------------------------------------------------------------------------------
(* Receipts only go forward                                                    *)

\* Receipt s follows receipt r: the same targets, and each of them as it was,
\* with the outcome of its import, or with a verdict on an accepted import.
Follows(s, r) ==
    /\ DOMAIN s.target = DOMAIN r.target
    /\ \A t \in DOMAIN r.target :
          \/ s.target[t] = r.target[t]
          \/ r.target[t] = "intent" /\ s.target[t] \in MutationStates
          \/ r.target[t] \in Updated /\ s.target[t] \in VerificationStates

\* A receipt that is an intent to its run state is one in all of its targets.
IntentsOnly ==
    \A i \in Ids : current[i] # NoFile /\ current[i].run_state = "intent-recorded" =>
        IntentOnly(current[i])

\* The summary a call writes keeps intents what they are, and follows the one
\* it replaces.
LEMMA ForwardStep ==
    ASSUME RecordsInv, IntentsOnly, [Next]_vars
    PROVE  /\ IntentsOnly'
           /\ \A i \in Ids : current[i] # NoFile =>
                 current'[i] # NoFile /\ Follows(current'[i], current[i])
  <1>1. CASE UNCHANGED current
    BY <1>1 DEF IntentsOnly, IntentOnly, Follows
  <1>2. CASE current' # current
    <2>1. op.stage = "summary" /\ current' = [current EXCEPT ![op.id] = op.new]
      BY <1>2, SummaryStep DEF SummaryReplaced
    <2>2. /\ op \in Call /\ op.id \in Ids /\ op.new \in Receipt
          /\ current \in [Ids -> Receipt \cup {NoFile}] /\ CallOK
      BY <2>1, CallType DEF RecordsInv, TypeOK
    <2>3. current'[op.id] = op.new /\ op.new # NoFile
      BY <2>1, <2>2, NoFileAssumption
    <2>4. \A i \in Ids : i # op.id => current'[i] = current[i]
      BY <2>1, <2>2
    <2>5. CASE op.call = "intent"
      <3>1. current[op.id] = NoFile /\ IntentOnly(op.new)
        BY <2>1, <2>2, <2>5 DEF CallOK
      <3> QED BY <2>3, <2>4, <3>1 DEF IntentsOnly, IntentOnly, Follows
    <2>6. CASE op.call = "outcomes"
      <3>1. /\ current[op.id] # NoFile /\ current[op.id].run_state = "intent-recorded"
            /\ DOMAIN op.new.target = DOMAIN current[op.id].target
            /\ op.new = WithOutcomes(op.new.target)
            /\ \A t \in DOMAIN op.new.target : op.new.target[t] \in MutationStates
        BY <2>1, <2>2, <2>6 DEF CallOK
      <3>2. \A t \in DOMAIN current[op.id].target : current[op.id].target[t] = "intent"
        BY <2>2, <3>1 DEF IntentsOnly, IntentOnly
      <3>3. op.new.run_state = "mutation-finished"
        BY <3>1 DEF WithOutcomes
      <3> QED BY <2>2, <2>3, <2>4, <3>1, <3>2, <3>3 DEF IntentsOnly, IntentOnly, Follows
    <2>7. CASE op.call = "verification"
      <3>1. PICK t \in DOMAIN current[op.id].target, v \in VerificationStates :
                  /\ current[op.id] # NoFile
                  /\ current[op.id].target[t] \in Updated
                  /\ op.new = WithVerification(current[op.id], t, v)
        BY <2>1, <2>2, <2>7 DEF CallOK
      <3>2. current[op.id].target \in [DOMAIN current[op.id].target -> TargetStates]
        BY <2>2, <3>1, ReceiptParts
      <3>3. /\ op.new.run_state = "verification-recorded"
            /\ op.new.target = [current[op.id].target EXCEPT ![t] = v]
        BY <3>1 DEF WithVerification
      <3>4. Follows(op.new, current[op.id])
        BY <3>1, <3>2, <3>3 DEF Follows
      <3> QED BY <2>2, <2>3, <2>4, <3>3, <3>4 DEF IntentsOnly, IntentOnly, Follows
    <2> QED BY <2>2, <2>5, <2>6, <2>7 DEF Call
  <1> QED BY <1>1, <1>2

\* No step loses a summary or takes one back: a target is only ever moved from
\* intent to the outcome of its import, and from an accepted import to a
\* verdict; a failed or unknown import keeps that state for good.  Torn
\* appends, abandoned temporaries, errors and crashes make no exception.
THEOREM ReceiptsForward ==
    Spec => [][\A i \in Ids : current[i] # NoFile =>
                  current'[i] # NoFile /\ Follows(current'[i], current[i])]_vars
  <1>1. Init => IntentsOnly
    BY DEF Init, IntentsOnly
  <1>2. RecordsInv /\ IntentsOnly /\ [Next]_vars => IntentsOnly'
    BY ForwardStep
  <1>3. RecordsInv /\ IntentsOnly /\ [Next]_vars =>
           [\A i \in Ids : current[i] # NoFile =>
               current'[i] # NoFile /\ Follows(current'[i], current[i])]_vars
    BY ForwardStep
  <1> QED BY <1>1, <1>2, <1>3, RecordsInductive, PTL DEF Spec

--------------------------------------------------------------------------------
(* Whom an abandoned temporary blocks                                          *)

\* A temporary is left behind for a receipt that no running push owns, now or
\* once the intent or the outcomes under way are recorded.
Unblocked ==
    /\ \A temp \in leftovers : temp.id \in issued \ granted
    /\ op.stage # "idle" /\ op.call # "verification" =>
          \A temp \in leftovers : temp.id # op.id

\* A crash abandons the temporaries together with the pushes; and no receipt is
\* issued twice.
LEMMA UnblockedStep == RecordsInv /\ Unblocked /\ [Next]_vars => Unblocked'
  <1> SUFFICES ASSUME RecordsInv, Unblocked, [Next]_vars PROVE Unblocked'
    OBVIOUS
  <1>1. /\ op \in Call \cup {Idle} /\ CallOK
        /\ granted \subseteq issued
    BY DEF RecordsInv, TypeOK
  <1>2. ASSUME NEW i \in Ids, NEW T \in SUBSET Targets \ {{}}, ReserveAndRecordIntent(i, T)
        PROVE  Unblocked'
    BY <1>2 DEF ReserveAndRecordIntent, Unblocked
  <1>3. ASSUME NEW i \in Ids, NEW outcome, RecordMutationOutcomes(i, outcome)
        PROVE  Unblocked'
    BY <1>3 DEF RecordMutationOutcomes, Unblocked
  <1>4. ASSUME NEW i \in Ids, NEW t \in Targets, NEW v \in VerificationStates,
               RecordVerificationOutcome(i, t, v)
        PROVE  Unblocked'
    BY <1>4 DEF RecordVerificationOutcome, Unblocked
  <1>5. CASE AppendEvent
    <2>1. op' = [op EXCEPT !.stage = "summary"] /\ op \in Call
      BY <1>5, CallType DEF AppendEvent, RecordsInv
    <2>2. op'.call = op.call /\ op'.id = op.id /\ op.stage # "idle"
      BY <1>5, <2>1 DEF Call, AppendEvent
    <2> QED BY <1>5, <2>2 DEF AppendEvent, Unblocked
  <1>6. CASE WriteCurrent
    <2>1. op \in Call /\ op.stage # "idle"
      BY <1>6, CallType DEF WriteCurrent, RecordsInv
    <2>2. op' = Idle \/ (op'.call = op.call /\ op'.id = op.id)
      BY <1>6, <2>1 DEF WriteCurrent, AfterSummary, Call
    <2> QED BY <1>6, <2>1, <2>2 DEF WriteCurrent, Unblocked, Idle
  <1>7. CASE WriteReservation
    <2>1. op.call = "intent" /\ op' = Idle
      BY <1>1, <1>7 DEF WriteReservation, CallOK
    <2>2. \A temp \in leftovers : temp.id # op.id
      BY <1>7, <2>1 DEF WriteReservation, Unblocked
    <2> QED BY <1>7, <2>1, <2>2 DEF WriteReservation, Unblocked, Idle
  <1>8. CASE RefuseOversizedEvent \/ WriteCurrentBlocked \/ ConsumeReservation \/ IOError
    <2>1. op' = Idle /\ UNCHANGED <<leftovers, issued, granted>>
      BY <1>8 DEF RefuseOversizedEvent, WriteCurrentBlocked, ConsumeReservation, IOError
    <2> QED BY <2>1 DEF Unblocked, Idle
  <1>9. CASE Crash
    <2>1. op' = Idle /\ granted' = {} /\ issued' = issued
      BY <1>9 DEF Crash
    <2>2. \A temp \in leftovers' : temp \in leftovers \/ (temp.id = op.id /\ op.stage # "idle")
      BY <1>9 DEF Crash, TempFile
    <2>3. \A temp \in leftovers' : temp.id \in issued
      BY <1>1, <2>2 DEF Unblocked, CallOK
    <2> QED BY <2>1, <2>3 DEF Unblocked, Idle
  <1>10. CASE UNCHANGED vars
    BY <1>10 DEF vars, Unblocked
  <1> QED BY <1>2, <1>3, <1>4, <1>5, <1>6, <1>7, <1>8, <1>9, <1>10 DEF Next

\* A temporary that a crash left behind keeps a verification from its summary,
\* never the intent or the outcomes of a running push: those summaries are only
\* missed because of an error or a crash in their own call.
THEOREM BlocksVerificationsOnly ==
    Spec => [][WriteCurrentBlocked => op.call = "verification"]_vars
  <1>1. Init => Unblocked
    BY DEF Init, Unblocked, Idle
  <1>2. RecordsInv /\ Unblocked /\ [Next]_vars =>
           [WriteCurrentBlocked => op.call = "verification"]_vars
    BY DEF WriteCurrentBlocked, SummaryBlocked, Unblocked
  <1> QED BY <1>1, <1>2, UnblockedStep, RecordsInductive, PTL DEF Spec

--------------------------------------------------------------------------------
(* Write-ahead                                                                 *)

\* Summaries on disk are journalled, and so is the one a call is about to write.
Ahead ==
    /\ JournalAhead
    /\ op.stage = "summary" => Journalled(op.id, op.new)

\* What was journalled stays so when an event is appended, torn or not; and a
\* whole event is journalled, also on a line it shares with a torn one.
LEMMA AppendJournals ==
    ASSUME journal \in Seq(Line), NEW e \in Entry, NEW b \in BOOLEAN,
           journal' = Appended(e, b)
    PROVE  /\ \A i, r : Journalled(i, r) => Journalled(i, r)'
           /\ e.whole => Journalled(e.id, e.receipt)'
  <1> DEFINE n == Len(journal)
  <1>1. CASE journal # <<>> /\ ~journal[n].ended
    <2> DEFINE line == [entries |-> Append(journal[n].entries, e), ended |-> b]
    <2>1. n \in 1..n /\ DOMAIN journal = 1..n
      BY <1>1
    <2>2. journal[n] \in Line /\ journal[n].entries \in Seq(Entry)
      <3>1. journal[n] \in Line
        BY <2>1
      <3> QED BY <3>1 DEF Line
    <2>3. journal' = [journal EXCEPT ![n] = line]
      BY <1>1 DEF Appended
    <2>4. /\ DOMAIN journal' = 1..n
          /\ journal'[n].entries = Append(journal[n].entries, e)
          /\ \A k \in 1..n : k # n => journal'[k] = journal[k]
      <3>1. journal'[n] = line /\ \A k \in 1..n : k # n => journal'[k] = journal[k]
        BY <2>1, <2>3
      <3>2. DOMAIN journal' = 1..n
        BY <2>1, <2>3
      <3> QED BY <3>1, <3>2
    <2>5. DEFINE m == Len(journal[n].entries)
    <2>6. /\ DOMAIN journal[n].entries = 1..m
          /\ m + 1 \in DOMAIN journal'[n].entries
          /\ journal'[n].entries[m + 1] = e
          /\ \A j \in 1..m : /\ j \in DOMAIN journal'[n].entries
                            /\ journal'[n].entries[j] = journal[n].entries[j]
      BY <2>2, <2>4
    <2>7. ASSUME NEW i, NEW r, Journalled(i, r) PROVE Journalled(i, r)'
      <3>1. PICK k \in DOMAIN journal : \E j \in DOMAIN journal[k].entries :
                    journal[k].entries[j] = [id |-> i, receipt |-> r, whole |-> TRUE]
        BY <2>7 DEF Journalled
      <3>2. PICK j \in DOMAIN journal[k].entries :
                    journal[k].entries[j] = [id |-> i, receipt |-> r, whole |-> TRUE]
        BY <3>1
      <3>3. CASE k = n
        BY <2>1, <2>4, <2>6, <3>2, <3>3 DEF Journalled
      <3>4. CASE k # n
        BY <2>1, <2>4, <3>2, <3>4 DEF Journalled
      <3> QED BY <3>3, <3>4
    <2>8. ASSUME e.whole PROVE Journalled(e.id, e.receipt)'
      <3>1. e = [id |-> e.id, receipt |-> e.receipt, whole |-> TRUE]
        BY <2>8 DEF Entry
      <3> QED BY <2>1, <2>4, <2>6, <3>1 DEF Journalled
    <2> QED BY <2>7, <2>8
  <1>2. CASE ~(journal # <<>> /\ ~journal[n].ended)
    <2> DEFINE line == [entries |-> <<e>>, ended |-> b]
    <2>1. journal' = Append(journal, line)
      BY <1>2 DEF Appended
    <2>2. line \in Line
      BY DEF Line
    <2>3. /\ n + 1 \in DOMAIN journal' /\ journal'[n + 1] = line
          /\ \A k \in DOMAIN journal : k \in DOMAIN journal' /\ journal'[k] = journal[k]
      BY <2>1, <2>2
    <2>4. ASSUME NEW i, NEW r, Journalled(i, r) PROVE Journalled(i, r)'
      BY <2>3, <2>4 DEF Journalled
    <2>5. ASSUME e.whole PROVE Journalled(e.id, e.receipt)'
      <3>1. e = [id |-> e.id, receipt |-> e.receipt, whole |-> TRUE]
        BY <2>5 DEF Entry
      <3>2. 1 \in DOMAIN line.entries /\ line.entries[1] = e
        OBVIOUS
      <3> QED BY <2>3, <3>1, <3>2 DEF Journalled
    <2> QED BY <2>4, <2>5
  <1> QED BY <1>1, <1>2

\* The same of the two events a call may leave in the journal.
LEMMA EventJournals ==
    ASSUME TypeOK, op \in Call, journal' = WholeEvent \/ journal' = TornEvent
    PROVE  /\ \A i, r : Journalled(i, r) => Journalled(i, r)'
           /\ journal' = WholeEvent => \E k \in DOMAIN journal' :
                 \E n \in DOMAIN journal'[k].entries :
                    journal'[k].entries[n] = [id |-> op.id, receipt |-> op.new, whole |-> TRUE]
  <1> DEFINE w == [id |-> op.id, receipt |-> op.new, whole |-> TRUE]
             t == [id |-> op.id, receipt |-> op.new, whole |-> FALSE]
  <1>1. w \in Entry /\ t \in Entry /\ journal \in Seq(Line)
    BY DEF Call, Entry, TypeOK
  <1>2. CASE journal' = WholeEvent
    <2>1. PICK e \in Entry : e = w
      BY <1>1
    <2>2. journal' = Appended(e, TRUE)
      BY <1>2, <2>1 DEF WholeEvent
    <2>3. /\ \A i, r : Journalled(i, r) => Journalled(i, r)'
          /\ e.whole => Journalled(e.id, e.receipt)'
      BY <1>1, <2>2, AppendJournals
    <2>4. e.whole /\ e.id = op.id /\ e.receipt = op.new
      BY <2>1
    <2>5. \E k \in DOMAIN journal' : \E n \in DOMAIN journal'[k].entries :
             journal'[k].entries[n] = [id |-> e.id, receipt |-> e.receipt, whole |-> TRUE]
      BY <2>3, <2>4 DEF Journalled
    <2> QED BY <2>3, <2>4, <2>5
  <1>3. CASE journal' = TornEvent /\ journal' # WholeEvent
    <2>1. journal' = Appended(t, FALSE)
      BY <1>3 DEF TornEvent
    <2> QED BY <1>1, <1>3, <2>1, AppendJournals
  <1> QED BY <1>2, <1>3

LEMMA AheadInit == Init => Ahead
  BY DEF Init, Ahead, JournalAhead, Idle

\* A step that loses no event leaves the journal ahead of summaries that stay as
\* they are ...
LEMMA AheadSame ==
    ASSUME JournalAhead, current' = current,
           \A j, s : Journalled(j, s) => Journalled(j, s)'
    PROVE  JournalAhead'
  <1>1. ASSUME NEW j \in Ids, current'[j] # NoFile PROVE Journalled(j, current[j])'
    <2>1. PICK s : s = current[j]
      OBVIOUS
    <2>2. Journalled(j, s)
      BY <1>1, <2>1 DEF JournalAhead
    <2>3. Journalled(j, s)'
      BY <2>2
    <2> QED BY <2>1, <2>3 DEF Journalled
  <1> QED BY <1>1 DEF JournalAhead

\* ... and of one that is replaced by a journalled receipt.
LEMMA AheadReplaced ==
    ASSUME TypeOK, JournalAhead, NEW i \in Ids, NEW r,
           current' = [current EXCEPT ![i] = r], Journalled(i, r)',
           \A j, s : Journalled(j, s) => Journalled(j, s)'
    PROVE  JournalAhead'
  <1>1. ASSUME NEW j \in Ids, current'[j] # NoFile PROVE Journalled(j, current[j])'
    <2>1. PICK s : s = current'[j]
      OBVIOUS
    <2>2. Journalled(j, s)'
      <3>1. IF j = i THEN s = r ELSE s = current[j]
        BY <2>1 DEF TypeOK
      <3> QED BY <1>1, <2>1, <3>1 DEF JournalAhead
    <2> QED BY <2>1, <2>2 DEF Journalled
  <1> QED BY <1>1 DEF JournalAhead

\* So does a step that was interrupted.
LEMMA AheadInterrupted ==
    ASSUME TypeOK, Ahead, Interrupted
    PROVE  JournalAhead'
  <1>1. op \in Call /\ op.id \in Ids /\ op.new \in Receipt /\ JournalAhead
    BY CallType DEF Interrupted, Ahead
  <1>2. PICK i \in Ids, r \in Receipt : i = op.id /\ r = op.new
    BY <1>1
  <1>3. \A j, s : Journalled(j, s) => Journalled(j, s)'
    <2>1. CASE journal' = WholeEvent \/ journal' = TornEvent
      BY <1>1, <2>1, EventJournals
    <2>2. CASE journal' = journal
      BY <2>2 DEF Journalled
    <2> QED BY <2>1, <2>2 DEF Interrupted
  <1>4. CASE current' = current
    BY <1>1, <1>3, <1>4, AheadSame
  <1>5. CASE current' # current
    <2>1. op.stage = "summary" /\ current' = SummaryReplaced
      BY <1>5 DEF Interrupted
    <2>2. current' = [current EXCEPT ![i] = r]
      BY <1>2, <2>1 DEF SummaryReplaced
    <2>3. Journalled(i, r)'
      BY <1>2, <1>3, <2>1 DEF Ahead
    <2> QED BY <1>1, <1>3, <2>2, <2>3, AheadReplaced
  <1> QED BY <1>4, <1>5

LEMMA AheadStep == TypeOK /\ Ahead /\ [Next]_vars => Ahead'
  <1> SUFFICES ASSUME TypeOK, Ahead, [Next]_vars PROVE Ahead'
    OBVIOUS
  <1>1. ASSUME UNCHANGED <<journal, current>>, op'.stage # "summary" PROVE Ahead'
    BY <1>1 DEF Ahead, JournalAhead, Journalled
  <1>2. ASSUME NEW i \in Ids, NEW T \in SUBSET Targets \ {{}}, ReserveAndRecordIntent(i, T)
        PROVE  Ahead'
    BY <1>1, <1>2 DEF ReserveAndRecordIntent, disk
  <1>3. ASSUME NEW i \in Ids, NEW T \in SUBSET Targets, NEW outcome \in [T -> MutationStates],
               RecordMutationOutcomes(i, outcome)
        PROVE  Ahead'
    BY <1>1, <1>3 DEF RecordMutationOutcomes, disk
  <1>4. ASSUME NEW i \in Ids, NEW t \in Targets, NEW v \in VerificationStates,
               RecordVerificationOutcome(i, t, v)
        PROVE  Ahead'
    BY <1>1, <1>4 DEF RecordVerificationOutcome, disk
  <1>5. CASE AppendEvent
    <2>1. op \in Call /\ op.id \in Ids
      BY <1>5, CallType DEF AppendEvent
    <2>2. journal' = WholeEvent /\ op'.id = op.id /\ op'.new = op.new /\ current' = current
      BY <1>5, <2>1 DEF AppendEvent, Call
    <2>3. JournalAhead'
      <3>1. \A j, s : Journalled(j, s) => Journalled(j, s)'
        BY <2>1, <2>2, EventJournals
      <3>2. JournalAhead
        BY DEF Ahead
      <3> QED BY <2>2, <3>1, <3>2, AheadSame
    <2>4. Journalled(op.id, op.new)'
      <3>1. \E k \in DOMAIN journal' : \E n \in DOMAIN journal'[k].entries :
               journal'[k].entries[n] = [id |-> op.id, receipt |-> op.new, whole |-> TRUE]
        BY <2>1, <2>2, EventJournals
      <3> QED BY <2>2, <3>1 DEF Journalled
    <2> QED BY <2>3, <2>4 DEF Ahead
  <1>6. CASE RefuseOversizedEvent \/ WriteCurrentBlocked
    BY <1>1, <1>6 DEF RefuseOversizedEvent, WriteCurrentBlocked, disk, Idle
  <1>7. CASE WriteCurrent
    <2>1. op \in Call /\ op.id \in Ids /\ op.new \in Receipt
      BY <1>7, CallType DEF WriteCurrent
    <2>2. PICK i \in Ids, r \in Receipt : i = op.id /\ r = op.new
      BY <2>1
    <2>3. \A j, s : Journalled(j, s) => Journalled(j, s)'
      BY <1>7 DEF WriteCurrent, Journalled
    <2>4. Journalled(i, r)'
      BY <1>7, <2>2, <2>3 DEF WriteCurrent, Ahead
    <2>5. current' = [current EXCEPT ![i] = r]
      BY <1>7, <2>2 DEF WriteCurrent, SummaryReplaced
    <2>6. JournalAhead'
      BY <2>3, <2>4, <2>5, AheadReplaced DEF Ahead
    <2>7. op'.stage # "summary"
      BY <1>7, <2>1 DEF WriteCurrent, AfterSummary, Call, Idle
    <2> QED BY <2>6, <2>7 DEF Ahead
  <1>8. CASE WriteReservation \/ ConsumeReservation
    BY <1>1, <1>8 DEF WriteReservation, ConsumeReservation, Idle
  <1>9. CASE IOError
    BY <1>9, AheadInterrupted DEF IOError, Ahead, Idle
  <1>10. CASE Crash
    <2>1. CASE Interrupted
      BY <1>10, <2>1, AheadInterrupted DEF Crash, Ahead, Idle
    <2>2. CASE UNCHANGED disk
      BY <1>1, <1>10, <2>2 DEF Crash, disk, Idle
    <2> QED BY <1>10, <2>1, <2>2 DEF Crash
  <1>11. CASE UNCHANGED vars
    BY <1>11 DEF vars, Ahead, JournalAhead, Journalled
  <1> QED BY <1>2, <1>3, <1>4, <1>5, <1>6, <1>7, <1>8, <1>9, <1>10, <1>11 DEF Next

\* At every point at which a call can be interrupted, torn appends and abandoned
\* temporaries included, no summary shows a state whose event is not in the journal.
THEOREM WriteAhead == Spec => []JournalAhead
  <1>1. Ahead => JournalAhead
    BY DEF Ahead
  <1> QED BY <1>1, AheadInit, AheadStep, TypeCorrect, PTL DEF Spec

--------------------------------------------------------------------------------
(* Bytes                                                                       *)

\* A product of naturals is a natural.
LEMMA Product ==
    ASSUME NEW m \in Nat, NEW n \in Nat
    PROVE  m * n \in Nat /\ m * (n + 1) = m * n + m
  OBVIOUS

\* The limits and the sizes of the parts of a file, in bytes.
LEMMA SizeTypes ==
    /\ MaxBytes \in Nat /\ Slot \in Nat /\ HeadBytes \in Nat /\ StampBytes \in Nat
    /\ ReservationBytes \in Nat /\ ReservationBytes + 2 <= StampBytes /\ StampBytes <= HeadBytes
  BY SizeAssumption

\* A receipt has finitely many targets, each with a size.
LEMMA TargetSizes ==
    ASSUME NEW r \in Receipt
    PROVE  /\ IsFiniteSet(DOMAIN r.target)
           /\ \A t \in DOMAIN r.target : TargetBytes[r.target[t]] \in Nat
  <1>1. DOMAIN r.target \in SUBSET Targets /\ \A t \in DOMAIN r.target : r.target[t] \in TargetStates
    BY ReceiptParts
  <1> QED BY <1>1, TargetsAssumption, FS_Subset, SizeAssumption

\* Events and summaries have sizes.
LEMMA ReceiptSizes ==
    ASSUME NEW r \in Receipt
    PROVE  /\ EventBytes(r) \in Nat /\ SummaryBytes(r) \in Nat
           /\ SummaryBytes(r) = EventBytes(r) - StampBytes + 1
  <1> DEFINE f == [t \in DOMAIN r.target |-> TargetBytes[r.target[t]]]
  <1>1. SumFunctionOnSet(f, DOMAIN r.target) \in Nat
    <2>1. \A t \in DOMAIN r.target : f[t] \in Nat
      BY TargetSizes
    <2> HIDE DEF f
    <2> QED BY <2>1, TargetSizes, SumNat
  <1>2. EventBytes(r) = HeadBytes + SumFunctionOnSet(f, DOMAIN r.target)
    BY DEF EventBytes, SumFunction
  <1> HIDE DEF f
  <1> QED BY <1>1, <1>2, SizeTypes DEF SummaryBytes

\* A line has a size ...
LEMMA LineSize ==
    ASSUME NEW line \in Line
    PROVE  LineBytes(line) \in Nat
  <1> DEFINE f == [n \in DOMAIN line.entries |-> EventBytes(line.entries[n].receipt)]
  <1>1. line.entries \in Seq(Entry)
    BY DEF Line
  <1>2. /\ IsFiniteSet(DOMAIN line.entries)
        /\ \A n \in DOMAIN line.entries : line.entries[n].receipt \in Receipt
    <2>1. DOMAIN line.entries = 1..Len(line.entries) /\ Len(line.entries) \in Nat
      BY <1>1
    <2>2. \A n \in 1..Len(line.entries) : line.entries[n] \in Entry
      BY <1>1
    <2>3. IsFiniteSet(1..Len(line.entries))
      BY <2>1, FS_Interval
    <2> QED BY <2>1, <2>2, <2>3 DEF Entry
  <1>3. \A n \in DOMAIN line.entries : f[n] \in Nat
    BY <1>2, ReceiptSizes
  <1>4. LineBytes(line) = SumFunctionOnSet(f, DOMAIN line.entries) + (IF line.ended THEN 1 ELSE 0)
    BY DEF LineBytes, SumFunction
  <1> HIDE DEF f
  <1>5. SumFunctionOnSet(f, DOMAIN line.entries) \in Nat
    BY <1>2, <1>3, SumNat
  <1> QED BY <1>4, <1>5

\* ... and grows by the event that joins it.
LEMMA LineGrows ==
    ASSUME NEW line \in Line, ~line.ended, NEW e \in Entry, NEW b \in BOOLEAN
    PROVE  LineBytes([entries |-> Append(line.entries, e), ended |-> b])
              = LineBytes(line) + EventBytes(e.receipt) + (IF b THEN 1 ELSE 0)
  <1> DEFINE n  == Len(line.entries)
             es == Append(line.entries, e)
             f  == [k \in DOMAIN line.entries |-> EventBytes(line.entries[k].receipt)]
             g  == [k \in DOMAIN es |-> EventBytes(es[k].receipt)]
  <1>1. line.entries \in Seq(Entry) /\ n \in Nat /\ es \in Seq(Entry)
    BY DEF Line
  <1>2. DOMAIN line.entries = 1..n /\ DOMAIN es = 1..(n + 1) /\ es[n + 1] = e
    BY <1>1
  <1>3. \A k \in 1..n : es[k] = line.entries[k]
    BY <1>1
  <1>4. \A k \in 1..(n + 1) : es[k] \in Entry
    BY <1>1, <1>2
  <1>5. LineBytes(line) = SumFunction(f) + 0
    BY DEF LineBytes
  <1>6. LineBytes([entries |-> es, ended |-> b]) = SumFunction(g) + (IF b THEN 1 ELSE 0)
    BY DEF LineBytes
  <1> HIDE DEF es
  <1>7. DOMAIN f = 1..n /\ DOMAIN g = 1..(n + 1) /\ g[n + 1] = EventBytes(e.receipt)
    BY <1>1, <1>2
  <1>8. \A k \in 1..n : f[k] = g[k]
    BY <1>1, <1>2, <1>3
  <1>9. \A k \in 1..(n + 1) : g[k] \in Nat
    BY <1>2, <1>4, ReceiptSizes DEF Entry
  <1> HIDE DEF f, g
  <1>10. SumFunction(g) = SumFunction(f) + EventBytes(e.receipt)
    BY <1>1, <1>7, <1>8, <1>9, SumLonger
  <1>11. SumFunction(f) \in Nat
    <2>1. \A k \in 1..n : f[k] \in Nat
      BY <1>1, <1>8, <1>9
    <2>2. IsFiniteSet(1..n)
      BY <1>1, FS_Interval
    <2>3. SumFunctionOnSet(f, 1..n) \in Nat
      BY <2>1, <2>2, SumNat
    <2> QED BY <1>7, <2>3 DEF SumFunction
  <1>12. EventBytes(e.receipt) \in Nat
    BY ReceiptSizes DEF Entry
  <1> QED BY <1>5, <1>6, <1>10, <1>11, <1>12 DEF es

\* The journal has a size; an append adds an event and at most a newline.
LEMMA JournalSize ==
    ASSUME NEW lines \in Seq(Line)
    PROVE  JournalBytes(lines) \in Nat
  <1> DEFINE f == [k \in DOMAIN lines |-> LineBytes(lines[k])]
  <1>1. DOMAIN lines = 1..Len(lines) /\ Len(lines) \in Nat
    OBVIOUS
  <1>2. \A k \in 1..Len(lines) : lines[k] \in Line
    OBVIOUS
  <1>3. IsFiniteSet(1..Len(lines))
    BY <1>1, FS_Interval
  <1>4. \A k \in 1..Len(lines) : f[k] \in Nat
    BY <1>1, <1>2, LineSize
  <1>5. JournalBytes(lines) = SumFunctionOnSet(f, 1..Len(lines))
    BY <1>1 DEF JournalBytes, SumFunction
  <1> HIDE DEF f
  <1> QED BY <1>3, <1>4, <1>5, SumNat

\* One more line adds its own bytes to the journal.
LEMMA JournalGrows ==
    ASSUME journal \in Seq(Line), NEW e \in Entry, NEW b \in BOOLEAN
    PROVE  JournalBytes(Appended(e, b)) <= JournalBytes(journal) + EventBytes(e.receipt) + 1
  <1> DEFINE n  == Len(journal)
             js == Appended(e, b)
             f  == [k \in DOMAIN journal |-> LineBytes(journal[k])]
             g  == [k \in DOMAIN js |-> LineBytes(js[k])]
  <1>1. n \in Nat /\ DOMAIN journal = 1..n /\ \A k \in 1..n : journal[k] \in Line
    OBVIOUS
  <1>2. js \in Seq(Line)
    BY AppendedType
  <1>3. DOMAIN js = 1..Len(js) /\ \A k \in 1..Len(js) : js[k] \in Line
    BY <1>2
  <1>4. JournalBytes(journal) = SumFunction(f) /\ JournalBytes(js) = SumFunction(g)
    BY DEF JournalBytes
  <1>5. JournalBytes(journal) \in Nat /\ EventBytes(e.receipt) \in Nat
    BY JournalSize, ReceiptSizes DEF Entry
  <1>6. /\ DOMAIN f = 1..n /\ \A k \in 1..n : f[k] = LineBytes(journal[k]) /\ f[k] \in Nat
        /\ DOMAIN g = 1..Len(js) /\ \A k \in 1..Len(js) : g[k] = LineBytes(js[k]) /\ g[k] \in Nat
    <2>1. \A k \in 1..n : LineBytes(journal[k]) \in Nat
      BY <1>1, LineSize
    <2>2. \A k \in 1..Len(js) : LineBytes(js[k]) \in Nat
      BY <1>3, LineSize
    <2> HIDE DEF js
    <2> QED BY <1>1, <1>3, <2>1, <2>2
  <1> HIDE DEF f, g
  <1>7. CASE journal # <<>> /\ ~journal[n].ended
    <2> DEFINE line == [entries |-> Append(journal[n].entries, e), ended |-> b]
    <2>1. n \in 1..n
      BY <1>1, <1>7
    <2>2. js = [journal EXCEPT ![n] = line]
      BY <1>7 DEF Appended
    <2>3. Len(js) = n /\ js[n] = line /\ \A k \in 1..n : k # n => js[k] = journal[k]
      <3>1. line \in Line
        BY <1>1, <2>1 DEF Line
      <3> HIDE DEF js, line
      <3>2. js[n] = line /\ \A k \in 1..n : k # n => js[k] = journal[k]
        BY <1>1, <2>1, <2>2
      <3>3. Len([journal EXCEPT ![n] = line]) = n
        BY <1>1, <2>1, <3>1
      <3> QED BY <2>2, <3>2, <3>3
    <2>4. LineBytes(line) = LineBytes(journal[n]) + EventBytes(e.receipt) + (IF b THEN 1 ELSE 0)
      BY <1>1, <1>7, <2>1, LineGrows
    <2> HIDE DEF line, js
    <2>5. SumFunctionOnSet(g, 1..n) + f[n] = SumFunctionOnSet(f, 1..n) + g[n]
      <3>1. IsFiniteSet(1..n)
        BY <1>1, FS_Interval
      <3>2. \A k \in 1..n : k # n => f[k] = g[k]
        BY <1>6, <2>3
      <3> QED BY <1>6, <2>1, <2>3, <3>1, <3>2, SumReplaced
    <2>6. SumFunction(f) = SumFunctionOnSet(f, 1..n) /\ SumFunction(g) = SumFunctionOnSet(g, 1..n)
      BY <1>6, <2>3 DEF SumFunction
    <2>7. JournalBytes(js) \in Nat
      BY <1>2, JournalSize
    <2>8. g[n] = f[n] + EventBytes(e.receipt) + (IF b THEN 1 ELSE 0) /\ f[n] \in Nat
      BY <1>6, <2>1, <2>3, <2>4
    <2> QED BY <1>4, <1>5, <2>5, <2>6, <2>7, <2>8 DEF js
  <1>8. CASE ~(journal # <<>> /\ ~journal[n].ended)
    <2> DEFINE line == [entries |-> <<e>>, ended |-> b]
               none == [entries |-> <<>>, ended |-> FALSE]
    <2>1. js = Append(journal, line)
      BY <1>8 DEF Appended
    <2>2. Len(js) = n + 1 /\ js[n + 1] = line /\ \A k \in 1..n : js[k] = journal[k]
      BY <1>1, <2>1
    <2>3. LineBytes(line) = EventBytes(e.receipt) + (IF b THEN 1 ELSE 0)
      <3>1. none \in Line /\ ~none.ended /\ Append(none.entries, e) = <<e>>
        BY DEF Line
      <3>2. LineBytes(line) = LineBytes(none) + EventBytes(e.receipt) + (IF b THEN 1 ELSE 0)
        <4> HIDE DEF none
        <4> QED BY <3>1, LineGrows
      <3>3. LineBytes(none) = 0
        <4> DEFINE h == [k \in DOMAIN none.entries |-> EventBytes(none.entries[k].receipt)]
        <4>1. DOMAIN h = {}
          OBVIOUS
        <4>2. LineBytes(none) = SumFunction(h) + 0
          BY DEF LineBytes
        <4> HIDE DEF h
        <4>3. SumFunction(h) = 0
          BY <4>1, SumEmpty DEF SumFunction
        <4> QED BY <4>2, <4>3
      <3> QED BY <1>5, <3>2, <3>3
    <2> HIDE DEF line, js
    <2>4. SumFunction(g) = SumFunction(f) + g[n + 1]
      <3>1. DOMAIN g = 1..(n + 1) /\ \A k \in 1..n : f[k] = g[k]
        BY <1>1, <1>6, <2>2
      <3>2. \A k \in 1..(n + 1) : g[k] \in Nat
        BY <1>6, <2>2
      <3> QED BY <1>1, <1>6, <3>1, <3>2, SumLonger
    <2>5. g[n + 1] = EventBytes(e.receipt) + (IF b THEN 1 ELSE 0)
      BY <1>1, <1>6, <2>2, <2>3
    <2> QED BY <1>4, <1>5, <2>4, <2>5 DEF js
  <1> QED BY <1>7, <1>8

\* So do the summaries and the abandoned temporaries.
LEMMA CurrentSize ==
    ASSUME NEW c \in [Ids -> Receipt \cup {NoFile}], IsFiniteSet(Written(c))
    PROVE  /\ CurrentBytes(c) \in Nat
           /\ \A j \in Written(c) : SummaryBytes(c[j]) \in Nat
  <1> DEFINE f == [i \in Written(c) |-> SummaryBytes(c[i])]
  <1>1. \A j \in Written(c) : SummaryBytes(c[j]) \in Nat
    <2>1. \A j \in Written(c) : c[j] \in Receipt
      BY DEF Written
    <2> QED BY <2>1, ReceiptSizes
  <1>2. CurrentBytes(c) = SumFunctionOnSet(f, Written(c))
    BY DEF CurrentBytes, SumFunction
  <1>3. \A j \in Written(c) : f[j] \in Nat
    BY <1>1
  <1> HIDE DEF f
  <1> QED BY <1>1, <1>2, <1>3, SumNat

\* A replaced summary adds at most its own bytes to the summaries.
LEMMA CurrentGrows ==
    ASSUME NEW c \in [Ids -> Receipt \cup {NoFile}], IsFiniteSet(Written(c)),
           NEW i \in Ids, NEW r \in Receipt
    PROVE  LET d == [c EXCEPT ![i] = r]
           IN  /\ IsFiniteSet(Written(d))
               /\ CurrentBytes(d) <= CurrentBytes(c) + SummaryBytes(r)
  <1> DEFINE d == [c EXCEPT ![i] = r]
             f == [j \in Written(c) |-> SummaryBytes(c[j])]
             g == [j \in Written(d) |-> SummaryBytes(d[j])]
  <1>1. /\ d \in [Ids -> Receipt \cup {NoFile}] /\ d[i] = r
        /\ \A j \in Ids : j # i => d[j] = c[j]
    OBVIOUS
  <1> HIDE DEF d
  <1>2. Written(d) = Written(c) \cup {i}
    BY <1>1, NoFileAssumption DEF Written
  <1>3. IsFiniteSet(Written(d))
    BY <1>2, FS_AddElement
  <1>4. CurrentBytes(c) \in Nat /\ CurrentBytes(d) \in Nat /\ SummaryBytes(r) \in Nat
    BY <1>1, <1>3, CurrentSize, ReceiptSizes
  <1>5. /\ CurrentBytes(c) = SumFunctionOnSet(f, Written(c))
        /\ CurrentBytes(d) = SumFunctionOnSet(g, Written(d))
    BY DEF CurrentBytes, SumFunction
  <1>6. /\ \A j \in Written(c) : f[j] \in Nat
        /\ \A j \in Written(d) : g[j] \in Nat
        /\ \A j \in Written(c) : j # i => f[j] = g[j]
        /\ g[i] = SummaryBytes(r)
    <2>1. /\ \A j \in Written(c) : SummaryBytes(c[j]) \in Nat
          /\ \A j \in Written(d) : SummaryBytes(d[j]) \in Nat
      BY <1>1, <1>3, CurrentSize
    <2>2. Written(c) \subseteq Ids
      BY DEF Written
    <2> QED BY <1>1, <1>2, <2>1, <2>2
  <1> HIDE DEF f, g
  <1>7. CASE i \in Written(c)
    <2>1. Written(d) = Written(c)
      BY <1>2, <1>7
    <2>2. SumFunctionOnSet(g, Written(c)) + f[i] = SumFunctionOnSet(f, Written(c)) + g[i]
      BY <1>6, <1>7, <2>1, SumReplaced
    <2>3. f[i] \in Nat /\ g[i] \in Nat
      BY <1>6, <1>7, <2>1
    <2> QED BY <1>3, <1>4, <1>5, <1>6, <2>1, <2>2, <2>3 DEF d
  <1>8. CASE i \notin Written(c)
    <2>1. SumFunctionOnSet(g, Written(c) \cup {i}) = g[i] + SumFunctionOnSet(g, Written(c))
      BY <1>2, <1>6, <1>8, SumOneMore
    <2>2. SumFunctionOnSet(g, Written(c)) = SumFunctionOnSet(f, Written(c))
      <3>1. \A j \in Written(c) : g[j] = f[j]
        BY <1>6, <1>8
      <3> QED BY <3>1, SumSame
    <2>3. CurrentBytes(d) = g[i] + CurrentBytes(c)
      BY <1>2, <1>5, <2>1, <2>2
    <2> QED BY <1>3, <1>4, <1>6, <2>3 DEF d
  <1> QED BY <1>7, <1>8

\* A temporary file has a size.
LEMMA TempSize ==
    ASSUME NEW temp \in Temp
    PROVE  TempBytes(temp) \in Nat
  BY ReceiptSizes, SizeTypes DEF Temp, TempBytes

\* A temporary file left behind adds at most its own bytes.
LEMMA LeftoversGrow ==
    ASSUME NEW L \in SUBSET Temp, IsFiniteSet(L), NEW temp \in Temp
    PROVE  /\ IsFiniteSet(L \cup {temp})
           /\ LeftoverBytes(L) \in Nat
           /\ LeftoverBytes(L \cup {temp}) <= LeftoverBytes(L) + TempBytes(temp)
  <1> DEFINE M == L \cup {temp}
             f == [t \in L |-> TempBytes(t)]
             g == [t \in M |-> TempBytes(t)]
  <1>1. IsFiniteSet(M)
    BY FS_AddElement
  <1>2. LeftoverBytes(L) = SumFunctionOnSet(f, L) /\ LeftoverBytes(M) = SumFunctionOnSet(g, M)
    BY DEF LeftoverBytes, SumFunction
  <1>3. /\ \A t \in M : g[t] = TempBytes(t) /\ g[t] \in Nat
        /\ \A t \in L : f[t] = g[t] /\ f[t] \in Nat
    BY TempSize
  <1> HIDE DEF f, g
  <1>4. SumFunctionOnSet(f, L) \in Nat /\ TempBytes(temp) \in Nat
    BY <1>3, SumNat, TempSize
  <1>5. CASE temp \in L
    <2>1. M = L
      BY <1>5
    <2> QED BY <1>1, <1>2, <1>4, <2>1
  <1>6. CASE temp \notin L
    <2>1. SumFunctionOnSet(g, L \cup {temp}) = g[temp] + SumFunctionOnSet(g, L)
      BY <1>3, <1>6, SumOneMore
    <2>2. SumFunctionOnSet(g, L) = SumFunctionOnSet(f, L)
      BY <1>3, SumSame
    <2> QED BY <1>1, <1>2, <1>3, <1>4, <2>1, <2>2
  <1> QED BY <1>5, <1>6

\* The sizes add up to a number, and a usage is the sum of its parts.
LEMMA UsageType ==
    ASSUME RecordsInv, IsFiniteSet(issued), IsFiniteSet(leftovers)
    PROVE  /\ JournalBytes(journal) \in Nat
           /\ IsFiniteSet(Written(current)) /\ CurrentBytes(current) \in Nat
           /\ Cardinality(reservations) \in Nat /\ ReservationBytes * Cardinality(reservations) \in Nat
           /\ LeftoverBytes(leftovers) \in Nat
           /\ UsageBytes \in Nat
           /\ IsFiniteSet(granted) /\ Cardinality(granted) \in Nat
           /\ 2 * Slot * Cardinality(granted) \in Nat
           /\ Cardinality(granted) <= Cardinality(reservations)
  <1>1. TypeOK /\ IsFiniteSet(reservations) /\ granted \subseteq reservations
    BY DEF RecordsInv
  <1>2. JournalBytes(journal) \in Nat
    BY <1>1, JournalSize DEF TypeOK
  <1>3. IsFiniteSet(Written(current))
    <2>1. Written(current) \subseteq issued
      BY DEF RecordsInv, Written
    <2> QED BY <2>1, FS_Subset
  <1>4. CurrentBytes(current) \in Nat
    BY <1>1, <1>3, CurrentSize DEF TypeOK
  <1>5. LeftoverBytes(leftovers) \in Nat
    <2> DEFINE f == [t \in leftovers |-> TempBytes(t)]
    <2>1. \A t \in leftovers : f[t] \in Nat
      BY <1>1, TempSize DEF TypeOK
    <2>2. LeftoverBytes(leftovers) = SumFunctionOnSet(f, leftovers)
      BY DEF LeftoverBytes, SumFunction
    <2> HIDE DEF f
    <2> QED BY <2>1, <2>2, SumNat
  <1>6. /\ Cardinality(reservations) \in Nat
        /\ IsFiniteSet(granted) /\ Cardinality(granted) \in Nat
        /\ Cardinality(granted) <= Cardinality(reservations)
    BY <1>1, FS_Subset, FS_CardinalityType
  <1>7. ReservationBytes * Cardinality(reservations) \in Nat /\ 2 * Slot \in Nat
    BY <1>6, SizeTypes, Product
  <1>8. 2 * Slot * Cardinality(granted) \in Nat
    BY <1>6, <1>7, Product
  <1>9. UsageBytes \in Nat
    BY <1>2, <1>4, <1>5, <1>7 DEF UsageBytes
  <1> QED BY <1>2, <1>3, <1>4, <1>5, <1>6, <1>7, <1>8, <1>9

\* A reservation file that is written or unlinked.
LEMMA ReservationGrows ==
    ASSUME NEW R, IsFiniteSet(R), NEW i
    PROVE  /\ IsFiniteSet(R \cup {i}) /\ IsFiniteSet(R \ {i})
           /\ ReservationBytes * Cardinality(R \cup {i}) \in Nat
           /\ ReservationBytes * Cardinality(R \ {i}) \in Nat
           /\ ReservationBytes * Cardinality(R \cup {i})
                 <= ReservationBytes * Cardinality(R) + ReservationBytes
           /\ ReservationBytes * Cardinality(R \ {i}) <= ReservationBytes * Cardinality(R)
  <1>1. /\ IsFiniteSet(R \cup {i}) /\ IsFiniteSet(R \ {i})
        /\ Cardinality(R \cup {i}) \in {Cardinality(R), Cardinality(R) + 1}
        /\ Cardinality(R \ {i}) \in Nat
        /\ Cardinality(R) \in {Cardinality(R \ {i}), Cardinality(R \ {i}) + 1}
    <2>1. Cardinality(R) \in Nat /\ IsFiniteSet(R \ {i}) /\ IsFiniteSet(R \cup {i})
      BY FS_AddElement, FS_RemoveElement, FS_CardinalityType
    <2>2. Cardinality(R \ {i}) = IF i \in R THEN Cardinality(R) - 1 ELSE Cardinality(R)
      BY FS_RemoveElement
    <2>3. Cardinality(R \cup {i}) = IF i \in R THEN Cardinality(R) ELSE Cardinality(R) + 1
      BY FS_AddElement
    <2>4. Cardinality(R \ {i}) \in Nat
      BY <2>1, FS_CardinalityType
    <2> QED BY <2>1, <2>2, <2>3, <2>4
  <1> DEFINE c == Cardinality(R)
             d == Cardinality(R \ {i})
  <1>2. c \in Nat /\ d \in Nat /\ ReservationBytes \in Nat
    BY <1>1, FS_CardinalityType, SizeTypes
  <1>3. /\ ReservationBytes * c \in Nat /\ ReservationBytes * (c + 1) = ReservationBytes * c + ReservationBytes
        /\ ReservationBytes * d \in Nat /\ ReservationBytes * (d + 1) = ReservationBytes * d + ReservationBytes
    BY <1>2, Product
  <1>4. Cardinality(R \cup {i}) \in {c, c + 1} /\ c \in {d, d + 1}
    BY <1>1
  <1> HIDE DEF c, d
  <1>5. /\ ReservationBytes * Cardinality(R \cup {i}) \in {ReservationBytes * c, ReservationBytes * c + ReservationBytes}
        /\ ReservationBytes * c \in {ReservationBytes * d, ReservationBytes * d + ReservationBytes}
    BY <1>3, <1>4
  <1> USE DEF c, d
  <1> QED BY <1>1, <1>2, <1>3, <1>5

\* What an append, torn or not, adds to the journal.
LEMMA EventGrows ==
    ASSUME TypeOK, op \in Call, journal' = WholeEvent \/ journal' = TornEvent
    PROVE  /\ JournalBytes(journal') \in Nat
           /\ JournalBytes(journal') <= JournalBytes(journal) + EventBytes(op.new) + 1
  <1> DEFINE w == [id |-> op.id, receipt |-> op.new, whole |-> TRUE]
             t == [id |-> op.id, receipt |-> op.new, whole |-> FALSE]
  <1>1. w \in Entry /\ t \in Entry /\ journal \in Seq(Line)
    BY DEF Call, Entry, TypeOK
  <1>2. w.receipt = op.new /\ t.receipt = op.new
    OBVIOUS
  <1>3. WholeEvent = Appended(w, TRUE) /\ TornEvent = Appended(t, FALSE)
    BY DEF WholeEvent, TornEvent
  <1> HIDE DEF w, t
  <1>4. JournalBytes(WholeEvent) <= JournalBytes(journal) + EventBytes(op.new) + 1
    <2>1. JournalBytes(Appended(w, TRUE)) <= JournalBytes(journal) + EventBytes(w.receipt) + 1
      BY <1>1, JournalGrows
    <2> QED BY <1>2, <1>3, <2>1
  <1>5. JournalBytes(TornEvent) <= JournalBytes(journal) + EventBytes(op.new) + 1
    <2>1. JournalBytes(Appended(t, FALSE)) <= JournalBytes(journal) + EventBytes(t.receipt) + 1
      BY <1>1, JournalGrows
    <2> QED BY <1>2, <1>3, <2>1
  <1>6. JournalBytes(WholeEvent) \in Nat /\ JournalBytes(TornEvent) \in Nat
    BY EventType, JournalSize
  <1> QED BY <1>4, <1>5, <1>6

\* An empty store is within the limit and has promised nothing.
LEMMA BytesInit == Init => BytesInv
  <1> SUFFICES ASSUME Init PROVE BytesInv
    OBVIOUS
  <1>1. IsFiniteSet(issued) /\ IsFiniteSet(leftovers) /\ Cardinality(granted) = 0 /\ Cardinality(reservations) = 0
    BY FS_EmptySet DEF Init
  <1>2. JournalBytes(journal) = 0
    <2> DEFINE f == [k \in DOMAIN journal |-> LineBytes(journal[k])]
    <2>1. DOMAIN f = {}
      BY DEF Init
    <2>2. JournalBytes(journal) = SumFunction(f)
      BY DEF JournalBytes
    <2> HIDE DEF f
    <2> QED BY <2>1, <2>2, SumEmpty DEF SumFunction
  <1>3. CurrentBytes(current) = 0
    <2> DEFINE f == [i \in Written(current) |-> SummaryBytes(current[i])]
    <2>1. DOMAIN f = {}
      BY DEF Init, Written
    <2>2. CurrentBytes(current) = SumFunction(f)
      BY DEF CurrentBytes
    <2> HIDE DEF f
    <2> QED BY <2>1, <2>2, SumEmpty DEF SumFunction
  <1>4. LeftoverBytes(leftovers) = 0
    <2> DEFINE f == [t \in leftovers |-> TempBytes(t)]
    <2>1. DOMAIN f = {}
      BY DEF Init
    <2>2. LeftoverBytes(leftovers) = SumFunction(f)
      BY DEF LeftoverBytes
    <2> HIDE DEF f
    <2> QED BY <2>1, <2>2, SumEmpty DEF SumFunction
  <1>5. UsageBytes = 0
    BY <1>1, <1>2, <1>3, <1>4, SizeTypes DEF UsageBytes
  <1>6. BytesDue = 0
    BY DEF Init, Idle, BytesDue
  <1> QED BY <1>1, <1>5, <1>6, SizeTypes DEF BytesInv

\* An interrupted step adds no more bytes than the call still owes.
LEMMA InterruptedBytes ==
    ASSUME RecordsInv, BytesInv, Interrupted, leftovers' = leftovers
    PROVE  UsageBytes' \in Nat /\ UsageBytes' <= UsageBytes + BytesDue
  <1>1. TypeOK /\ op \in Call /\ op.id \in Ids /\ op.new \in Receipt /\ IsFiniteSet(reservations)
    BY CallType DEF RecordsInv, Interrupted
  <1>2. /\ EventBytes(op.new) \in Nat /\ SummaryBytes(op.new) \in Nat
        /\ SummaryBytes(op.new) = EventBytes(op.new) - StampBytes + 1
    BY <1>1, ReceiptSizes
  <1>3. /\ JournalBytes(journal) \in Nat /\ CurrentBytes(current) \in Nat
        /\ ReservationBytes * Cardinality(reservations) \in Nat /\ LeftoverBytes(leftovers) \in Nat
        /\ IsFiniteSet(Written(current))
    BY UsageType DEF BytesInv
  <1>4. UsageBytes' = JournalBytes(journal') + CurrentBytes(current')
                        + ReservationBytes * Cardinality(reservations') + LeftoverBytes(leftovers)
    BY DEF UsageBytes
  <1>5. op.call \in {"intent", "outcomes", "verification"}
    BY <1>1 DEF Call
  <1>6. CASE op.stage = "append"
    <2>1. /\ JournalBytes(journal') \in Nat
          /\ JournalBytes(journal') <= JournalBytes(journal) + EventBytes(op.new) + 1
      <3>1. CASE journal' = journal
        BY <1>2, <1>3, <3>1
      <3>2. CASE journal' = WholeEvent \/ journal' = TornEvent
        BY <1>1, <3>2, EventGrows
      <3> QED BY <1>6, <3>1, <3>2 DEF Interrupted
    <2>2. UNCHANGED <<current, reservations>> /\ EventBytes(op.new) <= Slot
      BY <1>6 DEF Interrupted, Fits
    <2>3. BytesDue >= 2 * Slot /\ BytesDue \in Nat
      BY <1>6, SizeTypes DEF BytesDue
    <2>4. EventBytes(op.new) + 1 <= 2 * Slot
      BY <1>2, <2>2, SizeTypes
    <2> QED BY <1>2, <1>3, <1>4, <2>1, <2>2, <2>3, <2>4, SizeTypes DEF UsageBytes
  <1>7. CASE op.stage = "summary"
    <2>1. /\ CurrentBytes(current') \in Nat
          /\ CurrentBytes(current') <= CurrentBytes(current) + SummaryBytes(op.new)
      <3>1. CASE current' = current
        BY <1>2, <1>3, <3>1
      <3>2. CASE current' = SummaryReplaced
        <4>1. SummaryReplaced \in [Ids -> Receipt \cup {NoFile}]
          BY <1>1 DEF SummaryReplaced, TypeOK
        <4>2. /\ IsFiniteSet(Written(SummaryReplaced))
              /\ CurrentBytes(SummaryReplaced) <= CurrentBytes(current) + SummaryBytes(op.new)
          BY <1>1, <1>3, CurrentGrows DEF SummaryReplaced, TypeOK
        <4> QED BY <3>2, <4>1, <4>2, CurrentSize
      <3> QED BY <1>7, <3>1, <3>2 DEF Interrupted
    <2>2. UNCHANGED <<journal, reservations>>
      BY <1>7 DEF Interrupted
    <2>3. BytesDue >= SummaryBytes(op.new) /\ BytesDue \in Nat
      BY <1>2, <1>5, <1>7, SizeTypes DEF BytesDue
    <2> QED BY <1>2, <1>3, <1>4, <2>1, <2>2, <2>3 DEF UsageBytes
  <1>8. CASE op.stage \in {"reserve", "consume"}
    <2>1. /\ ReservationBytes * Cardinality(reservations') \in Nat
          /\ ReservationBytes * Cardinality(reservations')
                <= ReservationBytes * Cardinality(reservations)
                   + (IF op.stage = "reserve" THEN ReservationBytes ELSE 0)
      <3>1. CASE reservations' = reservations
        BY <1>3, <3>1, SizeTypes
      <3>2. CASE op.stage = "reserve" /\ reservations' = reservations \cup {op.id}
        BY <1>1, <3>2, ReservationGrows
      <3>3. CASE op.stage = "consume" /\ reservations' = reservations \ {op.id}
        <4>1. op.stage # "reserve"
          BY <3>3
        <4>2. /\ ReservationBytes * Cardinality(reservations \ {op.id}) \in Nat
              /\ ReservationBytes * Cardinality(reservations \ {op.id})
                    <= ReservationBytes * Cardinality(reservations)
          BY <1>1, ReservationGrows
        <4>3. /\ ReservationBytes * Cardinality(reservations') \in Nat
              /\ ReservationBytes * Cardinality(reservations')
                    <= ReservationBytes * Cardinality(reservations)
          BY <3>3, <4>2, Zenon
        <4> QED BY <1>3, <4>1, <4>3
      <3> QED BY <1>8, <3>1, <3>2, <3>3 DEF Interrupted
    <2>2. UNCHANGED <<journal, current>>
      BY <1>8 DEF Interrupted
    <2>3. BytesDue \in Nat /\ BytesDue >= (IF op.stage = "reserve" THEN ReservationBytes ELSE 0)
      BY <1>8, SizeTypes DEF BytesDue
    <2> DEFINE x == IF op.stage = "reserve" THEN ReservationBytes ELSE 0
    <2>4. x \in Nat
      BY SizeTypes
    <2> HIDE DEF x
    <2> QED BY <1>3, <1>4, <2>1, <2>2, <2>3, <2>4 DEF UsageBytes, x
  <1> QED BY <1>6, <1>7, <1>8 DEF Interrupted

\* The room promised to granted pushes, in bytes.
LEMMA PromisedBytes ==
    ASSUME NEW G, IsFiniteSet(G), NEW i
    PROVE  /\ 2 * Slot * Cardinality(G) \in Nat
           /\ i \in G => 2 * Slot * Cardinality(G \ {i}) + 2 * Slot = 2 * Slot * Cardinality(G)
           /\ 2 * Slot * Cardinality(G \cup {i}) <= 2 * Slot * Cardinality(G) + 2 * Slot
           /\ 2 * Slot * Cardinality(G \cup {i}) \in Nat
  <1>1. Cardinality(G) \in Nat /\ 2 * Slot \in Nat
    BY FS_CardinalityType, SizeTypes
  <1> DEFINE m == 2 * Slot
             c == Cardinality(G)
  <1>2. m * c \in Nat /\ m * (c + 1) = m * c + m
    <2> HIDE DEF m, c
    <2> QED BY <1>1, Product DEF m, c
  <1>3. ASSUME i \in G PROVE m * Cardinality(G \ {i}) + m = m * c
    <2>1. Cardinality(G \ {i}) = c - 1 /\ Cardinality(G \ {i}) \in Nat
      BY <1>3, FS_RemoveElement, FS_CardinalityType
    <2> DEFINE d == Cardinality(G \ {i})
    <2>2. c = d + 1 /\ d \in Nat
      BY <1>1, <2>1
    <2> HIDE DEF m, c, d
    <2>3. m * (d + 1) = m * d + m
      BY <1>1, <2>2, Product DEF m
    <2> QED BY <2>2, <2>3 DEF d
  <1>4. Cardinality(G \cup {i}) \in {c, c + 1}
    BY FS_AddElement
  <1> HIDE DEF m, c
  <1>5. m * Cardinality(G \cup {i}) \in {m * c, m * c + m}
    BY <1>2, <1>4
  <1>6. m \in Nat
    BY <1>1 DEF m
  <1>7. m * Cardinality(G \cup {i}) \in Nat /\ m * Cardinality(G \cup {i}) <= m * c + m
    BY <1>2, <1>5, <1>6
  <1> QED BY <1>2, <1>3, <1>7 DEF m, c

\* A product grows with its factor.
LEMMA ProductMonotone ==
    ASSUME NEW m \in Nat, NEW c \in Nat, NEW d \in Nat, c <= d
    PROVE  m * c <= m * d
  <1>1. PICK k \in Nat : d = c + k
    <2>1. d - c \in Nat /\ d = c + (d - c)
      OBVIOUS
    <2> QED BY <2>1
  <1>2. m * d = m * c + m * k /\ m * k \in Nat /\ m * c \in Nat
    BY <1>1
  <1> QED BY <1>2

\* Pushes that are gone with the process are promised nothing.
LEMMA NothingPromised ==
    ASSUME IsFiniteSet(granted), granted' \in {granted, {}}
    PROVE  /\ 2 * Slot * Cardinality(granted') \in Nat
           /\ 2 * Slot * Cardinality(granted') <= 2 * Slot * Cardinality(granted)
  <1>1. 2 * Slot \in Nat /\ Cardinality(granted) \in Nat /\ Cardinality({}) = 0
    BY FS_CardinalityType, FS_EmptySet, SizeTypes
  <1>2. Cardinality(granted') \in Nat /\ Cardinality(granted') <= Cardinality(granted)
    BY <1>1
  <1> QED BY <1>1, <1>2, Product, ProductMonotone

\* Bytes added to the disk are paid out of the bytes still due or out of the
\* promises of the pushes: the limit is kept.
LEMMA WithinLimit ==
    ASSUME NEW u \in Nat, NEW g \in Nat, NEW d \in Nat, NEW limit \in Nat, u + g + d <= limit,
           NEW u2 \in Nat, NEW g2 \in Nat, NEW d2 \in Nat, NEW a \in Nat,
           u2 <= u + a, a + g2 + d2 <= g + d
    PROVE  u2 + g2 + d2 <= limit
  OBVIOUS

\* A call that ends early adds at most the bytes it still had to write, and
\* owes nothing more.
LEMMA EndsWithinLimit ==
    ASSUME NEW u \in Nat, NEW g \in Nat, NEW d \in Nat, NEW limit \in Nat, u + g + d <= limit,
           NEW u2 \in Nat, NEW g2 \in Nat, NEW d2, d2 = 0, u2 <= u + d, g2 <= g
    PROVE  u2 + g2 + d2 <= limit
  OBVIOUS

\* Every step of the store keeps to the bytes it was promised.
LEMMA BytesStep == RecordsInv /\ BytesInv /\ [Next]_vars => BytesInv'
  <1> SUFFICES ASSUME RecordsInv, BytesInv, [Next]_vars PROVE BytesInv'
    OBVIOUS
  <1> DEFINE promised == 2 * Slot * Cardinality(granted)
  <1>a. TypeOK /\ IsFiniteSet(reservations) /\ IsFiniteSet(issued) /\ IsFiniteSet(leftovers)
    BY DEF RecordsInv, BytesInv
  <1>b. UsageBytes \in Nat /\ promised \in Nat /\ IsFiniteSet(granted)
    BY UsageType DEF BytesInv
  <1>c. UsageBytes + promised + BytesDue <= MaxBytes
    BY DEF BytesInv
  <1>d. /\ op \in Call => BytesDue \in Nat
        /\ op = Idle => BytesDue = 0
    <2>1. op \in Call => SummaryBytes(op.new) \in Nat /\ op.stage \in {"append", "summary", "reserve", "consume"}
      BY ReceiptSizes DEF Call
    <2> QED BY <2>1, SizeTypes DEF BytesDue, Idle
  <1>e. ASSUME UNCHANGED <<journal, current, reservations, leftovers>> PROVE UsageBytes' = UsageBytes
    BY <1>e DEF UsageBytes
  <1>f. 2 * Slot \in Nat /\ 4 * Slot = 2 * Slot + 2 * Slot
    BY SizeTypes
  <1>k. MaxBytes \in Nat /\ ReservationBytes \in Nat
    BY SizeTypes
  <1>h. 2 * Slot * Cardinality(reservations) \in Nat /\ promised <= 2 * Slot * Cardinality(reservations)
    <2>1. /\ Cardinality(granted) \in Nat /\ Cardinality(reservations) \in Nat
          /\ Cardinality(granted) <= Cardinality(reservations)
      BY UsageType DEF BytesInv
    <2> QED BY <1>f, <2>1, ProductMonotone, Product
  <1>i. ASSUME NEW i \in Ids, leftovers' = leftovers, issued' \in {issued, issued \cup {i}}
        PROVE  IsFiniteSet(issued') /\ IsFiniteSet(leftovers')
    BY <1>a, <1>i, FS_AddElement
  <1>j. ASSUME UNCHANGED <<leftovers, issued>>
        PROVE  IsFiniteSet(issued') /\ IsFiniteSet(leftovers')
    BY <1>a, <1>j
  <1>1. ASSUME NEW i \in Ids, NEW T \in SUBSET Targets \ {{}}, ReserveAndRecordIntent(i, T)
        PROVE  BytesInv'
    <2>1. BytesDue' = 4 * Slot
      BY <1>1 DEF ReserveAndRecordIntent, BytesDue
    <2>2. UsageBytes + 2 * Slot * Cardinality(reservations) + 4 * Slot <= MaxBytes
      BY <1>1 DEF ReserveAndRecordIntent, EnsureReservation
    <2>3. UsageBytes' = UsageBytes /\ promised' = promised
      BY <1>1, <1>e DEF ReserveAndRecordIntent, disk
    <2>4. UsageBytes' + promised' + BytesDue' <= MaxBytes
      <3> HIDE DEF promised
      <3> QED BY <1>b, <1>f, <1>h, <2>1, <2>2, <2>3, SizeTypes
    <2> QED BY <1>1, <1>i, <2>4 DEF ReserveAndRecordIntent, BytesInv
  <1>2. ASSUME NEW i \in Ids, NEW T \in SUBSET Targets, NEW outcome \in [T -> MutationStates],
               RecordMutationOutcomes(i, outcome)
        PROVE  BytesInv'
    <2>1. BytesDue' = 2 * Slot /\ BytesDue = 0
      BY <1>d, <1>2 DEF RecordMutationOutcomes, BytesDue
    <2>2. UsageBytes' = UsageBytes
      BY <1>2, <1>e DEF RecordMutationOutcomes, disk
    <2>3. promised' + 2 * Slot = promised
      BY <1>b, <1>2, PromisedBytes DEF RecordMutationOutcomes
    <2>4. promised' \in Nat
      <3>1. IsFiniteSet(granted \ {i})
        BY <1>b, FS_RemoveElement
      <3>2. granted' = granted \ {i}
        BY <1>2 DEF RecordMutationOutcomes
      <3> QED BY <3>1, <3>2, PromisedBytes
    <2>5. UsageBytes' + promised' + BytesDue' <= MaxBytes
      <3> HIDE DEF promised
      <3>1. UsageBytes' \in Nat /\ promised' \in Nat /\ BytesDue \in Nat /\ BytesDue' \in Nat
        BY <1>b, <1>f, <2>1, <2>2, <2>3, <2>4
      <3>2. UsageBytes' <= UsageBytes + 0
        BY <1>b, <1>f, <2>1, <2>2, <2>3, <2>4
      <3>3. 0 + promised' + BytesDue' <= promised + BytesDue
        BY <1>b, <1>f, <2>1, <2>2, <2>3, <2>4
      <3> QED BY <1>b, <1>c, <1>k, <3>1, <3>2, <3>3, WithinLimit
    <2> QED BY <1>2, <1>j, <2>5 DEF RecordMutationOutcomes, BytesInv
  <1>3. ASSUME NEW i \in Ids, NEW t \in Targets, NEW v \in VerificationStates,
               RecordVerificationOutcome(i, t, v)
        PROVE  BytesInv'
    <2>1. BytesDue' = 2 * Slot
      BY <1>3 DEF RecordVerificationOutcome, BytesDue
    <2>2. UsageBytes + 2 * Slot * Cardinality(reservations) + 2 * Slot <= MaxBytes
      BY <1>3 DEF RecordVerificationOutcome, EnsureReservation
    <2>3. UsageBytes' = UsageBytes /\ promised' = promised
      BY <1>3, <1>e DEF RecordVerificationOutcome, disk
    <2>4. UsageBytes' + promised' + BytesDue' <= MaxBytes
      <3> HIDE DEF promised
      <3> QED BY <1>b, <1>f, <1>h, <2>1, <2>2, <2>3, SizeTypes
    <2> QED BY <1>3, <1>j, <2>4 DEF RecordVerificationOutcome, BytesInv
  <1>4. CASE AppendEvent
    <2>1. op \in Call /\ op.new \in Receipt
      BY <1>a, <1>4, CallType DEF AppendEvent
    <2>2. /\ op'.stage = "summary" /\ op'.call = op.call /\ op'.new = op.new
          /\ op.stage = "append" /\ EventBytes(op.new) <= Slot
          /\ op.call \in {"intent", "outcomes", "verification"}
      BY <1>4, <2>1 DEF AppendEvent, Call, Fits
    <2>3. /\ EventBytes(op.new) \in Nat /\ SummaryBytes(op.new) \in Nat
          /\ SummaryBytes(op.new) = EventBytes(op.new) - StampBytes + 1
      BY <2>1, ReceiptSizes
    <2>4. /\ JournalBytes(journal') \in Nat
          /\ JournalBytes(journal') <= JournalBytes(journal) + EventBytes(op.new) + 1
      BY <1>a, <1>4, <2>1, EventGrows DEF AppendEvent
    <2>5. UsageBytes' \in Nat /\ UsageBytes' <= UsageBytes + EventBytes(op.new) + 1
      <3>1. /\ JournalBytes(journal) \in Nat /\ CurrentBytes(current) \in Nat
            /\ ReservationBytes * Cardinality(reservations) \in Nat /\ LeftoverBytes(leftovers) \in Nat
        BY UsageType DEF BytesInv
      <3>2. UsageBytes' = JournalBytes(journal') + CurrentBytes(current)
                            + ReservationBytes * Cardinality(reservations) + LeftoverBytes(leftovers)
        BY <1>4 DEF AppendEvent, UsageBytes
      <3> QED BY <2>3, <2>4, <3>1, <3>2 DEF UsageBytes
    <2>6. promised' = promised
      BY <1>4 DEF AppendEvent
    <2> DEFINE more == IF op.call = "intent" THEN ReservationBytes + 2 * Slot ELSE 0
    <2>7. BytesDue' = SummaryBytes(op.new) + more
      BY <2>2 DEF BytesDue
    <2>8. BytesDue = IF op.call = "intent" THEN 4 * Slot ELSE 2 * Slot
      BY <2>2 DEF BytesDue
    <2>9. EventBytes(op.new) + 1 + BytesDue' <= BytesDue /\ BytesDue' \in Nat /\ BytesDue \in Nat
      BY <1>f, <2>2, <2>3, <2>7, <2>8, SizeTypes
    <2>10. UsageBytes' + promised' + BytesDue' <= MaxBytes
      <3> DEFINE added == EventBytes(op.new) + 1
      <3> HIDE DEF promised
      <3>1. UsageBytes' \in Nat /\ promised' \in Nat /\ BytesDue \in Nat /\ BytesDue' \in Nat /\ added \in Nat
        BY <1>b, <2>3, <2>5, <2>6, <2>9
      <3>2. UsageBytes' <= UsageBytes + added
        BY <1>b, <2>3, <2>5, <2>6, <2>9
      <3>3. added + promised' + BytesDue' <= promised + BytesDue
        BY <1>b, <2>3, <2>5, <2>6, <2>9
      <3> HIDE DEF added
      <3> QED BY <1>b, <1>c, <1>k, <3>1, <3>2, <3>3, WithinLimit
    <2> QED BY <1>4, <1>j, <2>10 DEF AppendEvent, BytesInv
  <1>5. CASE RefuseOversizedEvent \/ WriteCurrentBlocked
    <2>1. op \in Call
      BY <1>a, <1>5, CallType DEF RefuseOversizedEvent, WriteCurrentBlocked
    <2>2. BytesDue' = 0 /\ BytesDue \in Nat
      BY <1>d, <1>5, <2>1 DEF RefuseOversizedEvent, WriteCurrentBlocked, BytesDue, Idle
    <2>3. UsageBytes' = UsageBytes /\ promised' = promised
      BY <1>5, <1>e DEF RefuseOversizedEvent, WriteCurrentBlocked, disk
    <2>4. UsageBytes' + promised' + BytesDue' <= MaxBytes
      <3> HIDE DEF promised
      <3>1. /\ UsageBytes' \in Nat /\ promised' \in Nat /\ BytesDue \in Nat /\ BytesDue' = 0
            /\ UsageBytes' <= UsageBytes + BytesDue /\ promised' <= promised
        BY <1>b, <2>2, <2>3
      <3> QED BY <1>b, <1>c, <1>k, <3>1, EndsWithinLimit
    <2> QED BY <1>5, <1>j, <2>4 DEF RefuseOversizedEvent, WriteCurrentBlocked, BytesInv
  <1>6. CASE WriteCurrent
    <2>1. op \in Call /\ op.id \in Ids /\ op.new \in Receipt
      BY <1>a, <1>6, CallType DEF WriteCurrent
    <2>2. op.stage = "summary" /\ op.call \in {"intent", "outcomes", "verification"}
      BY <1>6, <2>1 DEF WriteCurrent, Call
    <2>3. SummaryBytes(op.new) \in Nat
      BY <2>1, ReceiptSizes
    <2>4. UsageBytes' \in Nat /\ UsageBytes' <= UsageBytes + SummaryBytes(op.new)
      <3>1. /\ JournalBytes(journal) \in Nat /\ CurrentBytes(current) \in Nat
            /\ ReservationBytes * Cardinality(reservations) \in Nat /\ LeftoverBytes(leftovers) \in Nat
            /\ IsFiniteSet(Written(current))
        BY UsageType DEF BytesInv
      <3>2. SummaryReplaced \in [Ids -> Receipt \cup {NoFile}]
        BY <1>a, <2>1 DEF SummaryReplaced, TypeOK
      <3>3. /\ IsFiniteSet(Written(SummaryReplaced))
            /\ CurrentBytes(SummaryReplaced) <= CurrentBytes(current) + SummaryBytes(op.new)
        BY <1>a, <2>1, <3>1, CurrentGrows DEF SummaryReplaced, TypeOK
      <3>4. CurrentBytes(SummaryReplaced) \in Nat
        BY <3>2, <3>3, CurrentSize
      <3>5. UsageBytes' = JournalBytes(journal) + CurrentBytes(SummaryReplaced)
                            + ReservationBytes * Cardinality(reservations) + LeftoverBytes(leftovers)
        BY <1>6 DEF WriteCurrent, UsageBytes
      <3> QED BY <2>3, <3>1, <3>3, <3>4, <3>5 DEF UsageBytes
    <2>5. promised' = promised
      BY <1>6 DEF WriteCurrent
    <2>6. SummaryBytes(op.new) + BytesDue' = BytesDue /\ BytesDue' \in Nat
      <3>1. CASE op.call = "intent"
        <4>1. op' = [op EXCEPT !.stage = "reserve"]
          BY <1>6, <3>1 DEF WriteCurrent, AfterSummary
        <4>2. op'.stage = "reserve"
          BY <2>1, <4>1 DEF Call
        <4> QED BY <2>2, <2>3, <3>1, <4>2, SizeTypes DEF BytesDue
      <3>2. CASE op.call # "intent"
        <4>1. op'.stage \in {"consume", "idle"}
          BY <1>6, <2>1, <2>2, <3>2 DEF WriteCurrent, AfterSummary, Call, Idle
        <4>2. BytesDue' = 0
          BY <4>1 DEF BytesDue
        <4>3. BytesDue = SummaryBytes(op.new) + 0
          BY <2>2, <3>2 DEF BytesDue
        <4> QED BY <2>3, <4>2, <4>3
      <3> QED BY <3>1, <3>2
    <2>7. UsageBytes' + promised' + BytesDue' <= MaxBytes
      <3> HIDE DEF promised
      <3>1. UsageBytes' \in Nat /\ promised' \in Nat /\ BytesDue \in Nat /\ BytesDue' \in Nat /\ SummaryBytes(op.new) \in Nat
        BY <1>b, <2>3, <2>4, <2>5, <2>6
      <3>2. UsageBytes' <= UsageBytes + SummaryBytes(op.new)
        BY <1>b, <2>3, <2>4, <2>5, <2>6
      <3>3. SummaryBytes(op.new) + promised' + BytesDue' <= promised + BytesDue
        BY <1>b, <2>3, <2>4, <2>5, <2>6
      <3> QED BY <1>b, <1>c, <1>k, <3>1, <3>2, <3>3, WithinLimit
    <2> QED BY <1>6, <1>j, <2>7 DEF WriteCurrent, BytesInv
  <1>7. CASE WriteReservation
    <2>1. BytesDue = ReservationBytes + 2 * Slot /\ BytesDue' = 0
      BY <1>7 DEF WriteReservation, BytesDue, Idle
    <2>2. promised' \in Nat /\ promised' <= promised + 2 * Slot
      BY <1>b, <1>7, PromisedBytes DEF WriteReservation
    <2>3. UsageBytes' \in Nat /\ UsageBytes' <= UsageBytes + ReservationBytes
      <3>1. /\ JournalBytes(journal) \in Nat /\ CurrentBytes(current) \in Nat
            /\ ReservationBytes * Cardinality(reservations) \in Nat /\ LeftoverBytes(leftovers) \in Nat
        BY UsageType DEF BytesInv
      <3>2. /\ ReservationBytes * Cardinality(reservations') \in Nat
            /\ ReservationBytes * Cardinality(reservations')
                  <= ReservationBytes * Cardinality(reservations) + ReservationBytes
        BY <1>a, <1>7, ReservationGrows DEF WriteReservation
      <3>3. UsageBytes' = JournalBytes(journal) + CurrentBytes(current)
                            + ReservationBytes * Cardinality(reservations') + LeftoverBytes(leftovers)
        BY <1>7 DEF WriteReservation, UsageBytes
      <3> QED BY <3>1, <3>2, <3>3, SizeTypes DEF UsageBytes
    <2>4. UsageBytes' + promised' + BytesDue' <= MaxBytes
      <3> HIDE DEF promised
      <3>1. UsageBytes' \in Nat /\ promised' \in Nat /\ BytesDue \in Nat /\ BytesDue' \in Nat /\ ReservationBytes \in Nat
        BY <1>b, <1>f, <1>k, <2>1, <2>2, <2>3
      <3>2. UsageBytes' <= UsageBytes + ReservationBytes
        BY <1>b, <1>f, <1>k, <2>1, <2>2, <2>3
      <3>3. ReservationBytes + promised' + BytesDue' <= promised + BytesDue
        BY <1>b, <1>f, <1>k, <2>1, <2>2, <2>3
      <3> QED BY <1>b, <1>c, <1>k, <3>1, <3>2, <3>3, WithinLimit
    <2> QED BY <1>7, <1>j, <2>4 DEF WriteReservation, BytesInv
  <1>8. CASE ConsumeReservation
    <2>1. BytesDue = 0 /\ BytesDue' = 0
      BY <1>8 DEF ConsumeReservation, BytesDue, Idle
    <2>2. promised' = promised
      BY <1>8 DEF ConsumeReservation
    <2>3. UsageBytes' \in Nat /\ UsageBytes' <= UsageBytes
      <3>1. /\ JournalBytes(journal) \in Nat /\ CurrentBytes(current) \in Nat
            /\ ReservationBytes * Cardinality(reservations) \in Nat /\ LeftoverBytes(leftovers) \in Nat
        BY UsageType DEF BytesInv
      <3>2. /\ ReservationBytes * Cardinality(reservations') \in Nat
            /\ ReservationBytes * Cardinality(reservations') <= ReservationBytes * Cardinality(reservations)
        BY <1>a, <1>8, ReservationGrows DEF ConsumeReservation
      <3>3. UsageBytes' = JournalBytes(journal) + CurrentBytes(current)
                            + ReservationBytes * Cardinality(reservations') + LeftoverBytes(leftovers)
        BY <1>8 DEF ConsumeReservation, UsageBytes
      <3> QED BY <3>1, <3>2, <3>3 DEF UsageBytes
    <2>4. UsageBytes' + promised' + BytesDue' <= MaxBytes
      <3> HIDE DEF promised
      <3>1. /\ UsageBytes' \in Nat /\ promised' \in Nat /\ BytesDue \in Nat /\ BytesDue' = 0
            /\ UsageBytes' <= UsageBytes + BytesDue /\ promised' <= promised
        BY <1>b, <2>1, <2>2, <2>3
      <3> QED BY <1>b, <1>c, <1>k, <3>1, EndsWithinLimit
    <2> QED BY <1>8, <1>j, <2>4 DEF ConsumeReservation, BytesInv
  <1>9. ASSUME Interrupted, op' = Idle, granted' \in {granted, {}}, UNCHANGED <<leftovers, issued>>
        PROVE  BytesInv'
    <2>1. UsageBytes' \in Nat /\ UsageBytes' <= UsageBytes + BytesDue
      BY <1>9, InterruptedBytes
    <2>2. promised' \in Nat /\ promised' <= promised
      BY <1>b, <1>9, NothingPromised
    <2>3. BytesDue' = 0 /\ BytesDue \in Nat
      <3>1. op \in Call
        BY <1>a, <1>9, CallType DEF Interrupted
      <3> QED BY <1>d, <1>9, <3>1 DEF BytesDue, Idle
    <2>4. UsageBytes' + promised' + BytesDue' <= MaxBytes
      <3> HIDE DEF promised
      <3> QED BY <1>b, <2>1, <2>2, <2>3, <1>c, <1>k, EndsWithinLimit
    <2> QED BY <1>9, <1>j, <2>4 DEF BytesInv
  <1>10. CASE IOError
    BY <1>9, <1>10 DEF IOError
  <1>11. CASE Crash
    <2>1. CASE op = Idle /\ UNCHANGED <<disk, leftovers>>
      <3>1. UsageBytes' = UsageBytes /\ BytesDue' = 0 /\ BytesDue = 0
        BY <1>d, <1>e, <1>11, <2>1 DEF Crash, disk, BytesDue, Idle
      <3>2. promised' \in Nat /\ promised' <= promised
        BY <1>b, <1>11, NothingPromised DEF Crash
      <3>3. UsageBytes' + promised' + BytesDue' <= MaxBytes
        <4> HIDE DEF promised
        <4>1. UsageBytes' \in Nat /\ BytesDue \in Nat /\ UsageBytes' <= UsageBytes + BytesDue
          BY <1>b, <3>1
        <4> QED BY <1>b, <1>c, <1>k, <3>1, <3>2, <4>1, EndsWithinLimit
      <3> QED BY <1>11, <1>j, <2>1, <3>3 DEF Crash, BytesInv
    <2>2. CASE Interrupted /\ UNCHANGED leftovers
      BY <1>9, <1>11, <2>2 DEF Crash
    <2>3. ASSUME NEW temp, op.stage # "idle", temp \in Temp, leftovers' = leftovers \cup {temp},
                 UNCHANGED disk, TempBytes(temp) <= BytesDue
          PROVE  BytesInv'
      <3>1. op \in Call /\ BytesDue \in Nat
        BY <1>a, <1>d, <2>3, CallType
      <3>2. BytesDue' = 0
        BY <1>11 DEF Crash, BytesDue, Idle
      <3>3. promised' \in Nat /\ promised' <= promised
        BY <1>b, <1>11, NothingPromised DEF Crash
      <3>4. /\ IsFiniteSet(leftovers')
            /\ LeftoverBytes(leftovers') <= LeftoverBytes(leftovers) + TempBytes(temp)
            /\ LeftoverBytes(leftovers') \in Nat
        <4>1. leftovers \in SUBSET Temp
          BY <1>a DEF TypeOK
        <4>2. IsFiniteSet(leftovers \cup {temp}) /\ leftovers \cup {temp} \in SUBSET Temp
          BY <1>a, <2>3, <4>1, LeftoversGrow
        <4> QED BY <1>a, <2>3, <4>1, <4>2, LeftoversGrow
      <3>5. UsageBytes' \in Nat /\ UsageBytes' <= UsageBytes + BytesDue
        <4>1. /\ JournalBytes(journal) \in Nat /\ CurrentBytes(current) \in Nat
              /\ ReservationBytes * Cardinality(reservations) \in Nat /\ LeftoverBytes(leftovers) \in Nat
          BY UsageType DEF BytesInv
        <4>2. UsageBytes' = JournalBytes(journal) + CurrentBytes(current)
                  + ReservationBytes * Cardinality(reservations) + LeftoverBytes(leftovers')
          BY <2>3 DEF disk, UsageBytes
        <4>3. TempBytes(temp) \in Nat
          BY <2>3, TempSize
        <4> QED BY <2>3, <3>1, <3>4, <4>1, <4>2, <4>3 DEF UsageBytes
      <3>6. UsageBytes' + promised' + BytesDue' <= MaxBytes
        <4> HIDE DEF promised
        <4> QED BY <1>b, <3>1, <3>2, <3>3, <3>5, <1>c, <1>k, EndsWithinLimit
      <3>7. IsFiniteSet(issued')
        BY <1>a, <1>11 DEF Crash
      <3> QED BY <3>4, <3>6, <3>7 DEF BytesInv
    <2>4. CASE op.stage = "summary" /\ leftovers' = leftovers \cup {TempFile("current")} /\ UNCHANGED disk
      <3>1. op \in Call /\ op.id \in Ids /\ op.new \in Receipt
        BY <1>a, <2>4, CallType
      <3>2. TempFile("current") \in Temp /\ TempBytes(TempFile("current")) = SummaryBytes(op.new)
        BY <3>1 DEF TempFile, Temp, TempBytes
      <3>3. SummaryBytes(op.new) \in Nat
        BY <3>1, ReceiptSizes
      <3>4. SummaryBytes(op.new) <= BytesDue
        BY <2>4, <3>3, SizeTypes DEF BytesDue
      <3> QED BY <2>3, <2>4, <3>2, <3>4
    <2>5. CASE op.stage = "reserve" /\ leftovers' = leftovers \cup {TempFile("reservations")} /\ UNCHANGED disk
      <3>1. op \in Call /\ op.id \in Ids /\ op.new \in Receipt
        BY <1>a, <2>5, CallType
      <3>2. TempFile("reservations") \in Temp /\ TempBytes(TempFile("reservations")) = ReservationBytes
        BY <3>1 DEF TempFile, Temp, TempBytes
      <3>3. ReservationBytes <= BytesDue
        BY <2>5, SizeTypes DEF BytesDue
      <3> QED BY <2>3, <2>5, <3>2, <3>3
    <2> QED BY <1>11, <2>1, <2>2, <2>4, <2>5 DEF Crash
  <1>12. CASE UNCHANGED vars
    <2>1. UsageBytes' = UsageBytes /\ promised' = promised
      BY <1>12, <1>e DEF vars
    <2>2. BytesDue' = BytesDue
      BY <1>12 DEF vars, BytesDue
    <2> QED BY <1>a, <1>c, <1>12, <2>1, <2>2 DEF vars, BytesInv
  <1> QED BY <1>1, <1>2, <1>3, <1>4, <1>5, <1>6, <1>7, <1>8, <1>10, <1>11, <1>12 DEF Next

\* The inductive invariant holds in every reachable state.
THEOREM Inductive == Spec => []IndInv
  <1>1. Spec => []BytesInv
    BY RecordsInductive, BytesInit, BytesStep, PTL DEF Spec
  <1> QED BY <1>1, RecordsInductive, PTL DEF IndInv

\* The store never exceeds MAX_RECEIPT_STORAGE_BYTES, and each running push keeps
\* room for its terminal event and summary, whatever else was journalled, leaked
\* or abandoned since its intent was admitted.
THEOREM StorageRoom == Spec => []StorageRoomKept
  <1>1. IndInv => StorageRoomKept
    <2> SUFFICES ASSUME IndInv PROVE StorageRoomKept
      OBVIOUS
    <2>1. RecordsInv /\ BytesInv
      BY DEF IndInv
    <2>2. UsageBytes \in Nat /\ 2 * Slot * Cardinality(granted) \in Nat
      BY <2>1, UsageType DEF BytesInv
    <2>3. BytesDue \in Nat
      <3>1. op \in Call => SummaryBytes(op.new) \in Nat
        BY ReceiptSizes DEF Call
      <3>2. op \in Call \cup {Idle}
        BY <2>1 DEF RecordsInv, TypeOK
      <3> QED BY <3>1, <3>2, SizeTypes DEF BytesDue, Idle
    <2> QED BY <2>1, <2>2, <2>3, SizeTypes DEF BytesInv, StorageRoomKept
  <1> QED BY <1>1, Inductive, PTL

--------------------------------------------------------------------------------
(* The limit of one event                                                      *)

\* An event is no longer than its targets at the size of the longest state.
LEMMA EventSize ==
    ASSUME NEW r \in Receipt, NEW m \in Nat, \A s \in TargetStates : TargetBytes[s] <= m
    PROVE  /\ m * Cardinality(DOMAIN r.target) \in Nat
           /\ EventBytes(r) <= HeadBytes + m * Cardinality(DOMAIN r.target)
  <1> DEFINE f == [t \in DOMAIN r.target |-> TargetBytes[r.target[t]]]
             n == Cardinality(DOMAIN r.target)
  <1>1. IsFiniteSet(DOMAIN r.target) /\ r.target \in [DOMAIN r.target -> TargetStates]
    BY TargetSizes, ReceiptParts
  <1>2. \A t \in DOMAIN r.target : f[t] \in Nat /\ f[t] <= m
    BY <1>1, TargetSizes
  <1>3. SumFunctionOnSet(f, DOMAIN r.target) \in Nat /\ SumFunctionOnSet(f, DOMAIN r.target) <= m * n
    <2> HIDE DEF f
    <2> QED BY <1>1, <1>2, SumAtMost, SumNat
  <1>4. m * n \in Nat
    <2>1. n \in Nat
      BY <1>1, FS_CardinalityType
    <2> HIDE DEF n
    <2> QED BY <2>1, Product
  <1>5. EventBytes(r) = HeadBytes + SumFunctionOnSet(f, DOMAIN r.target)
    BY DEF EventBytes, SumFunction
  <1> HIDE DEF f, n
  <1>6. EventBytes(r) <= HeadBytes + m * n
    BY <1>3, <1>4, <1>5, SizeTypes
  <1> QED BY <1>4, <1>6 DEF n

\* An event is only refused as longer than MAX_RECEIPT_BYTES if it lists more
\* targets than the limit holds of the longest state.  A push with no more than
\* that many is never told, its imports done, that its outcomes are too long.
THEOREM RefusedIsLarge ==
    ASSUME NEW m \in Nat, \A s \in TargetStates : TargetBytes[s] <= m
    PROVE  Spec => [][RefuseOversizedEvent =>
                         HeadBytes + m * Cardinality(DOMAIN op.new.target) > Slot]_vars
  <1>1. ASSUME TypeOK, RefuseOversizedEvent
        PROVE  HeadBytes + m * Cardinality(DOMAIN op.new.target) > Slot
    <2>1. op.new \in Receipt /\ ~Fits(op.new)
      BY <1>1, CallType DEF RefuseOversizedEvent
    <2> DEFINE n == m * Cardinality(DOMAIN op.new.target)
    <2>2. /\ n \in Nat /\ EventBytes(op.new) <= HeadBytes + n
          /\ EventBytes(op.new) \in Nat
      BY <2>1, EventSize, ReceiptSizes
    <2> HIDE DEF n
    <2>3. HeadBytes + n > Slot
      BY <2>1, <2>2, SizeTypes DEF Fits
    <2> QED BY <2>3 DEF n
  <1>2. TypeOK /\ [Next]_vars =>
           [RefuseOversizedEvent => HeadBytes + m * Cardinality(DOMAIN op.new.target) > Slot]_vars
    BY <1>1
  <1> QED BY <1>2, TypeCorrect, PTL DEF Spec
================================================================================
