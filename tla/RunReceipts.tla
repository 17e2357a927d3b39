------------------------------ MODULE RunReceipts ------------------------------
(***************************************************************************)
(* The durable store of profile-run receipts (backend/run_receipts.py).    *)
(*                                                                         *)
(* Every store call runs under _writer_lock, so calls do not interleave;   *)
(* what does interleave with the durable steps of a call are failures: an  *)
(* I/O error that aborts the call and leaves the process running, and a    *)
(* crash of the process.  "op" is the call that holds the lock and the     *)
(* durable step it takes next:                                             *)
(*                                                                         *)
(*   reserve_and_record_intent    append -> summary -> reserve             *)
(*   record_mutation_outcomes     append -> summary -> consume             *)
(*   record_verification_outcome  append -> summary                        *)
(*                                                                         *)
(* The state on disk is the journal (a sequence of lines), one summary and *)
(* at most one reservation per receipt, and the temporary files a crash    *)
(* left behind.  A temporary's name holds the process id, and the          *)
(* container's server always is process 1: it is the same after a restart. *)
(***************************************************************************)
EXTENDS Integers, Sequences, FiniteSets, Functions, ReceiptData

CONSTANTS NoFile,            \* no summary
          MaxRecords,        \* MAX_RECEIPT_RECORDS
          MaxBytes,          \* MAX_RECEIPT_STORAGE_BYTES
          Slot,              \* MAX_RECEIPT_BYTES, the limit of one event
          HeadBytes,         \* an event without its targets
          TargetBytes,       \* what one target adds, by its state
          StampBytes,        \* event, recorded_at and receipt_sha256: not in a summary
          ReservationBytes,  \* a reservation file
          TornWrites,        \* may an interrupted append leave part of a line?
          MaxFaults          \* bound: I/O errors and crashes in a behaviour

ASSUME LimitAssumption == MaxRecords \in Nat
ASSUME SizeAssumption ==
    /\ {MaxBytes, Slot, HeadBytes, StampBytes, ReservationBytes} \subseteq Nat
    /\ TargetBytes \in [TargetStates -> Nat]
    /\ ReservationBytes + 2 <= StampBytes  \* 95 + 2 <= 156
    /\ StampBytes <= HeadBytes
\* A request has at most MAX_UPDATE_DEVICES targets, and addresses are IPv4.
ASSUME TargetsAssumption == IsFiniteSet(Targets)
ASSUME FaultAssumption == MaxFaults \in Nat /\ TornWrites \in BOOLEAN
ASSUME NoFileAssumption == NoFile \notin Receipt

VARIABLES journal,       \* receipts-<month>.jsonl
          current,       \* current/<id>.json
          reservations,  \* reservations/<id>.json
          leftovers,     \* temporary files no call owns any more
          op,            \* the call that holds _writer_lock
          granted,       \* pushes that were told their intent is durable and
                         \* have not yet handed in their outcomes
          issued,        \* receipt ids generated so far
          faults

disk == <<journal, current, reservations>>
vars == <<journal, current, reservations, leftovers, op, granted, issued, faults>>

Entry == [id : Ids, receipt : Receipt, whole : BOOLEAN]
Line  == [entries : Seq(Entry), ended : BOOLEAN]
Temp  == [dir : {"current", "reservations"}, id : Ids, receipt : Receipt]

Idle == [stage |-> "idle"]
Call == [call : {"intent", "outcomes", "verification"}, id : Ids,
         stage : {"append", "summary", "reserve", "consume"}, new : Receipt]

Init ==
    /\ journal = <<>>
    /\ current = [i \in Ids |-> NoFile]
    /\ reservations = {}
    /\ leftovers = {}
    /\ op = Idle
    /\ granted = {}
    /\ issued = {}
    /\ faults = 0

--------------------------------------------------------------------------------
(* Sizes and capacity                                                          *)

EventBytes(r) ==
    HeadBytes + SumFunction([t \in DOMAIN r.target |-> TargetBytes[r.target[t]]])

SummaryBytes(r) == EventBytes(r) - StampBytes + 1  \* the newline

LineBytes(line) ==
    SumFunction([n \in DOMAIN line.entries |-> EventBytes(line.entries[n].receipt)])
    + (IF line.ended THEN 1 ELSE 0)

TempBytes(temp) ==
    IF temp.dir = "current" THEN SummaryBytes(temp.receipt) ELSE ReservationBytes

JournalBytes(lines) == SumFunction([k \in DOMAIN lines |-> LineBytes(lines[k])])

Written(summaries) == {i \in Ids : summaries[i] # NoFile}

CurrentBytes(summaries) ==
    SumFunction([i \in Written(summaries) |-> SummaryBytes(summaries[i])])

LeftoverBytes(temps) == SumFunction([temp \in temps |-> TempBytes(temp)])

UsageBytes ==
    JournalBytes(journal) + CurrentBytes(current)
    + ReservationBytes * Cardinality(reservations) + LeftoverBytes(leftovers)

\* Mutants: the files of runs still in flight are not counted.
EnsureReservation_IgnoresPendingRecords(bytes, records) ==
    /\ UsageBytes + 2 * Slot * Cardinality(reservations) + bytes <= MaxBytes
    /\ Len(journal) + records <= MaxRecords
EnsureReservation_IgnoresPendingBytes(bytes, records) ==
    /\ UsageBytes + bytes <= MaxBytes
    /\ Len(journal) + Cardinality(reservations) + records <= MaxRecords

\* Every reservation file counts, the leaked ones too.
EnsureReservation(bytes, records) ==
    /\ UsageBytes + 2 * Slot * Cardinality(reservations) + bytes <= MaxBytes
    /\ Len(journal) + Cardinality(reservations) + records <= MaxRecords

Fits(r) == EventBytes(r) <= Slot

--------------------------------------------------------------------------------
(* The durable steps                                                           *)

\* O_APPEND: what is written joins a last line that has no newline.
Appended(entry, ended) ==
    IF journal # <<>> /\ ~journal[Len(journal)].ended
    THEN [journal EXCEPT ![Len(journal)] =
             [entries |-> Append(@.entries, entry), ended |-> ended]]
    ELSE Append(journal, [entries |-> <<entry>>, ended |-> ended])

WholeEvent == Appended([id |-> op.id, receipt |-> op.new, whole |-> TRUE], TRUE)
TornEvent  == Appended([id |-> op.id, receipt |-> op.new, whole |-> FALSE], FALSE)

SummaryReplaced == [current EXCEPT ![op.id] = op.new]

TempFile(dir) == [dir |-> dir, id |-> op.id, receipt |-> op.new]

\* O_EXCL fails on a temporary an earlier process left.
SummaryBlocked == \E temp \in leftovers : temp.dir = "current" /\ temp.id = op.id

\* What a step may have done to the disk when it is interrupted.
Interrupted ==
    \/ /\ op.stage = "append"
       /\ Fits(op.new)
       /\ \/ journal' = journal
          \/ journal' = WholeEvent
          \/ TornWrites /\ journal' = TornEvent
       /\ UNCHANGED <<current, reservations>>
    \/ /\ op.stage = "summary"
       /\ ~SummaryBlocked
       /\ current' \in {current, SummaryReplaced}
       /\ UNCHANGED <<journal, reservations>>
    \/ /\ op.stage = "reserve"
       /\ reservations' \in {reservations, reservations \cup {op.id}}
       /\ UNCHANGED <<journal, current>>
    \/ /\ op.stage = "consume"
       /\ reservations' \in {reservations, reservations \ {op.id}}
       /\ UNCHANGED <<journal, current>>

--------------------------------------------------------------------------------
(* The calls: checks, then the lock is held and the first step is due          *)

ReserveAndRecordIntent(i, T) ==
    /\ op = Idle
    /\ i \notin issued
    /\ EnsureReservation(4 * Slot, 2)
    /\ issued' = issued \cup {i}
    /\ op' = [call |-> "intent", id |-> i, stage |-> "append", new |-> IntentReceipt(T)]
    /\ UNCHANGED <<disk, leftovers, granted, faults>>

\* Mutant: the outcomes reach the summary without having been journalled.
RecordMutationOutcomes_SummaryOnly(i, outcome) ==
    /\ op = Idle
    /\ i \in granted
    /\ i \in reservations
    /\ current[i] # NoFile
    /\ DOMAIN outcome = DOMAIN current[i].target
    /\ granted' = granted \ {i}
    /\ op' = [call |-> "outcomes", id |-> i, stage |-> "summary", new |-> WithOutcomes(outcome)]
    /\ UNCHANGED <<disk, leftovers, issued, faults>>

\* The push hands in its outcomes once, whatever becomes of the call.
RecordMutationOutcomes(i, outcome) ==
    /\ op = Idle
    /\ i \in granted
    /\ i \in reservations
    /\ current[i] # NoFile
    /\ DOMAIN outcome = DOMAIN current[i].target
    /\ granted' = granted \ {i}
    /\ op' = [call |-> "outcomes", id |-> i, stage |-> "append", new |-> WithOutcomes(outcome)]
    /\ UNCHANGED <<disk, leftovers, issued, faults>>

\* Mutant: verify_target without its check of mutation.status.
RecordVerificationOutcome_AnyTarget(i, t, v) ==
    /\ op = Idle
    /\ current[i] # NoFile
    /\ t \in DOMAIN current[i].target
    /\ EnsureReservation(2 * Slot, 1)
    /\ op' = [call |-> "verification", id |-> i, stage |-> "append",
              new |-> WithVerification(current[i], t, v)]
    /\ UNCHANGED <<disk, leftovers, granted, issued, faults>>

\* verify_target only calls for a target whose import was accepted.
RecordVerificationOutcome(i, t, v) ==
    /\ op = Idle
    /\ current[i] # NoFile
    /\ t \in DOMAIN current[i].target
    /\ current[i].target[t] \in Updated
    /\ EnsureReservation(2 * Slot, 1)
    /\ op' = [call |-> "verification", id |-> i, stage |-> "append",
              new |-> WithVerification(current[i], t, v)]
    /\ UNCHANGED <<disk, leftovers, granted, issued, faults>>

AppendEvent ==
    /\ op.stage = "append"
    /\ Fits(op.new)
    /\ journal' = WholeEvent
    /\ op' = [op EXCEPT !.stage = "summary"]
    /\ UNCHANGED <<current, reservations, leftovers, granted, issued, faults>>

\* "Profile-run receipt exceeds the 64 KiB safety limit."
RefuseOversizedEvent ==
    /\ op.stage = "append"
    /\ ~Fits(op.new)
    /\ op' = Idle
    /\ UNCHANGED <<disk, leftovers, granted, issued, faults>>

AfterSummary ==
    CASE op.call = "intent"       -> [op EXCEPT !.stage = "reserve"]
      [] op.call = "outcomes"     -> [op EXCEPT !.stage = "consume"]
      [] op.call = "verification" -> Idle

WriteCurrent ==
    /\ op.stage = "summary"
    /\ ~SummaryBlocked
    /\ current' = SummaryReplaced
    /\ op' = AfterSummary
    /\ UNCHANGED <<journal, reservations, leftovers, granted, issued, faults>>

\* FileExistsError from os.open, before the try block that removes temporaries.
WriteCurrentBlocked ==
    /\ op.stage = "summary"
    /\ SummaryBlocked
    /\ op' = Idle
    /\ UNCHANGED <<disk, leftovers, granted, issued, faults>>

WriteReservation ==
    /\ op.stage = "reserve"
    /\ reservations' = reservations \cup {op.id}
    /\ granted' = granted \cup {op.id}
    /\ op' = Idle
    /\ UNCHANGED <<journal, current, leftovers, issued, faults>>

ConsumeReservation ==
    /\ op.stage = "consume"
    /\ reservations' = reservations \ {op.id}
    /\ op' = Idle
    /\ UNCHANGED <<journal, current, leftovers, granted, issued, faults>>

\* Mutant: an OSError while the reservation is written is swallowed, too.
IOError_ReservationOptional ==
    /\ faults < MaxFaults
    /\ faults' = faults + 1
    /\ Interrupted
    /\ op' = Idle
    /\ granted' = IF op.stage = "reserve" THEN granted \cup {op.id} ELSE granted
    /\ UNCHANGED <<leftovers, issued>>

\* An OSError aborts the call; its own temporary is removed (finally).  While
\* consuming it is swallowed: the call succeeds with the reservation leaked.
IOError ==
    /\ faults < MaxFaults
    /\ faults' = faults + 1
    /\ Interrupted
    /\ op' = Idle
    /\ UNCHANGED <<leftovers, granted, issued>>

\* The process stops: pushes in flight are gone, and a temporary may stay.
Crash ==
    /\ faults < MaxFaults
    /\ faults' = faults + 1
    /\ \/ op = Idle /\ UNCHANGED <<disk, leftovers>>
       \/ Interrupted /\ UNCHANGED leftovers
       \/ /\ op.stage = "summary"
          /\ ~SummaryBlocked
          /\ leftovers' = leftovers \cup {TempFile("current")}
          /\ UNCHANGED disk
       \/ /\ op.stage = "reserve"
          /\ leftovers' = leftovers \cup {TempFile("reservations")}
          /\ UNCHANGED disk
    /\ op' = Idle
    /\ granted' = {}
    /\ UNCHANGED issued

Next ==
    \/ \E i \in Ids, T \in SUBSET Targets \ {{}} : ReserveAndRecordIntent(i, T)
    \/ \E i \in Ids, T \in SUBSET Targets :
          \E outcome \in [T -> MutationStates] : RecordMutationOutcomes(i, outcome)
    \/ \E i \in Ids, t \in Targets, v \in VerificationStates :
          RecordVerificationOutcome(i, t, v)
    \/ AppendEvent
    \/ RefuseOversizedEvent
    \/ WriteCurrent
    \/ WriteCurrentBlocked
    \/ WriteReservation
    \/ ConsumeReservation
    \/ IOError
    \/ Crash

Spec == Init /\ [][Next]_vars

--------------------------------------------------------------------------------
(* Properties                                                                  *)

\* The state of the store has its type.
TypeOK ==
    /\ journal \in Seq(Line)
    /\ current \in [Ids -> Receipt \cup {NoFile}]
    /\ reservations \subseteq Ids
    /\ leftovers \subseteq Temp
    /\ op \in Call \cup {Idle}
    /\ granted \subseteq Ids
    /\ issued \subseteq Ids
    /\ faults \in 0..MaxFaults

\* The journal never exceeds MAX_RECEIPT_RECORDS, and each push that is
\* touching devices still has room for its terminal event, whatever other
\* calls, leaked reservations and crashes came before
\* (run_receipts.py: "Reserve two journal slots before the caller may send a
\* device mutation").
JournalRoomKept == Len(journal) + Cardinality(granted) <= MaxRecords

\* The same of the bytes on disk: summaries, reservations and abandoned
\* temporaries included, they never exceed MAX_RECEIPT_STORAGE_BYTES, and the
\* terminal event and summary of each running push still fit.
StorageRoomKept == UsageBytes + 2 * Slot * Cardinality(granted) <= MaxBytes

Journalled(i, r) ==
    \E k \in DOMAIN journal :
        \E n \in DOMAIN journal[k].entries :
            journal[k].entries[n] = [id |-> i, receipt |-> r, whole |-> TRUE]

\* A push may touch devices only while its reservation is on disk and its
\* summary shows every target as uncertain: whenever the process dies during
\* the imports, a restart finds the run marked uncertain-high-risk.
GrantedIsDurable ==
    \A i \in granted :
        /\ i \in reservations
        /\ current[i] # NoFile
        /\ \A t \in DOMAIN current[i].target :
              Risk(current[i].target[t]) = "uncertain-high-risk"

\* What the call that holds the lock still adds to the journal, the terminal
\* event of a push not yet granted included.
RecordsDue ==
    CASE op.stage = "append" -> IF op.call = "intent" THEN 2 ELSE 1
      [] op.stage \in {"summary", "reserve"} -> IF op.call = "intent" THEN 1 ELSE 0
      [] OTHER -> 0

IntentOnly(r) ==
    r.run_state = "intent-recorded" /\ \A t \in DOMAIN r.target : r.target[t] = "intent"

\* What a call in progress knows about its receipt.
CallOK ==
    /\ op.stage = "reserve" => op.call = "intent"
    /\ op.stage = "consume" => op.call = "outcomes"
    /\ op.stage # "idle" => op.id \in issued \ granted
    /\ op.stage \in {"append", "summary"} /\ op.call = "intent" =>
          /\ current[op.id] = NoFile
          /\ IntentOnly(op.new)
    /\ op.stage = "reserve" => current[op.id] = op.new /\ IntentOnly(op.new)
    /\ op.stage \in {"append", "summary"} /\ op.call = "outcomes" =>
          /\ current[op.id] # NoFile
          /\ current[op.id].run_state = "intent-recorded"
          /\ DOMAIN op.new.target = DOMAIN current[op.id].target
          /\ op.new = WithOutcomes(op.new.target)
          /\ \A t \in DOMAIN op.new.target : op.new.target[t] \in MutationStates
    /\ op.stage \in {"append", "summary"} /\ op.call = "verification" =>
          /\ current[op.id] # NoFile
          /\ \E t \in DOMAIN current[op.id].target, v \in VerificationStates :
                /\ current[op.id].target[t] \in Updated
                /\ op.new = WithVerification(current[op.id], t, v)

\* The bytes it may still add, the two writes of that terminal event included.
BytesDue ==
    CASE op.stage = "append"  -> IF op.call = "intent" THEN 4 * Slot ELSE 2 * Slot
      [] op.stage = "summary" ->
            SummaryBytes(op.new)
            + (IF op.call = "intent" THEN ReservationBytes + 2 * Slot ELSE 0)
      [] op.stage = "reserve" -> ReservationBytes + 2 * Slot
      [] OTHER -> 0

\* Granted pushes are exactly the ones whose intent and reservation are on disk
\* and whose terminal record is not begun, and the call in progress has the
\* records it was promised.
RecordsInv ==
    /\ TypeOK
    /\ IsFiniteSet(reservations)
    /\ granted \subseteq reservations \cap issued
    /\ \A i \in Ids \ issued : current[i] = NoFile
    /\ \A i \in granted : current[i] # NoFile /\ IntentOnly(current[i])
    /\ CallOK
    /\ Len(journal) + Cardinality(granted) + RecordsDue <= MaxRecords

\* So it has the bytes.
BytesInv ==
    /\ IsFiniteSet(issued)
    /\ IsFiniteSet(leftovers)
    /\ UsageBytes + 2 * Slot * Cardinality(granted) + BytesDue <= MaxBytes

\* The inductive invariant behind the room that is kept, GrantedIsDurable and
\* LedgerRefinement.
IndInv == RecordsInv /\ BytesInv

\* Write-ahead: a summary never shows a state whose event is not in the
\* journal, at any point at which a call can be interrupted.
JournalAhead ==
    \A i \in Ids : current[i] # NoFile => Journalled(i, current[i])

Ledger == INSTANCE ReceiptLedger WITH ledger <- current, NoReceipt <- NoFile

\* The summaries implement the ledger: despite torn appends, I/O errors and
\* crashes between the durable steps, every receipt goes from intent to
\* outcomes to verifications of accepted imports, atomically.
LedgerRefinement == Ledger!Spec

\* Without a new fault, an event that reached the journal reaches the summary
\* (run_receipts.py: "atomic latest-state summaries").  A temporary left by a
\* crash blocks every later summary of its receipt.
SummaryFollowsJournal ==
    [][op.stage = "summary" /\ op' = Idle /\ faults' = faults
          => current'[op.id] = op.new]_vars
================================================================================
