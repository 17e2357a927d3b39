-------------------------- MODULE FirmwareUpdateProofs -------------------------
(***************************************************************************)
(* Theorems about FirmwareUpdate, for any number of invocations and any    *)
(* settings: its type invariant, that no effect is submitted twice or      *)
(* before its announcement is durable (it implements FirmwareEffects) or   *)
(* out of order, that an uploaded run can be recovered from, that a repair *)
(* imports the backup, and that what the directory calls verified is the   *)
(* backup.                                                                 *)
(***************************************************************************)
EXTENDS FirmwareUpdate, TLAPS, SequenceTheorems

USE DEF vars, disk, device

Exclusive ==
    \A q, r \in Runs :
        \/ {run[q].pc, run[r].pc} \subseteq Updating
        \/ {run[q].pc, run[r].pc} \subseteq Repairing
        => q = r

--------------------------------------------------------------------------------
(* Lemmas                                                                      *)

\* What an append does to the effects submitted.
LEMMA SentAppended ==
    ASSUME TypeOK, NEW e \in {"upload", "install", "repair"}, sent' = Append(sent, e)
    PROVE  /\ sent' \in Seq({"upload", "install", "repair"})
           /\ \A f : Effects!Sent(f)' <=> Effects!Sent(f) \/ f = e
  <1>1. sent \in Seq({"upload", "install", "repair"})
    BY DEF TypeOK
  <1>2. DOMAIN sent = 1..Len(sent) /\ Len(sent) \in Nat
    BY <1>1
  <1>3. DOMAIN sent' = 1..(Len(sent) + 1)
    BY <1>1
  <1>4. \A k \in 1..Len(sent) : sent'[k] = sent[k]
    BY <1>1
  <1>5. sent'[Len(sent) + 1] = e
    BY <1>1
  <1>6. sent' \in Seq({"upload", "install", "repair"})
    BY <1>1
  <1>7. ASSUME NEW f PROVE Effects!Sent(f)' <=> Effects!Sent(f) \/ f = e
    BY <1>2, <1>3, <1>4, <1>5 DEF Effects!Sent
  <1> QED BY <1>6, <1>7

\* The parts of an invocation's state.
LEMMA RunParts ==
    ASSUME TypeOK, NEW r \in Runs
    PROVE  /\ run[r] \in Run
           /\ run[r].pc \in Pc
           /\ run[r].say \in Recorded \cup {None}
           /\ run[r].settings \in Settings \cup {None}
           /\ run[r].after \in Settings \cup {None}
           /\ run[r].reads \in 0..MaxReads
  BY DEF TypeOK, Run

\* An invocation that goes on, or is about to record something.
LEMMA StepType ==
    ASSUME TypeOK, NEW r \in Runs, NEW from, NEW to \in Pc, Step(r, from, to)
    PROVE  /\ run' \in [Runs -> Run]
           /\ run[r].pc = from /\ run[r].say = None
           /\ run'[r].pc = to /\ run'[r].say = None
           /\ run'[r].settings = run[r].settings /\ run'[r].reads = run[r].reads
           /\ \A q \in Runs : q # r => run'[q] = run[q]
  BY RunParts DEF Step, TypeOK, Run

LEMMA SayType ==
    ASSUME TypeOK, NEW r \in Runs, NEW from, NEW what \in Recorded, Say(r, from, what)
    PROVE  /\ run' \in [Runs -> Run]
           /\ run[r].pc = from /\ run[r].say = None
           /\ run'[r].pc = from /\ run'[r].say = what /\ what # None
           /\ run'[r].settings = run[r].settings /\ run'[r].reads = run[r].reads
           /\ \A q \in Runs : q # r => run'[q] = run[q]
  BY RunParts, DistinctAssumption DEF Say, TypeOK, Run

\* A step that only changes one invocation.
LEMMA QuietMove ==
    ASSUME IndInv, NEW r \in Runs, TypeOK',
           \A q \in Runs : q # r => run'[q] = run[q],
           UNCHANGED <<disk, sent>>,
           UpdateOK(r)', RepairOK(r)',
           run'[r].pc \in Updating => run[r].pc \in Updating,
           run'[r].pc \in Repairing => run[r].pc \in Repairing
    PROVE  IndInv'
  <1>1. ASSUME NEW q \in Runs PROVE UpdateOK(q)' /\ RepairOK(q)'
    <2>1. CASE q = r
      BY <2>1
    <2>2. CASE q # r
      BY <2>2 DEF IndInv, UpdateOK, RepairOK, Announced, Effects!Sent, Receipts
    <2> QED BY <2>1, <2>2
  <1>2. ASSUME NEW p \in Runs, NEW q \in Runs,
               \/ {run'[p].pc, run'[q].pc} \subseteq Updating
               \/ {run'[p].pc, run'[q].pc} \subseteq Repairing
        PROVE  p = q
    <2>1. \/ {run[p].pc, run[q].pc} \subseteq Updating
          \/ {run[p].pc, run[q].pc} \subseteq Repairing
      BY <1>2
    <2> QED BY <2>1 DEF IndInv
  <1> QED BY <1>1, <1>2 DEF IndInv, RecoveryReady, Announced, Effects!Sent, Receipts

\* The value that stands for nothing is no state that is recorded.
LEMMA NoneRecorded == \A w \in Recorded : w # None
  BY DistinctAssumption

\* Where an invocation has nothing to record.
LEMMA Silent ==
    ASSUME IndInv, NEW r \in Runs,
           run[r].pc \in {"new", "approved", "read", "restore", "repair-read", "ended"}
    PROVE  run[r].say = None
  <1>1. Says(run[r].pc) = {}
    BY DEF Says
  <1> QED BY <1>1 DEF IndInv, UpdateOK

\* A step that leaves the directory and the device alone keeps their types.
LEMMA QuietType ==
    ASSUME TypeOK, run' \in [Runs -> Run], observed' \subseteq Settings,
           UNCHANGED <<disk, mode, device, sent>>
    PROVE  TypeOK'
  BY DEF TypeOK

\* The actions of update-one that only read, wait or announce.
LEMMA PreflightOneInd ==
    ASSUME IndInv, NEW r \in Runs, PreflightOne(r)
    PROVE  IndInv'
  <1>1. Step(r, "new", "approved") /\ "approved" \in Pc /\ TypeOK /\ RepairOK(r)
    BY DEF PreflightOne, Pc, IndInv
  <1>2. TypeOK'
    BY <1>1, StepType, QuietType DEF PreflightOne, TypeOK
  <1>3. UpdateOK(r)' /\ RepairOK(r)'
    BY <1>1, StepType, NoneRecorded
       DEF UpdateOK, RepairOK, Updating, BeforeUpload, AfterUpload, Repairing, Recorded
  <1> QED BY <1>1, <1>2, <1>3, StepType, QuietMove
       DEF PreflightOne, Updating, BeforeUpload, AfterUpload, Repairing

LEMMA ReadSettingsInd ==
    ASSUME IndInv, NEW r \in Runs, ReadSettings(r)
    PROVE  IndInv'
  <1>1. /\ TypeOK /\ UpdateOK(r) /\ RepairOK(r) /\ settings \in Settings
        /\ run[r] \in Run /\ run[r].pc = "approved"
    BY RunParts DEF IndInv, TypeOK, ReadSettings
  <1>2. run[r].say = None
    BY <1>1, Silent
  <1>3. /\ run' \in [Runs -> Run]
        /\ run'[r].pc = "read" /\ run'[r].say = None /\ run'[r].settings \in Settings
        /\ run'[r].reads = run[r].reads
        /\ \A q \in Runs : q # r => run'[q] = run[q]
    BY <1>1, <1>2 DEF ReadSettings, TypeOK, Run, Pc
  <1>4. TypeOK'
    BY <1>1, <1>3, QuietType DEF ReadSettings, TypeOK
  <1>5. UpdateOK(r)' /\ RepairOK(r)'
    BY <1>1, <1>3, NoneRecorded
       DEF UpdateOK, RepairOK, Updating, BeforeUpload, AfterUpload, Repairing, Recorded
  <1> QED BY <1>3, <1>4, <1>5, QuietMove
       DEF ReadSettings, Updating, BeforeUpload, AfterUpload, Repairing

\* An invocation that comes to a durable write, or a read, it then stops at.
LEMMA QuietSay ==
    ASSUME IndInv, NEW r \in Runs, NEW from \in Pc \ {"locked", "upload", "install"},
           NEW what \in Says(from), what \in Recorded, Say(r, from, what),
           observed' \subseteq Settings, UNCHANGED <<disk, mode, device, sent>>
    PROVE  IndInv'
  <1>1. TypeOK
    BY DEF IndInv
  <1>2. TypeOK'
    BY <1>1, SayType, QuietType
  <1>3. /\ run[r].pc = from /\ run[r].say = None
        /\ run'[r].pc = from /\ run'[r].say = what
        /\ run'[r].settings = run[r].settings /\ run'[r].reads = run[r].reads
    BY <1>1, SayType
  <1>4. what # "backup-ready" /\ what # None
    <2>1. ASSUME what = "backup-ready" PROVE FALSE
      BY <2>1 DEF Says, Pc
    <2> QED BY <2>1, NoneRecorded
  <1>5. UpdateOK(r) /\ RepairOK(r)
    BY DEF IndInv
  <1>6. UpdateOK(r)'
    BY <1>3, <1>4, <1>5 DEF UpdateOK, Announced, Effects!Sent, Receipts
  <1>7. RepairOK(r)'
    BY <1>3, <1>4, <1>5, NoneRecorded DEF RepairOK, Announced, Effects!Sent, Receipts, OnlyFlagLost, Recorded
  <1>8. \A q \in Runs : q # r => run'[q] = run[q]
    BY <1>1, SayType
  <1> QED BY <1>2, <1>3, <1>6, <1>7, <1>8, QuietMove

LEMMA RecheckInd ==
    ASSUME IndInv, NEW r \in Runs, Recheck(r)
    PROVE  IndInv'
  <1>1. TypeOK /\ UpdateOK(r) /\ RepairOK(r) /\ observed \subseteq Settings
    BY DEF IndInv, TypeOK
  <1>2. CASE Step(r, "backed-up", "checked")
    <2>1. TypeOK'
      BY <1>1, <1>2, StepType, QuietType DEF Recheck, Pc
    <2>2. UpdateOK(r)' /\ RepairOK(r)'
      BY <1>1, <1>2, StepType, NoneRecorded
         DEF Recheck, Pc, UpdateOK, RepairOK, Updating, BeforeUpload, AfterUpload, Repairing,
             Recorded, Announced, Effects!Sent, Receipts
    <2> QED BY <1>1, <1>2, <2>1, <2>2, StepType, QuietMove
         DEF Recheck, Pc, Updating, BeforeUpload, AfterUpload, Repairing
  <1>3. CASE Say(r, "backed-up", "pre-upload-settings-changed")
    BY <1>1, <1>3, QuietSay DEF Recheck, Says, Pc, Recorded
  <1> QED BY <1>2, <1>3 DEF Recheck

LEMMA AnnounceInd ==
    ASSUME IndInv, NEW r \in Runs, AnnounceUpload(r) \/ AnnounceInstall(r)
    PROVE  IndInv'
  <1>1. observed \subseteq Settings
    BY DEF IndInv, TypeOK
  <1> QED BY <1>1, QuietSay DEF AnnounceUpload, AnnounceInstall, Says, Pc, Recorded

LEMMA PollFirmwareInd ==
    ASSUME IndInv, NEW r \in Runs, PollFirmware(r)
    PROVE  IndInv'
  <1>1. /\ TypeOK /\ UpdateOK(r) /\ RepairOK(r) /\ settings \in Settings /\ observed \subseteq Settings
        /\ run[r] \in Run /\ run[r].pc = "waiting" /\ run[r].say = None
    BY RunParts DEF IndInv, TypeOK, PollFirmware
  <1>2. /\ run' \in [Runs -> Run]
        /\ run'[r].pc = "settling" /\ run'[r].say = None /\ run'[r].settings = run[r].settings
        /\ run'[r].reads = run[r].reads
        /\ \A q \in Runs : q # r => run'[q] = run[q]
    BY <1>1 DEF PollFirmware, TypeOK, Run, Pc
  <1>3. TypeOK'
    BY <1>1, <1>2, QuietType DEF PollFirmware
  <1>4. UpdateOK(r)' /\ RepairOK(r)'
    BY <1>1, <1>2, NoneRecorded
       DEF PollFirmware, UpdateOK, RepairOK, Updating, BeforeUpload, AfterUpload, Repairing,
           Recorded, Announced, Effects!Sent, Receipts
  <1> QED BY <1>1, <1>2, <1>3, <1>4, QuietMove
       DEF PollFirmware, Updating, BeforeUpload, AfterUpload, Repairing

LEMMA PollStatusInd ==
    ASSUME IndInv, NEW r \in Runs, PollStatus(r) \/ StopWaiting(r)
    PROVE  IndInv'
  <1>1. TypeOK /\ UpdateOK(r) /\ RepairOK(r) /\ observed \subseteq Settings
    BY DEF IndInv, TypeOK
  <1>2. CASE \E pc \in {"waiting", "settling"}, what \in Says("settling") :
               Say(r, pc, what) /\ what \in Says(pc)
    BY <1>1, <1>2, QuietSay DEF PollStatus, StopWaiting, Says, Pc, Recorded, Changed
  <1>3. CASE Step(r, "settling", "waiting") /\ PollStatus(r)
    <2>1. TypeOK'
      BY <1>1, <1>3, StepType, QuietType DEF PollStatus, Pc
    <2>2. UpdateOK(r)' /\ RepairOK(r)'
      BY <1>1, <1>3, StepType, NoneRecorded
         DEF PollStatus, Pc, UpdateOK, RepairOK, Updating, BeforeUpload, AfterUpload, Repairing,
             Recorded, Announced, Effects!Sent, Receipts
    <2> QED BY <1>1, <1>3, <2>1, <2>2, StepType, QuietMove
         DEF PollStatus, Pc, Updating, BeforeUpload, AfterUpload, Repairing
  <1> QED BY <1>2, <1>3 DEF PollStatus, StopWaiting, Says

\* The reads of verify-one and of restore-recording-one.
LEMMA VerifyOneReadInd ==
    ASSUME IndInv, NEW r \in Runs, VerifyOneRead(r)
    PROVE  IndInv'
  <1>1. /\ TypeOK /\ RepairOK(r) /\ settings \in Settings /\ observed \subseteq Settings
        /\ run[r] \in Run /\ run[r].pc = "new" /\ run[r].say = None
    BY RunParts, Silent DEF IndInv, TypeOK, VerifyOneRead
  <1>2. /\ run' \in [Runs -> Run]
        /\ run'[r].pc = "verify" /\ run'[r].say = None /\ run'[r].reads = run[r].reads
        /\ \A q \in Runs : q # r => run'[q] = run[q]
    BY <1>1 DEF VerifyOneRead, TypeOK, Run, Pc
  <1>3. TypeOK'
    BY <1>1, <1>2, QuietType DEF VerifyOneRead
  <1>4. UpdateOK(r)' /\ RepairOK(r)'
    BY <1>1, <1>2, NoneRecorded
       DEF VerifyOneRead, UpdateOK, RepairOK, Updating, BeforeUpload, AfterUpload, Repairing,
           Recorded, Receipts
  <1> QED BY <1>1, <1>2, <1>3, <1>4, QuietMove
       DEF VerifyOneRead, Updating, BeforeUpload, AfterUpload, Repairing

LEMMA StatusInd ==
    ASSUME IndInv, NEW r \in Runs, VerifyOneStatus(r) \/ RepairStatus(r)
    PROVE  IndInv'
  <1>1. observed \subseteq Settings
    BY DEF IndInv, TypeOK
  <1> QED BY <1>1, QuietSay DEF VerifyOneStatus, RepairStatus, Says, Pc, Recorded, Changed

LEMMA RestoreReadInd ==
    ASSUME IndInv, NEW r \in Runs, RestoreRead(r)
    PROVE  IndInv'
  <1>1. /\ TypeOK /\ RepairOK(r) /\ settings \in Settings /\ observed \subseteq Settings
        /\ run[r] \in Run /\ run[r].pc = "new" /\ run[r].say = None
    BY RunParts, Silent DEF IndInv, TypeOK, RestoreRead
  <1>2. /\ run' \in [Runs -> Run]
        /\ run'[r].pc = "restore" /\ run'[r].say = None /\ run'[r].settings = settings
        /\ run'[r].reads = run[r].reads
        /\ \A q \in Runs : q # r => run'[q] = run[q]
    BY <1>1 DEF RestoreRead, TypeOK, Run, Pc
  <1>3. TypeOK'
    BY <1>1, <1>2, QuietType DEF RestoreRead
  <1>4. UpdateOK(r)' /\ RepairOK(r)'
    BY <1>1, <1>2, NoneRecorded
       DEF RestoreRead, UpdateOK, RepairOK, Updating, BeforeUpload, AfterUpload, Repairing,
           Recorded, Receipts, OnlyFlagLost
  <1> QED BY <1>1, <1>2, <1>3, <1>4, QuietMove
       DEF RestoreRead, Updating, BeforeUpload, AfterUpload, Repairing

LEMMA RereadRepairInd ==
    ASSUME IndInv, NEW r \in Runs, RereadRepair(r)
    PROVE  IndInv'
  <1>1. /\ TypeOK /\ UpdateOK(r) /\ RepairOK(r) /\ settings \in Settings /\ observed \subseteq Settings
        /\ run[r] \in Run /\ run[r].pc = "restore-locked" /\ run[r].say = None
    BY RunParts DEF IndInv, TypeOK, RereadRepair
  <1>2. /\ run' \in [Runs -> Run]
        /\ run'[r].pc = "restore-locked" /\ run'[r].settings = settings
        /\ run'[r].reads = run[r].reads
        /\ run'[r].say = IF settings = run[r].settings
                         THEN "recording-recovery-starting"
                         ELSE "recording-recovery-prewrite-settings-changed"
        /\ \A q \in Runs : q # r => run'[q] = run[q]
    BY <1>1 DEF RereadRepair, TypeOK, Run, Pc, Recorded
  <1>3. TypeOK'
    BY <1>1, <1>2, QuietType DEF RereadRepair
  <1>4. run'[r].say \in Says("restore-locked")
    BY <1>2 DEF Says
  <1>5. UpdateOK(r)'
    BY <1>1, <1>2, <1>4
       DEF RereadRepair, UpdateOK, Updating, BeforeUpload, AfterUpload
  <1>6. RepairOK(r)'
    BY <1>1, <1>2, NoneRecorded
       DEF RereadRepair, RepairOK, Repairing, Recorded, Receipts, OnlyFlagLost, Announced, Effects!Sent
  <1> QED BY <1>1, <1>2, <1>3, <1>5, <1>6, QuietMove
       DEF RereadRepair, Updating, BeforeUpload, AfterUpload, Repairing

LEMMA ReadRepairInd ==
    ASSUME IndInv, NEW r \in Runs, ReadRepair(r)
    PROVE  IndInv'
  <1>1. /\ TypeOK /\ UpdateOK(r) /\ RepairOK(r) /\ settings \in Settings /\ observed \subseteq Settings
        /\ run[r] \in Run /\ run[r].pc = "repair-read" /\ run[r].say = None
        /\ run[r].reads \in 0..(MaxReads - 1) /\ MaxReads \in Nat
    BY RunParts, Silent, ReadsAssumption DEF IndInv, TypeOK, ReadRepair, RepairOK
  <1>2. /\ run' \in [Runs -> Run]
        /\ run'[r].pc \in {"repair-read", "repair-status"} /\ run'[r].say = None
        /\ run'[r].pc = "repair-read" => run'[r].reads < MaxReads
        /\ \A q \in Runs : q # r => run'[q] = run[q]
    <2>1. run[r].reads + 1 \in 0..MaxReads /\ (run[r].reads + 1 # MaxReads => run[r].reads + 1 < MaxReads)
      BY <1>1
    <2> QED BY <1>1, <2>1 DEF ReadRepair, TypeOK, Run, Pc
  <1>3. TypeOK'
    BY <1>1, <1>2, QuietType DEF ReadRepair
  <1>4. UpdateOK(r)' /\ RepairOK(r)'
    BY <1>1, <1>2, NoneRecorded
       DEF ReadRepair, UpdateOK, RepairOK, Updating, BeforeUpload, AfterUpload, Repairing,
           Recorded, Receipts
  <1> QED BY <1>1, <1>2, <1>3, <1>4, QuietMove
       DEF ReadRepair, Updating, BeforeUpload, AfterUpload, Repairing

--------------------------------------------------------------------------------
(* Steps that write to the directory or submit an effect                       *)

\* A step that neither announces nor submits an effect
Same(e) == (Announced(e)' <=> Announced(e)) /\ (Effects!Sent(e)' <=> Effects!Sent(e))

\* What such a step of r leaves in place of another invocation: what q relies
\* on changes only in the hands of the holder of the lock file.
LEMMA Others ==
    ASSUME IndInv, NEW r \in Runs, NEW q \in Runs, q # r, run'[q] = run[q],
           Receipts => Receipts' /\ backup' = backup,
           effectLock = "whole" => effectLock' = "whole",
           repairLock => repairLock',
           run[r].pc \in Updating \/ effectLock = "absent" \/
              /\ state' \notin Early \/ state' = state
              /\ Same("upload") /\ Same("install"),
           run[r].pc \in Repairing \/ ~repairLock \/ Same("repair")
    PROVE  UpdateOK(q)' /\ RepairOK(q)'
  <1>1. UpdateOK(q) /\ RepairOK(q)
    BY DEF IndInv
  <1>2. run[q].say = "backup-ready" => run[q].pc = "locked"
    BY <1>1, NoneRecorded DEF UpdateOK, Says, Recorded
  <1>3. CASE run[q].pc \in Updating
    <2>1. run[r].pc \notin Updating /\ effectLock = "whole"
      BY <1>1, <1>3 DEF IndInv, UpdateOK
    <2>2. UpdateOK(q)'
      BY <1>1, <1>3, <2>1 DEF UpdateOK, Same, Updating, BeforeUpload, AfterUpload
    <2>3. RepairOK(q)'
      BY <1>1, <1>3 DEF RepairOK, Updating, BeforeUpload, AfterUpload, Repairing
    <2> QED BY <2>2, <2>3
  <1>4. CASE run[q].pc \in Repairing
    <2>1. run[r].pc \notin Repairing /\ repairLock
      BY <1>1, <1>4 DEF IndInv, RepairOK
    <2>2. UpdateOK(q)'
      BY <1>1, <1>2, <1>4 DEF UpdateOK, Updating, BeforeUpload, AfterUpload, Repairing
    <2>3. RepairOK(q)'
      BY <1>1, <1>4, <2>1 DEF RepairOK, Repairing, Receipts, Same
    <2> QED BY <2>2, <2>3
  <1>5. CASE run[q].pc \notin Updating \cup Repairing
    <2>1. UpdateOK(q)'
      BY <1>1, <1>2, <1>5 DEF UpdateOK, Updating, BeforeUpload, AfterUpload
    <2>2. RepairOK(q)'
      BY <1>1, <1>5 DEF RepairOK, Repairing
    <2> QED BY <2>1, <2>2
  <1> QED BY <1>3, <1>4, <1>5

\* An invocation takes a lock file only when nobody has it.
LEMMA StillExclusive ==
    ASSUME IndInv, NEW r \in Runs, \A q \in Runs : q # r => run'[q] = run[q],
           run'[r].pc \in Updating => run[r].pc \in Updating \/ effectLock = "absent",
           run'[r].pc \in Repairing => run[r].pc \in Repairing \/ ~repairLock
    PROVE  Exclusive'
  <1>1. \A q \in Runs : UpdateOK(q) /\ RepairOK(q)
    BY DEF IndInv
  <1>2. \A q \in Runs : run[q].pc \in Updating => effectLock = "whole"
    BY <1>1 DEF UpdateOK
  <1>3. \A q \in Runs : run[q].pc \in Repairing => repairLock
    BY <1>1 DEF RepairOK
  <1>4. ASSUME NEW p \in Runs, NEW q \in Runs, {run'[p].pc, run'[q].pc} \subseteq Updating, p # q
        PROVE  FALSE
    <2>1. CASE p # r /\ q # r
      BY <1>4, <2>1 DEF IndInv
    <2>2. CASE p = r
      BY <1>2, <1>4, <2>2 DEF IndInv
    <2>3. CASE q = r
      BY <1>2, <1>4, <2>3 DEF IndInv
    <2> QED BY <2>1, <2>2, <2>3
  <1>5. ASSUME NEW p \in Runs, NEW q \in Runs, {run'[p].pc, run'[q].pc} \subseteq Repairing, p # q
        PROVE  FALSE
    <2>1. CASE p # r /\ q # r
      BY <1>5, <2>1 DEF IndInv
    <2>2. CASE p = r
      BY <1>3, <1>5, <2>2 DEF IndInv
    <2>3. CASE q = r
      BY <1>3, <1>5, <2>3 DEF IndInv
    <2> QED BY <2>1, <2>2, <2>3
  <1> QED BY <1>4, <1>5 DEF Exclusive

\* The conjuncts of the invariant that are not about single invocations.
LEMMA IndInvParts ==
    ASSUME TypeOK', \A r \in Runs : UpdateOK(r)' /\ RepairOK(r)', Exclusive',
           effectLock' = "absent" => \A e \in {"upload", "install"} : ~Effects!Sent(e)' /\ ~Announced(e)',
           ~repairLock' => ~Effects!Sent("repair")' /\ ~Announced("repair")',
           Effects!Sent("install")' => Effects!Sent("upload")',
           RecoveryReady'
    PROVE  IndInv'
  BY DEF IndInv, Exclusive

LEMMA AcquireEffectStateInd ==
    ASSUME IndInv, NEW r \in Runs, AcquireEffectState(r)
    PROVE  IndInv'
  <1>1. TypeOK /\ UpdateOK(r) /\ RepairOK(r) /\ Step(r, "read", "locked") /\ "locked" \in Pc
    BY DEF IndInv, AcquireEffectState, Pc
  <1>2. /\ run[r].pc = "read" /\ run[r].say = None
        /\ run'[r].pc = "locked" /\ run'[r].say = None
        /\ run'[r].settings = run[r].settings /\ run'[r].reads = run[r].reads
        /\ \A q \in Runs : q # r => run'[q] = run[q]
    BY <1>1, StepType
  <1>3. TypeOK'
    BY <1>1, StepType DEF TypeOK, AcquireEffectState
  <1>4. /\ effectLock = "absent" /\ effectLock' = "whole"
        /\ \A e : (Announced(e)' <=> Announced(e)) /\ (Effects!Sent(e)' <=> Effects!Sent(e))
        /\ \A e \in {"upload", "install"} : ~Effects!Sent(e) /\ ~Announced(e)
        /\ ~Receipts
    BY DEF AcquireEffectState, IndInv, Announced, Effects!Sent, Receipts
  <1>5. UpdateOK(r)' /\ RepairOK(r)'
    BY <1>1, <1>2, <1>4, NoneRecorded
       DEF UpdateOK, RepairOK, Updating, BeforeUpload, AfterUpload, Repairing, Recorded
  <1>6. ASSUME NEW q \in Runs, q # r PROVE UpdateOK(q)' /\ RepairOK(q)'
    BY <1>2, <1>4, <1>6, Others DEF AcquireEffectState, Same
  <1>7. Exclusive'
    BY <1>2, <1>4, StillExclusive DEF Repairing
  <1>8. RecoveryReady' /\ (~repairLock' => ~Effects!Sent("repair")' /\ ~Announced("repair")')
    BY <1>4 DEF RecoveryReady, AcquireEffectState, IndInv
  <1> QED BY <1>3, <1>4, <1>5, <1>6, <1>7, <1>8, IndInvParts

LEMMA LockRepairInd ==
    ASSUME IndInv, NEW r \in Runs, LockRepair(r)
    PROVE  IndInv'
  <1>1. TypeOK /\ UpdateOK(r) /\ RepairOK(r) /\ Step(r, "restore", "restore-locked") /\ "restore-locked" \in Pc
    BY DEF IndInv, LockRepair, Pc
  <1>2. /\ run[r].pc = "restore" /\ run[r].say = None
        /\ run'[r].pc = "restore-locked" /\ run'[r].say = None
        /\ run'[r].settings = run[r].settings /\ run'[r].reads = run[r].reads
        /\ \A q \in Runs : q # r => run'[q] = run[q]
    BY <1>1, StepType
  <1>3. TypeOK'
    BY <1>1, StepType DEF TypeOK, LockRepair
  <1>4. /\ ~repairLock /\ repairLock'
        /\ \A e : (Announced(e)' <=> Announced(e)) /\ (Effects!Sent(e)' <=> Effects!Sent(e))
        /\ ~Effects!Sent("repair") /\ ~Announced("repair")
        /\ Receipts' = Receipts /\ OnlyFlagLost(backup, run[r].settings)' = OnlyFlagLost(backup, run'[r].settings)
    BY DEF LockRepair, IndInv, Announced, Effects!Sent, Receipts, OnlyFlagLost
  <1>5. UpdateOK(r)' /\ RepairOK(r)'
    BY <1>1, <1>2, <1>4, NoneRecorded
       DEF UpdateOK, RepairOK, Updating, BeforeUpload, AfterUpload, Repairing, Recorded,
           LockRepair, OnlyFlagLost
  <1>6. ASSUME NEW q \in Runs, q # r PROVE UpdateOK(q)' /\ RepairOK(q)'
    BY <1>2, <1>4, <1>6, Others DEF LockRepair, Same
  <1>7. Exclusive'
    BY <1>2, <1>4, StillExclusive DEF Updating, BeforeUpload, AfterUpload
  <1>8. /\ RecoveryReady'
        /\ effectLock' = "absent" => \A e \in {"upload", "install"} : ~Effects!Sent(e)' /\ ~Announced(e)'
        /\ Effects!Sent("install")' => Effects!Sent("upload")'
    BY <1>4 DEF RecoveryReady, LockRepair, IndInv
  <1> QED BY <1>3, <1>4, <1>5, <1>6, <1>7, <1>8, IndInvParts

LEMMA WriteRecoveryBackupInd ==
    ASSUME IndInv, NEW r \in Runs, WriteRecoveryBackup(r)
    PROVE  IndInv'
  <1>1. /\ TypeOK /\ UpdateOK(r) /\ RepairOK(r)
        /\ Say(r, "locked", "backup-ready") /\ "backup-ready" \in Recorded
    BY DEF IndInv, WriteRecoveryBackup, Recorded
  <1>2. /\ run[r].pc = "locked" /\ run[r].say = None
        /\ run'[r].pc = "locked" /\ run'[r].say = "backup-ready"
        /\ run'[r].settings = run[r].settings /\ run'[r].reads = run[r].reads
        /\ \A q \in Runs : q # r => run'[q] = run[q]
    BY <1>1, SayType
  <1>3. run[r].settings \in Settings /\ effectLock = "whole" /\ backup = None /\ None \notin Settings
    BY <1>1, <1>2, DistinctAssumption DEF UpdateOK, WriteRecoveryBackup, Updating, BeforeUpload
  <1>4. TypeOK'
    BY <1>1, <1>3, SayType DEF TypeOK, WriteRecoveryBackup
  <1>5. /\ \A e : (Announced(e)' <=> Announced(e)) /\ (Effects!Sent(e)' <=> Effects!Sent(e))
        /\ ~Receipts /\ Receipts' /\ backup' = run[r].settings
    BY <1>3 DEF WriteRecoveryBackup, Announced, Effects!Sent, Receipts
  <1>6. UpdateOK(r)' /\ RepairOK(r)'
    BY <1>1, <1>2, <1>3, <1>5, NoneRecorded
       DEF UpdateOK, RepairOK, Updating, BeforeUpload, AfterUpload, Repairing, Recorded, Says,
           WriteRecoveryBackup
  <1>7. ASSUME NEW q \in Runs, q # r PROVE UpdateOK(q)' /\ RepairOK(q)'
    BY <1>2, <1>5, <1>7, Others DEF WriteRecoveryBackup, Same
  <1>8. Exclusive'
    BY <1>2, StillExclusive DEF Repairing
  <1>9. RecoveryReady'
    BY <1>1, <1>2, <1>5 DEF RecoveryReady, UpdateOK, BeforeUpload
  <1>10. /\ effectLock' = "absent" => \A e \in {"upload", "install"} : ~Effects!Sent(e)' /\ ~Announced(e)'
         /\ ~repairLock' => ~Effects!Sent("repair")' /\ ~Announced("repair")'
         /\ Effects!Sent("install")' => Effects!Sent("upload")'
    BY <1>5 DEF WriteRecoveryBackup, IndInv
  <1> QED BY <1>4, <1>6, <1>7, <1>8, <1>9, <1>10, IndInvParts

LEMMA UploadFirmwareOnceInd ==
    ASSUME IndInv, NEW r \in Runs, UploadFirmwareOnce(r)
    PROVE  IndInv'
  <1>1. /\ TypeOK /\ UpdateOK(r) /\ RepairOK(r) /\ sent' = Append(sent, "upload")
        /\ UNCHANGED <<disk, mode, observed>>
    BY DEF IndInv, UploadFirmwareOnce
  <1>2. PICK answer \in {"uploaded", "upload-unknown", "upload-rejected"} : Say(r, "upload", answer)
    BY DEF UploadFirmwareOnce
  <1>3. answer \in Recorded /\ answer \in Says("upload")
    BY <1>2 DEF Recorded, Says
  <1>4. /\ run[r].pc = "upload" /\ run[r].say = None
        /\ run'[r].pc = "upload" /\ run'[r].say = answer /\ answer # None
        /\ run'[r].settings = run[r].settings /\ run'[r].reads = run[r].reads
        /\ \A q \in Runs : q # r => run'[q] = run[q]
    BY <1>1, <1>2, <1>3, SayType
  <1>5. /\ \A e : (Announced(e)' <=> Announced(e))
        /\ \A e : Effects!Sent(e)' <=> Effects!Sent(e) \/ e = "upload"
        /\ sent' \in Seq({"upload", "install", "repair"})
        /\ Receipts' = Receipts
    BY <1>1, SentAppended DEF Announced, Receipts
  <1>6. TypeOK'
    BY <1>1, <1>2, <1>3, <1>5, SayType DEF TypeOK, UploadFirmwareOnce
  <1>7. /\ Receipts /\ backup = run[r].settings /\ state \notin Early /\ effectLock = "whole"
        /\ Announced("upload") /\ ~Effects!Sent("upload")
        /\ ~Announced("install") /\ ~Effects!Sent("install")
    BY <1>1, <1>4 DEF UpdateOK, Updating, BeforeUpload, AfterUpload
  <1>8. UpdateOK(r)' /\ RepairOK(r)'
    BY <1>1, <1>3, <1>4, <1>5, <1>7
       DEF UpdateOK, RepairOK, Updating, BeforeUpload, AfterUpload, Repairing
  <1>9. ASSUME NEW q \in Runs, q # r PROVE UpdateOK(q)' /\ RepairOK(q)'
    BY <1>1, <1>4, <1>5, <1>9, Others DEF Updating, AfterUpload, Same
  <1>10. Exclusive'
    BY <1>4, StillExclusive DEF Repairing
  <1>11. /\ RecoveryReady'
         /\ effectLock' = "absent" => \A e \in {"upload", "install"} : ~Effects!Sent(e)' /\ ~Announced(e)'
         /\ ~repairLock' => ~Effects!Sent("repair")' /\ ~Announced("repair")'
         /\ Effects!Sent("install")' => Effects!Sent("upload")'
    BY <1>1, <1>5, <1>7 DEF RecoveryReady, IndInv
  <1> QED BY <1>6, <1>8, <1>9, <1>10, <1>11, IndInvParts

LEMMA StartFirmwareUpdateOnceInd ==
    ASSUME IndInv, NEW r \in Runs, StartFirmwareUpdateOnce(r)
    PROVE  IndInv'
  <1>1. /\ TypeOK /\ UpdateOK(r) /\ RepairOK(r) /\ sent' = Append(sent, "install")
        /\ UNCHANGED <<disk, mode, observed>>
    BY DEF IndInv, StartFirmwareUpdateOnce
  <1>2. PICK answer \in {"install-accepted", "install-unknown", "install-rejected"} : Say(r, "install", answer)
    BY DEF StartFirmwareUpdateOnce
  <1>3. answer \in Recorded /\ answer \in Says("install")
    BY <1>2 DEF Recorded, Says
  <1>4. /\ run[r].pc = "install" /\ run[r].say = None
        /\ run'[r].pc = "install" /\ run'[r].say = answer /\ answer # None
        /\ run'[r].settings = run[r].settings /\ run'[r].reads = run[r].reads
        /\ \A q \in Runs : q # r => run'[q] = run[q]
    BY <1>1, <1>2, <1>3, SayType
  <1>5. /\ \A e : (Announced(e)' <=> Announced(e))
        /\ \A e : Effects!Sent(e)' <=> Effects!Sent(e) \/ e = "install"
        /\ sent' \in Seq({"upload", "install", "repair"})
        /\ Receipts' = Receipts
    BY <1>1, SentAppended DEF Announced, Receipts
  <1>6. TypeOK'
    BY <1>1, <1>2, <1>3, <1>5, SayType DEF TypeOK, StartFirmwareUpdateOnce
  <1>7. /\ Receipts /\ backup = run[r].settings /\ state \notin Early /\ effectLock = "whole"
        /\ Effects!Sent("upload") /\ Announced("install") /\ ~Effects!Sent("install")
    BY <1>1, <1>4 DEF UpdateOK, Updating, BeforeUpload, AfterUpload
  <1>8. UpdateOK(r)' /\ RepairOK(r)'
    BY <1>1, <1>3, <1>4, <1>5, <1>7
       DEF UpdateOK, RepairOK, Updating, BeforeUpload, AfterUpload, Repairing
  <1>9. ASSUME NEW q \in Runs, q # r PROVE UpdateOK(q)' /\ RepairOK(q)'
    BY <1>1, <1>4, <1>5, <1>9, Others DEF Updating, AfterUpload, Same
  <1>10. Exclusive'
    BY <1>4, StillExclusive DEF Repairing
  <1>11. /\ RecoveryReady'
         /\ effectLock' = "absent" => \A e \in {"upload", "install"} : ~Effects!Sent(e)' /\ ~Announced(e)'
         /\ ~repairLock' => ~Effects!Sent("repair")' /\ ~Announced("repair")'
         /\ Effects!Sent("install")' => Effects!Sent("upload")'
    BY <1>1, <1>5, <1>7 DEF RecoveryReady, IndInv
  <1> QED BY <1>6, <1>8, <1>9, <1>10, <1>11, IndInvParts

\* What a repair submits is the backup.
LEMMA RepairValue ==
    ASSUME NEW before \in Settings, NEW now, OnlyFlagLost(before, now)
    PROVE  [now EXCEPT !.rec = before.rec] = before
  BY DEF OnlyFlagLost, Settings

LEMMA SubmitRepairInd ==
    ASSUME IndInv, NEW r \in Runs, SubmitRepair(r)
    PROVE  IndInv' /\ importing' \in {importing, backup}
  <1>1. /\ TypeOK /\ UpdateOK(r) /\ RepairOK(r) /\ sent' = Append(sent, "repair")
        /\ UNCHANGED <<disk, mode, observed>>
    BY DEF IndInv, SubmitRepair
  <1>2. /\ run[r].pc = "repair" /\ run[r].say = None
        /\ run' \in [Runs -> Run]
        /\ \/ run'[r].pc = "repair-read" /\ run'[r].say = None
           \/ run'[r].pc = "repair" /\ run'[r].say = "recording-recovery-response-unknown"
        /\ run'[r].settings = run[r].settings /\ run'[r].reads = run[r].reads
        /\ \A q \in Runs : q # r => run'[q] = run[q]
    <2>1. CASE Step(r, "repair", "repair-read")
      BY <1>1, <2>1, StepType DEF Pc
    <2>2. CASE Say(r, "repair", "recording-recovery-response-unknown")
      BY <1>1, <2>2, SayType DEF Recorded
    <2> QED BY <2>1, <2>2 DEF SubmitRepair
  <1>3. /\ repairLock /\ Receipts /\ OnlyFlagLost(backup, run[r].settings)
        /\ Announced("repair") /\ ~Effects!Sent("repair")
    BY <1>1, <1>2 DEF RepairOK, Repairing
  <1>4. importing' \in {importing, backup}
    BY <1>3, RepairValue DEF SubmitRepair, Receipts
  <1>5. /\ \A e : (Announced(e)' <=> Announced(e))
        /\ \A e : Effects!Sent(e)' <=> Effects!Sent(e) \/ e = "repair"
        /\ sent' \in Seq({"upload", "install", "repair"})
        /\ Receipts' = Receipts
    BY <1>1, SentAppended DEF Announced, Receipts
  <1>6. TypeOK'
    BY <1>1, <1>2, <1>3, <1>4, <1>5 DEF TypeOK, SubmitRepair, Receipts
  <1>7. UpdateOK(r)' /\ RepairOK(r)'
    BY <1>1, <1>2, <1>3, <1>5, NoneRecorded
       DEF UpdateOK, RepairOK, Updating, BeforeUpload, AfterUpload, Repairing, Says, Recorded
  <1>8. ASSUME NEW q \in Runs, q # r PROVE UpdateOK(q)' /\ RepairOK(q)'
    <2>1. Same("upload") /\ Same("install")
      BY <1>5 DEF Same
    <2>2. run[r].pc \in Repairing
      BY <1>2 DEF Repairing
    <2>3. /\ run'[q] = run[q] /\ state' = state /\ backup' = backup
          /\ effectLock' = effectLock /\ repairLock' = repairLock /\ Receipts' = Receipts
      BY <1>1, <1>2, <1>5, <1>8
    <2> QED BY <1>8, <2>1, <2>2, <2>3, Others
  <1>9. Exclusive'
    BY <1>2, StillExclusive DEF Updating, BeforeUpload, AfterUpload, Repairing
  <1>10. /\ RecoveryReady'
         /\ effectLock' = "absent" => \A e \in {"upload", "install"} : ~Effects!Sent(e)' /\ ~Announced(e)'
         /\ ~repairLock' => ~Effects!Sent("repair")' /\ ~Announced("repair")'
         /\ Effects!Sent("install")' => Effects!Sent("upload")'
    BY <1>1, <1>3, <1>5 DEF RecoveryReady, IndInv
  <1> QED BY <1>4, <1>6, <1>7, <1>8, <1>9, <1>10, IndInvParts

\* What an invocation that records a state may have been about.
LEMMA SayCases ==
    ASSUME IndInv, NEW r \in Runs, run[r].say # None
    PROVE  /\ run[r].say \in Recorded /\ run[r].say \in Says(run[r].pc)
           /\ run[r].pc \in Updating \cup Repairing \cup {"verify"}
           /\ run[r].say \in Early => run[r].pc \in {"locked", "backed-up"}
           /\ run[r].say = "upload-starting" => run[r].pc = "checked"
           /\ run[r].say = "install-starting" => run[r].pc = "uploaded"
           /\ run[r].say = "recording-recovery-starting" => run[r].pc = "restore-locked"
  <1>1. run[r].say \in Recorded /\ run[r].say \in Says(run[r].pc) /\ run[r].pc \in Pc
    BY RunParts DEF IndInv, UpdateOK
  <1>2. run[r].pc \in Updating \cup Repairing \cup {"verify"}
    BY <1>1 DEF Says, Updating, BeforeUpload, AfterUpload, Repairing
  <1>3. run[r].say # "backup-ready" \/ run[r].pc = "locked"
    BY <1>1 DEF Says
  <1>4. run[r].say # "pre-upload-settings-changed" \/ run[r].pc = "backed-up"
    BY <1>1 DEF Says
  <1>5. run[r].say # "upload-starting" \/ run[r].pc = "checked"
    BY <1>1 DEF Says
  <1>6. run[r].say # "install-starting" \/ run[r].pc = "uploaded"
    BY <1>1 DEF Says
  <1>7. run[r].say # "recording-recovery-starting" \/ run[r].pc = "restore-locked"
    BY <1>1 DEF Says
  <1> QED BY <1>1, <1>2, <1>3, <1>4, <1>5, <1>6, <1>7 DEF Early

\* The directory after a recorded state, also if only the event got there.
LEMMA RecordedDisk ==
    ASSUME IndInv, NEW r \in Runs, run[r].say # None,
           journal' = journal \cup {run[r].say}, state' \in {state, run[r].say},
           UNCHANGED <<effectLock, backup, repairLock, sent>>,
           \A q \in Runs : q # r => run'[q] = run[q]
    PROVE  /\ \A q \in Runs : q # r => UpdateOK(q)' /\ RepairOK(q)'
           /\ RecoveryReady'
           /\ effectLock' = "absent" => \A e \in {"upload", "install"} : ~Effects!Sent(e)' /\ ~Announced(e)'
           /\ ~repairLock' => ~Effects!Sent("repair")' /\ ~Announced("repair")'
           /\ Effects!Sent("install")' => Effects!Sent("upload")'
  <1>1. /\ UpdateOK(r) /\ RepairOK(r)
        /\ Receipts' = Receipts
        /\ \A e : Effects!Sent(e)' <=> Effects!Sent(e)
    BY DEF IndInv, Receipts, Effects!Sent
  <1>2. run[r].pc \notin Updating =>
           /\ run[r].say \notin Early
           /\ \A e \in {"upload", "install"} : Announced(e)' <=> Announced(e)
    BY SayCases DEF Announced, Starting, Updating, BeforeUpload, AfterUpload
  <1>3. run[r].pc \notin Repairing => (Announced("repair")' <=> Announced("repair"))
    BY SayCases DEF Announced, Starting, Repairing
  <1>4. ASSUME NEW q \in Runs, q # r PROVE UpdateOK(q)' /\ RepairOK(q)'
    <2>1. state' \notin Early \/ state' = state \/ run[r].pc \in Updating
      BY <1>2
    <2>2. run[r].pc \in Updating \/ (Same("upload") /\ Same("install"))
      BY <1>1, <1>2 DEF Same
    <2>3. run[r].pc \in Repairing \/ Same("repair")
      BY <1>1, <1>3 DEF Same
    <2>4. run'[q] = run[q]
      BY <1>4
    <2> QED BY <1>1, <1>4, <2>1, <2>2, <2>3, <2>4, Others
  <1>5. RecoveryReady'
    <2>1. Effects!Sent("upload") => Receipts /\ state \notin Early
      BY DEF IndInv, RecoveryReady
    <2>2. run[r].say \in Early => ~Effects!Sent("upload")
      BY <1>1, SayCases DEF UpdateOK, BeforeUpload
    <2>3. Effects!Sent("upload")' <=> Effects!Sent("upload")
      BY <1>1
    <2> QED BY <1>1, <2>1, <2>2, <2>3 DEF RecoveryReady
  <1>6. effectLock' = "absent" => \A e \in {"upload", "install"} : ~Effects!Sent(e)' /\ ~Announced(e)'
    BY <1>1, <1>2 DEF IndInv, UpdateOK
  <1>7. ~repairLock' => ~Effects!Sent("repair")' /\ ~Announced("repair")'
    BY <1>1, <1>3 DEF IndInv, RepairOK
  <1>8. Effects!Sent("install")' => Effects!Sent("upload")'
    BY <1>1 DEF IndInv
  <1> QED BY <1>4, <1>5, <1>6, <1>7, <1>8

\* Where an invocation goes on.
LEMMA AfterCases ==
    ASSUME IndInv, NEW r \in Runs, run[r].say # None
    PROVE  \/ After(run[r].say) = "ended"
           \/ run[r].say = "backup-ready" /\ run[r].pc = "locked" /\ After(run[r].say) = "backed-up"
           \/ run[r].say = "upload-starting" /\ run[r].pc = "checked" /\ After(run[r].say) = "upload"
           \/ run[r].say = "uploaded" /\ run[r].pc = "upload" /\ After(run[r].say) = "uploaded"
           \/ run[r].say = "install-starting" /\ run[r].pc = "uploaded" /\ After(run[r].say) = "install"
           \/ /\ run[r].say \in {"install-accepted", "install-unknown"} /\ run[r].pc = "install"
              /\ After(run[r].say) = "waiting"
           \/ /\ run[r].say = "recording-recovery-starting" /\ run[r].pc = "restore-locked"
              /\ After(run[r].say) = "repair"
  <1>1. run[r].say = "uploaded" => run[r].pc = "upload"
    BY SayCases DEF Says
  <1>2. run[r].say \in {"install-accepted", "install-unknown"} => run[r].pc = "install"
    BY SayCases DEF Says
  <1>3. run[r].say = "backup-ready" => run[r].pc = "locked"
    BY SayCases DEF Says
  <1>4. \/ After(run[r].say) = "ended"
        \/ run[r].say = "backup-ready" /\ After(run[r].say) = "backed-up"
        \/ run[r].say = "upload-starting" /\ After(run[r].say) = "upload"
        \/ run[r].say = "uploaded" /\ After(run[r].say) = "uploaded"
        \/ run[r].say = "install-starting" /\ After(run[r].say) = "install"
        \/ run[r].say \in {"install-accepted", "install-unknown"} /\ After(run[r].say) = "waiting"
        \/ run[r].say = "recording-recovery-starting" /\ After(run[r].say) = "repair"
    BY DEF After
  <1> QED BY <1>1, <1>2, <1>3, <1>4, SayCases

LEMMA RecordEffectStateInd ==
    ASSUME IndInv, NEW r \in Runs, RecordEffectState(r)
    PROVE  IndInv'
  <1> DEFINE what == run[r].say
             to   == After(run[r].say)
  <1>1. /\ TypeOK /\ UpdateOK(r) /\ RepairOK(r) /\ what # None /\ what \in Recorded
        /\ run[r] \in Run /\ state' = what
    BY SayCases, RunParts DEF IndInv, RecordEffectState
  <1>2. to \in Pc
    BY AfterCases, <1>1 DEF Pc
  <1>3. /\ run' \in [Runs -> Run]
        /\ run'[r].pc = to /\ run'[r].say = None
        /\ run'[r].settings = run[r].settings /\ run'[r].reads = run[r].reads
        /\ \A q \in Runs : q # r => run'[q] = run[q]
    BY <1>1, <1>2 DEF RecordEffectState, TypeOK, Run
  <1>4. TypeOK'
    BY <1>1, <1>3 DEF RecordEffectState, TypeOK
  <1>5. /\ \A q \in Runs : q # r => UpdateOK(q)' /\ RepairOK(q)'
        /\ RecoveryReady'
        /\ effectLock' = "absent" => \A e \in {"upload", "install"} : ~Effects!Sent(e)' /\ ~Announced(e)'
        /\ ~repairLock' => ~Effects!Sent("repair")' /\ ~Announced("repair")'
        /\ Effects!Sent("install")' => Effects!Sent("upload")'
    BY <1>1, <1>3, RecordedDisk DEF RecordEffectState
  <1>6. /\ Receipts' = Receipts /\ backup' = backup /\ effectLock' = effectLock /\ repairLock' = repairLock
        /\ \A e : Effects!Sent(e)' <=> Effects!Sent(e)
        /\ \A e : Announced(e)' <=> Announced(e) \/ Starting(e) = what
    BY DEF RecordEffectState, Receipts, Effects!Sent, Announced
  <1>7. /\ Starting("upload") = what <=> what = "upload-starting"
        /\ Starting("install") = what <=> what = "install-starting"
        /\ Starting("repair") = what <=> what = "recording-recovery-starting"
    BY DEF Starting
  <1>8. UpdateOK(r)' /\ RepairOK(r)' /\ (to \in Updating => run[r].pc \in Updating)
        /\ (to \in Repairing => run[r].pc \in Repairing)
    <2>1. CASE to = "ended"
      BY <1>3, <2>1, NoneRecorded
         DEF UpdateOK, RepairOK, Updating, BeforeUpload, AfterUpload, Repairing, Recorded
    <2>2. CASE what = "backup-ready" /\ run[r].pc = "locked" /\ to = "backed-up"
      BY <1>1, <1>3, <1>6, <1>7, <2>2, NoneRecorded
         DEF UpdateOK, RepairOK, Updating, BeforeUpload, AfterUpload, Repairing, Recorded
    <2>3. CASE what = "upload-starting" /\ run[r].pc = "checked" /\ to = "upload"
      BY <1>1, <1>3, <1>6, <1>7, <2>3, NoneRecorded
         DEF UpdateOK, RepairOK, Updating, BeforeUpload, AfterUpload, Repairing, Recorded, Early
    <2>4. CASE what = "uploaded" /\ run[r].pc = "upload" /\ to = "uploaded"
      BY <1>1, <1>3, <1>6, <1>7, <2>4, NoneRecorded
         DEF UpdateOK, RepairOK, Updating, BeforeUpload, AfterUpload, Repairing, Recorded, Early
    <2>5. CASE what = "install-starting" /\ run[r].pc = "uploaded" /\ to = "install"
      BY <1>1, <1>3, <1>6, <1>7, <2>5, NoneRecorded
         DEF UpdateOK, RepairOK, Updating, BeforeUpload, AfterUpload, Repairing, Recorded, Early
    <2>6. CASE what \in {"install-accepted", "install-unknown"} /\ run[r].pc = "install" /\ to = "waiting"
      BY <1>1, <1>3, <1>6, <1>7, <2>6, NoneRecorded
         DEF UpdateOK, RepairOK, Updating, BeforeUpload, AfterUpload, Repairing, Recorded, Early
    <2>7. CASE what = "recording-recovery-starting" /\ run[r].pc = "restore-locked" /\ to = "repair"
      BY <1>1, <1>3, <1>6, <1>7, <2>7, NoneRecorded
         DEF UpdateOK, RepairOK, Updating, BeforeUpload, AfterUpload, Repairing, Recorded, OnlyFlagLost
    <2> QED BY <1>1, <2>1, <2>2, <2>3, <2>4, <2>5, <2>6, <2>7, AfterCases
  <1>9. Exclusive'
    BY <1>3, <1>8, StillExclusive
  <1> QED BY <1>4, <1>5, <1>8, <1>9, IndInvParts

LEMMA StopsInd ==
    ASSUME IndInv, NEW r \in Runs, Stops(r)
    PROVE  IndInv'
  <1>1. /\ TypeOK /\ UpdateOK(r) /\ RepairOK(r) /\ run[r] \in Run
        /\ UNCHANGED <<mode, device, sent, observed>> /\ Interrupted(r)
    BY RunParts DEF IndInv, Stops
  <1>2. /\ run' \in [Runs -> Run]
        /\ run'[r].pc = "ended" /\ run'[r].say = None
        /\ \A q \in Runs : q # r => run'[q] = run[q]
    BY <1>1 DEF Stops, TypeOK, Run, Pc
  <1>3. UpdateOK(r)' /\ RepairOK(r)'
    BY <1>2, NoneRecorded
       DEF UpdateOK, RepairOK, Updating, BeforeUpload, AfterUpload, Repairing, Recorded
  <1>4. Exclusive'
    BY <1>2, StillExclusive DEF Updating, BeforeUpload, AfterUpload, Repairing
  <1>5. \A e : Effects!Sent(e)' <=> Effects!Sent(e)
    BY <1>1 DEF Effects!Sent
  <1>6. CASE UNCHANGED disk
    <2>1. TypeOK'
      BY <1>1, <1>2, <1>6, QuietType DEF TypeOK
    <2> QED BY <1>1, <1>2, <1>3, <1>6, <2>1, QuietMove
         DEF Updating, BeforeUpload, AfterUpload, Repairing
  <1>7. CASE /\ run[r].say # None
             /\ journal' = journal \cup {run[r].say} /\ state' \in {state, run[r].say}
             /\ UNCHANGED <<effectLock, backup, repairLock>>
    <2>1. TypeOK'
      BY <1>1, <1>2, <1>7, SayCases DEF TypeOK
    <2>2. /\ \A q \in Runs : q # r => UpdateOK(q)' /\ RepairOK(q)'
          /\ RecoveryReady'
          /\ effectLock' = "absent" => \A e \in {"upload", "install"} : ~Effects!Sent(e)' /\ ~Announced(e)'
          /\ ~repairLock' => ~Effects!Sent("repair")' /\ ~Announced("repair")'
          /\ Effects!Sent("install")' => Effects!Sent("upload")'
      BY <1>1, <1>2, <1>7, RecordedDisk
    <2> QED BY <1>3, <1>4, <2>1, <2>2, IndInvParts
  <1>8. CASE /\ run[r].pc = "read" /\ effectLock = "absent" /\ effectLock' \in {"torn", "whole"}
             /\ UNCHANGED <<backup, state, journal, repairLock>>
    <2>1. TypeOK'
      BY <1>1, <1>2, <1>8 DEF TypeOK
    <2>2. /\ Same("upload") /\ Same("install") /\ Same("repair") /\ ~Receipts
          /\ ~Effects!Sent("upload")
      BY <1>5, <1>8 DEF Same, Announced, Receipts, IndInv
    <2>3. ASSUME NEW q \in Runs, q # r PROVE UpdateOK(q)' /\ RepairOK(q)'
      BY <1>2, <1>8, <2>2, <2>3, Others
    <2>4. /\ RecoveryReady' /\ effectLock' # "absent"
          /\ ~repairLock' => ~Effects!Sent("repair")' /\ ~Announced("repair")'
          /\ Effects!Sent("install")' => Effects!Sent("upload")'
      BY <1>5, <1>8, <2>2 DEF RecoveryReady, IndInv, Same
    <2> QED BY <1>3, <1>4, <2>1, <2>3, <2>4, IndInvParts
  <1>9. CASE /\ run[r].pc = "locked" /\ run[r].say = None /\ backup = None
             /\ backup' \in {Torn, run[r].settings}
             /\ UNCHANGED <<effectLock, state, journal, repairLock>>
    <2>1. run[r].settings \in Settings /\ ~Effects!Sent("upload") /\ ~Receipts
      BY <1>1, <1>9, DistinctAssumption DEF UpdateOK, BeforeUpload, Receipts
    <2>2. TypeOK'
      BY <1>1, <1>2, <1>9, <2>1 DEF TypeOK
    <2>3. /\ Same("upload") /\ Same("install") /\ Same("repair")
      BY <1>5, <1>9 DEF Same, Announced
    <2>4. ASSUME NEW q \in Runs, q # r PROVE UpdateOK(q)' /\ RepairOK(q)'
      BY <1>2, <1>9, <2>1, <2>3, <2>4, Others
    <2>5. /\ RecoveryReady'
          /\ effectLock' = "absent" => \A e \in {"upload", "install"} : ~Effects!Sent(e)' /\ ~Announced(e)'
          /\ ~repairLock' => ~Effects!Sent("repair")' /\ ~Announced("repair")'
          /\ Effects!Sent("install")' => Effects!Sent("upload")'
      BY <1>5, <1>9, <2>1, <2>3 DEF RecoveryReady, IndInv, Same, Announced
    <2> QED BY <1>3, <1>4, <2>2, <2>4, <2>5, IndInvParts
  <1>10. CASE /\ run[r].pc = "restore" /\ ~repairLock /\ repairLock' = TRUE
              /\ UNCHANGED <<effectLock, backup, state, journal>>
    <2>1. TypeOK'
      BY <1>1, <1>2, <1>10 DEF TypeOK
    <2>2. /\ Same("upload") /\ Same("install") /\ Same("repair") /\ Receipts' = Receipts
      BY <1>5, <1>10 DEF Same, Announced, Receipts
    <2>3. ASSUME NEW q \in Runs, q # r PROVE UpdateOK(q)' /\ RepairOK(q)'
      BY <1>2, <1>10, <2>2, <2>3, Others
    <2>4. /\ RecoveryReady'
          /\ effectLock' = "absent" => \A e \in {"upload", "install"} : ~Effects!Sent(e)' /\ ~Announced(e)'
          /\ Effects!Sent("install")' => Effects!Sent("upload")'
      BY <1>5, <1>10, <2>2 DEF RecoveryReady, IndInv, Same, Announced
    <2> QED BY <1>3, <1>4, <1>10, <2>1, <2>3, <2>4, IndInvParts
  <1> QED BY <1>1, <1>6, <1>7, <1>8, <1>9, <1>10 DEF Interrupted

\* The device and the container
LEMMA DeviceInd ==
    ASSUME IndInv, DeviceNext \/ Recreate \/ UNCHANGED vars
    PROVE  IndInv' /\ importing' \in {importing, None}
  <1>1. UNCHANGED <<run, disk, sent, observed>>
    BY DEF DeviceNext, DeviceBusy, DeviceIdle, DeviceInstalls, DeviceLoads, ChangedElsewhere, Recreate
  <1>2. TypeOK /\ MaxChanges \in Nat
    BY ChangesAssumption DEF IndInv
  <1>3. /\ mode' \in {"locked", "firmware"} /\ firmware' \in {"old", "new"}
        /\ phase' \in {"idle", "busy", "loading"} /\ staged' \in BOOLEAN /\ installing' \in BOOLEAN
    BY <1>2 DEF TypeOK, DeviceNext, DeviceBusy, DeviceIdle, DeviceInstalls, DeviceLoads,
         ChangedElsewhere, Recreate
  <1>4. settings' \in Settings /\ importing' \in Settings \cup {None}
    BY <1>2 DEF TypeOK, DeviceNext, DeviceBusy, DeviceIdle, DeviceInstalls, DeviceLoads,
         ChangedElsewhere, Recreate, Settings
  <1>5. changes' \in 0..MaxChanges
    <2>1. changes' = changes \/ (changes < MaxChanges /\ changes' = changes + 1)
      BY DEF DeviceNext, DeviceBusy, DeviceIdle, DeviceInstalls, DeviceLoads, ChangedElsewhere, Recreate
    <2>2. changes \in 0..MaxChanges
      BY <1>2 DEF TypeOK
    <2> QED BY <1>2, <2>1, <2>2
  <1>6. TypeOK'
    BY <1>1, <1>2, <1>3, <1>4, <1>5 DEF TypeOK
  <1>7. \A r \in Runs : UpdateOK(r)' /\ RepairOK(r)'
    BY <1>1 DEF IndInv, UpdateOK, RepairOK, Announced, Effects!Sent, Receipts
  <1>8. importing' \in {importing, None}
    BY DEF DeviceNext, DeviceBusy, DeviceIdle, DeviceInstalls, DeviceLoads, ChangedElsewhere, Recreate
  <1> QED BY <1>1, <1>6, <1>7, <1>8 DEF IndInv, RecoveryReady, Announced, Effects!Sent, Receipts

LEMMA InitInd ==
    ASSUME Init
    PROVE  IndInv
  <1>1. \A e : ~Effects!Sent(e) /\ ~Announced(e)
    BY DEF Init, Effects!Sent, Announced
  <1>2. MaxReads \in Nat /\ 0 < MaxReads /\ 0 \in 0..MaxReads /\ 0 \in 0..MaxChanges
    BY ReadsAssumption, ChangesAssumption
  <1>3. NewRun \in Run
    BY <1>2 DEF NewRun, Run, Pc
  <1>4. TypeOK
    <2>1. run \in [Runs -> Run]
      BY <1>3 DEF Init
    <2>2. sent \in Seq({"upload", "install", "repair"})
      BY DEF Init
    <2> QED BY <1>2, <2>1, <2>2 DEF Init, TypeOK
  <1>5. ASSUME NEW r \in Runs
        PROVE  run[r].pc = "new" /\ run[r].say = None /\ run[r].reads = 0
    BY DEF Init, NewRun
  <1>6. ASSUME NEW r \in Runs PROVE UpdateOK(r) /\ RepairOK(r)
    BY <1>2, <1>5, NoneRecorded
       DEF UpdateOK, RepairOK, Updating, BeforeUpload, AfterUpload, Repairing, Recorded
  <1>7. Exclusive
    BY <1>5 DEF Exclusive, Updating, BeforeUpload, AfterUpload, Repairing
  <1> QED BY <1>1, <1>4, <1>6, <1>7 DEF IndInv, Exclusive, RecoveryReady

\* Every step of an invocation
LEMMA RunInd ==
    ASSUME IndInv, NEW r \in Runs, RunNext(r)
    PROVE  IndInv'
  <1>1. CASE UpdateOne(r)
    BY <1>1, PreflightOneInd, ReadSettingsInd, AcquireEffectStateInd, WriteRecoveryBackupInd, RecheckInd,
       AnnounceInd, UploadFirmwareOnceInd, StartFirmwareUpdateOnceInd, PollFirmwareInd, PollStatusInd
       DEF UpdateOne
  <1>2. CASE VerifyOne(r)
    BY <1>2, VerifyOneReadInd, StatusInd DEF VerifyOne
  <1>3. CASE RestoreRecording(r)
    BY <1>3, RestoreReadInd, LockRepairInd, RereadRepairInd, SubmitRepairInd, ReadRepairInd, StatusInd
       DEF RestoreRecording
  <1>4. CASE RecordEffectState(r) \/ Stops(r)
    BY <1>4, RecordEffectStateInd, StopsInd
  <1> QED BY <1>1, <1>2, <1>3, <1>4 DEF RunNext

--------------------------------------------------------------------------------
(* Theorems                                                                    *)

\* The two lock files let one invocation at a time past them, ever, and its
\* position tells what was announced and submitted: the invariant behind the
\* theorems below (firmware.py: acquire_effect_state, recording-recovery.lock).
THEOREM FirmwareInductive == Spec => []IndInv
  <1>1. Init => IndInv
    BY InitInd
  <1>2. IndInv /\ [Next]_vars => IndInv'
    <2> SUFFICES ASSUME IndInv, [Next]_vars PROVE IndInv'
      OBVIOUS
    <2>1. CASE \E r \in Runs : RunNext(r)
      BY <2>1, RunInd
    <2>2. CASE Recreate \/ DeviceNext \/ UNCHANGED vars
      BY <2>2, DeviceInd
    <2> QED BY <2>1, <2>2 DEF Next
  <1> QED BY <1>1, <1>2, PTL DEF Spec

\* Type correctness of the invocations, the directory and the device.
THEOREM FirmwareTypeCorrect == Spec => []TypeOK
  <1>1. IndInv => TypeOK
    BY DEF IndInv
  <1> QED BY <1>1, FirmwareInductive, PTL

\* Once an upload was submitted, the backup and the lock a recovery needs are on
\* disk, whole, and the state file shows the run as begun (write_recovery_backup,
\* record_effect_state).
THEOREM Recoverable == Spec => []RecoveryReady
  <1>1. IndInv => RecoveryReady
    BY DEF IndInv
  <1> QED BY <1>1, FirmwareInductive, PTL

\* The one import a repair submits is the backup, whatever else changed on the
\* device (restore_recording_channel_one's comparisons under the lock).
THEOREM RepairsTheBackup == Spec => RepairIsBackup
  <1>1. ASSUME IndInv, [Next]_vars
        PROVE  importing' \notin {importing, None} => importing' = backup
    <2>1. CASE \E r \in Runs : RunNext(r)
      <3>1. PICK r \in Runs : RunNext(r)
        BY <2>1
      <3>2. CASE SubmitRepair(r)
        BY <1>1, <3>2, SubmitRepairInd
      <3>3. CASE ~SubmitRepair(r)
        BY <3>1, <3>3
           DEF RunNext, UpdateOne, VerifyOne, RestoreRecording, PreflightOne, ReadSettings,
               AcquireEffectState, WriteRecoveryBackup, Recheck, AnnounceUpload, UploadFirmwareOnce,
               AnnounceInstall, StartFirmwareUpdateOnce, PollFirmware, PollStatus, StopWaiting,
               VerifyOneRead, VerifyOneStatus, RestoreRead, LockRepair, RereadRepair, ReadRepair,
               RepairStatus, RecordEffectState, Stops
      <3> QED BY <3>2, <3>3
    <2>2. CASE Recreate \/ DeviceNext \/ UNCHANGED vars
      BY <1>1, <2>2, DeviceInd
    <2> QED BY <1>1, <2>1, <2>2 DEF Next
  <1>2. IndInv /\ [Next]_vars => [importing' \notin {importing, None} => importing' = backup]_vars
    BY <1>1
  <1> QED BY <1>2, FirmwareInductive, PTL DEF Spec, RepairIsBackup

\* What a durable event announces, and when: an event that announces an effect
\* is recorded once.
LEMMA EventAnnounces ==
    ASSUME IndInv, NEW r \in Runs, run[r].say # None,
           journal' = journal \cup {run[r].say}, sent' = sent
    PROVE  [Effects!Next]_<<AnnouncedEffects, sent>>
  <1>1. UpdateOK(r) /\ RepairOK(r)
    BY DEF IndInv
  <1>2. ASSUME NEW e \in {"upload", "install", "repair"}, run[r].say = Starting(e)
        PROVE  Effects!Announce(e)
    <2>1. ~Announced(e)
      BY <1>1, <1>2, SayCases DEF Starting, UpdateOK, RepairOK, BeforeUpload
    <2>2. \A f \in {"upload", "install", "repair"} : Announced(f)' <=> Announced(f) \/ f = e
      BY <1>2 DEF Announced, Starting
    <2>3. AnnouncedEffects' = AnnouncedEffects \cup {e}
      BY <2>2 DEF AnnouncedEffects
    <2>4. e \notin AnnouncedEffects
      BY <2>1 DEF AnnouncedEffects
    <2> QED BY <2>3, <2>4 DEF Effects!Announce
  <1>3. ASSUME \A e \in {"upload", "install", "repair"} : run[r].say # Starting(e)
        PROVE  UNCHANGED <<AnnouncedEffects, sent>>
    BY <1>3 DEF AnnouncedEffects, Announced
  <1> QED BY <1>2, <1>3 DEF Effects!Next, Effects!Effects

\* An effect that is submitted was announced, and not submitted before.
LEMMA SendOnce ==
    ASSUME IndInv, NEW e \in {"upload", "install", "repair"}, Announced(e), ~Effects!Sent(e),
           e = "install" => Effects!Sent("upload"), sent' = Append(sent, e), journal' = journal
    PROVE  Effects!Next
  <1>1. e \in AnnouncedEffects /\ AnnouncedEffects' = AnnouncedEffects
    BY DEF AnnouncedEffects, Announced
  <1>2. Effects!Send(e)
    BY <1>1 DEF Effects!Send
  <1> QED BY <1>2 DEF Effects!Next, Effects!Effects

\* No effect on the device is submitted twice, before its announcement is
\* durable, or -- the install -- before the upload: update-one, verify-one and
\* restore-recording-one implement FirmwareEffects.
THEOREM EffectsAreOnce == Spec => EffectsOnce
  <1>1. Init => Effects!Init
    BY DEF Init, Effects!Init, AnnouncedEffects, Announced
  <1>2. IndInv /\ [Next]_vars => [Effects!Next]_<<AnnouncedEffects, sent>>
    <2> SUFFICES ASSUME IndInv, [Next]_vars
                 PROVE  [Effects!Next]_<<AnnouncedEffects, sent>>
      OBVIOUS
    <2>1. CASE journal' = journal /\ sent' = sent
      BY <2>1 DEF AnnouncedEffects, Announced
    <2>2. CASE \E r \in Runs : RunNext(r)
      <3>1. PICK r \in Runs : RunNext(r)
        BY <2>2
      <3>2. UpdateOK(r) /\ RepairOK(r)
        BY DEF IndInv
      <3>3. CASE UploadFirmwareOnce(r)
        <4>1. run[r].pc = "upload" /\ run[r].say = None
          BY <3>3 DEF UploadFirmwareOnce, Say
        <4> QED BY <3>2, <3>3, <4>1, SendOnce DEF UploadFirmwareOnce, UpdateOK
      <3>4. CASE StartFirmwareUpdateOnce(r)
        <4>1. run[r].pc = "install" /\ run[r].say = None
          BY <3>4 DEF StartFirmwareUpdateOnce, Say
        <4> QED BY <3>2, <3>4, <4>1, SendOnce DEF StartFirmwareUpdateOnce, UpdateOK
      <3>5. CASE SubmitRepair(r)
        <4>1. run[r].pc = "repair" /\ run[r].say = None
          BY <3>5 DEF SubmitRepair, Say, Step
        <4> QED BY <3>2, <3>5, <4>1, SendOnce DEF SubmitRepair, RepairOK
      <3>6. CASE RecordEffectState(r)
        BY <3>6, EventAnnounces DEF RecordEffectState
      <3>7. CASE Stops(r)
        <4>1. \/ journal' = journal
              \/ run[r].say # None /\ journal' = journal \cup {run[r].say}
          BY <3>7 DEF Stops, Interrupted
        <4> QED BY <2>1, <3>7, <4>1, EventAnnounces DEF Stops
      <3>8. CASE ~(UploadFirmwareOnce(r) \/ StartFirmwareUpdateOnce(r) \/ SubmitRepair(r)
                   \/ RecordEffectState(r) \/ Stops(r))
        <4>1. journal' = journal /\ sent' = sent
          BY <3>1, <3>8
             DEF RunNext, UpdateOne, VerifyOne, RestoreRecording, PreflightOne, ReadSettings,
                 AcquireEffectState, WriteRecoveryBackup, Recheck, AnnounceUpload, AnnounceInstall,
                 PollFirmware, PollStatus, StopWaiting, VerifyOneRead, VerifyOneStatus, RestoreRead,
                 LockRepair, RereadRepair, ReadRepair, RepairStatus
        <4> QED BY <2>1, <4>1
      <3> QED BY <3>3, <3>4, <3>5, <3>6, <3>7, <3>8
    <2>3. CASE Recreate \/ DeviceNext \/ UNCHANGED vars
      <3>1. journal' = journal /\ sent' = sent
        BY <2>3 DEF DeviceNext, DeviceBusy, DeviceIdle, DeviceInstalls, DeviceLoads, ChangedElsewhere, Recreate
      <3> QED BY <2>1, <3>1
    <2> QED BY <2>2, <2>3 DEF Next
  <1> QED BY <1>1, <1>2, FirmwareInductive, PTL DEF Spec, EffectsOnce, Effects!Spec

--------------------------------------------------------------------------------
(* What the recovery directory calls verified                                  *)

Verified == {"updated-and-verified", "recovery-verified", "recording-recovery-verified"}

\* What an invocation compares was read from the new firmware.
ReadOK(r) ==
    /\ run[r].pc \in {"settling", "verify", "repair-status"} => run[r].after \in observed
    /\ run[r].say \in Verified => backup \in observed

ReadInv == VerifiedIsBackup /\ \A r \in Runs : ReadOK(r)

\* The settings that were read stay read, and the backup stays.
LEMMA BackupStays ==
    ASSUME IndInv, [Next]_vars
    PROVE  observed \subseteq observed' /\ (backup \in observed => backup' = backup)
  <1>1. backup \in observed => backup # None
    BY DistinctAssumption DEF IndInv, TypeOK
  <1>2. observed \subseteq observed'
    BY DEF Next, DeviceNext, DeviceBusy, DeviceIdle, DeviceInstalls, DeviceLoads, ChangedElsewhere, Recreate,
           RunNext, UpdateOne, VerifyOne, RestoreRecording, PreflightOne, ReadSettings,
           AcquireEffectState, WriteRecoveryBackup, Recheck, AnnounceUpload, UploadFirmwareOnce,
           AnnounceInstall, StartFirmwareUpdateOnce, PollFirmware, PollStatus, StopWaiting,
           VerifyOneRead, VerifyOneStatus, RestoreRead, LockRepair, RereadRepair, SubmitRepair,
           ReadRepair, RepairStatus, RecordEffectState, Stops
  <1>3. backup' = backup \/ backup = None
    BY DEF Next, DeviceNext, DeviceBusy, DeviceIdle, DeviceInstalls, DeviceLoads, ChangedElsewhere, Recreate,
           RunNext, UpdateOne, VerifyOne, RestoreRecording, PreflightOne, ReadSettings,
           AcquireEffectState, WriteRecoveryBackup, Recheck, AnnounceUpload, UploadFirmwareOnce,
           AnnounceInstall, StartFirmwareUpdateOnce, PollFirmware, PollStatus, StopWaiting,
           VerifyOneRead, VerifyOneStatus, RestoreRead, LockRepair, RereadRepair, SubmitRepair,
           ReadRepair, RepairStatus, RecordEffectState, Stops, Interrupted
  <1> QED BY <1>1, <1>2, <1>3

\* One step of an invocation: what it then holds and says, and what becomes of
\* the other invocations and of the state file.
LEMMA ReadStep ==
    ASSUME IndInv, NEW r \in Runs, ReadOK(r), RunNext(r),
           observed \subseteq observed', backup \in observed => backup' = backup
    PROVE  /\ ReadOK(r)'
           /\ \A q \in Runs : q # r => run'[q] = run[q]
           /\ state' \in {state, run[r].say}
  <1>1. TypeOK /\ UpdateOK(r) /\ run \in [Runs -> Run] /\ run[r] \in Run
    BY RunParts DEF IndInv, TypeOK
  <1>2. state' \in {state, run[r].say}
    BY DEF RunNext, UpdateOne, VerifyOne, RestoreRecording, PreflightOne, ReadSettings,
           AcquireEffectState, WriteRecoveryBackup, Recheck, AnnounceUpload, UploadFirmwareOnce,
           AnnounceInstall, StartFirmwareUpdateOnce, PollFirmware, PollStatus, StopWaiting,
           VerifyOneRead, VerifyOneStatus, RestoreRead, LockRepair, RereadRepair, SubmitRepair,
           ReadRepair, RepairStatus, RecordEffectState, Stops, Interrupted
  <1>3. \A q \in Runs : q # r => run'[q] = run[q]
    BY <1>1 DEF RunNext, UpdateOne, VerifyOne, RestoreRecording, PreflightOne, ReadSettings,
           AcquireEffectState, WriteRecoveryBackup, Recheck, AnnounceUpload, UploadFirmwareOnce,
           AnnounceInstall, StartFirmwareUpdateOnce, PollFirmware, PollStatus, StopWaiting,
           VerifyOneRead, VerifyOneStatus, RestoreRead, LockRepair, RereadRepair, SubmitRepair,
           ReadRepair, RepairStatus, RecordEffectState, Stops, Step, Say
  <1>4. CASE PollFirmware(r) \/ VerifyOneRead(r) \/ ReadRepair(r)
    <2>1. run'[r].after \in observed' /\ run'[r].say = run[r].say
      BY <1>1, <1>4 DEF PollFirmware, VerifyOneRead, ReadRepair, Run
    <2> QED BY <1>2, <1>3, <2>1 DEF ReadOK
  <1>5. CASE PollStatus(r)
    <2>1. run[r].pc = "settling" /\ backup = run[r].settings
      BY <1>1, <1>5 DEF PollStatus, Say, Step, UpdateOK, Updating, BeforeUpload, AfterUpload
    <2>2. run'[r].after = run[r].after /\ run'[r].pc \in {"settling", "waiting"}
      BY <1>1, <1>5 DEF PollStatus, Say, Step, Run
    <2>3. run'[r].say \in Verified => Preserved(run[r].settings, run[r].after)
      BY <1>1, <1>5, NoneRecorded DEF PollStatus, Say, Step, Run, Verified, Recorded
    <2> QED BY <1>2, <1>3, <2>1, <2>2, <2>3 DEF ReadOK, Preserved
  <1>6. CASE VerifyOneStatus(r) \/ RepairStatus(r)
    <2>1. /\ run[r].pc \in {"verify", "repair-status"} /\ run'[r].pc = run[r].pc
          /\ run'[r].after = run[r].after
      BY <1>1, <1>6 DEF VerifyOneStatus, RepairStatus, Say, Run
    <2>2. run'[r].say \in Verified => Preserved(backup, run[r].after)
      BY <1>1, <1>6 DEF VerifyOneStatus, RepairStatus, Say, Run, Verified
    <2> QED BY <1>2, <1>3, <2>1, <2>2 DEF ReadOK, Preserved
  <1>7. CASE ~(PollFirmware(r) \/ VerifyOneRead(r) \/ ReadRepair(r) \/ PollStatus(r)
               \/ VerifyOneStatus(r) \/ RepairStatus(r))
    <2>1. /\ run'[r].pc \in {"settling", "verify", "repair-status"} =>
                run[r].pc = run'[r].pc /\ run'[r].after = run[r].after
          /\ run'[r].say \in Verified => run[r].say = run'[r].say
      BY <1>1, <1>7, NoneRecorded
         DEF RunNext, UpdateOne, VerifyOne, RestoreRecording, PreflightOne, ReadSettings,
             AcquireEffectState, WriteRecoveryBackup, Recheck, AnnounceUpload, UploadFirmwareOnce,
             AnnounceInstall, StartFirmwareUpdateOnce, StopWaiting, RestoreRead, LockRepair,
             RereadRepair, SubmitRepair, RecordEffectState, Stops, Step, Say, Run, Verified, After,
             Recorded
    <2> QED BY <1>2, <1>3, <2>1 DEF ReadOK
  <1> QED BY <1>4, <1>5, <1>6, <1>7

\* The recovery directory calls a device verified only if the new firmware was
\* read with exactly the settings of the backup (wait_for_verified_firmware,
\* verify_one and restore_recording_channel_one compare the backup that was
\* written before the upload).
THEOREM VerifiedAsBackedUp == Spec => []VerifiedIsBackup
  <1>1. Init => ReadInv
    BY NoneRecorded, DistinctAssumption
       DEF Init, NewRun, ReadInv, ReadOK, VerifiedIsBackup, Verified, Recorded
  <1>2. IndInv /\ ReadInv /\ [Next]_vars => ReadInv'
    <2> SUFFICES ASSUME IndInv, ReadInv, [Next]_vars PROVE ReadInv'
      OBVIOUS
    <2>1. observed \subseteq observed' /\ (backup \in observed => backup' = backup)
      BY BackupStays
    <2>2. CASE \E r \in Runs : RunNext(r)
      <3>1. PICK r \in Runs : RunNext(r)
        BY <2>2
      <3>2. ReadOK(r) /\ (state \in Verified => backup \in observed)
        BY DEF ReadInv, VerifiedIsBackup, Verified
      <3>3. /\ ReadOK(r)'
            /\ \A q \in Runs : q # r => run'[q] = run[q]
            /\ state' \in {state, run[r].say}
        BY <2>1, <3>1, <3>2, ReadStep
      <3>4. ASSUME NEW q \in Runs PROVE ReadOK(q)'
        BY <2>1, <3>3 DEF ReadInv, ReadOK
      <3>5. state' \in Verified => backup' \in observed'
        BY <2>1, <3>2, <3>3 DEF ReadOK
      <3> QED BY <3>4, <3>5 DEF ReadInv, VerifiedIsBackup, Verified
    <2>3. CASE Recreate \/ DeviceNext \/ UNCHANGED vars
      <3>1. UNCHANGED <<run, backup, state, observed>>
        BY <2>3 DEF DeviceNext, DeviceBusy, DeviceIdle, DeviceInstalls, DeviceLoads, ChangedElsewhere, Recreate
      <3> QED BY <3>1 DEF ReadInv, ReadOK, VerifiedIsBackup
    <2> QED BY <2>2, <2>3 DEF Next
  <1>3. ReadInv => VerifiedIsBackup
    BY DEF ReadInv
  <1> QED BY <1>1, <1>2, <1>3, FirmwareInductive, PTL DEF Spec

--------------------------------------------------------------------------------
(* What at most once comes to                                                  *)

\* The effects submitted to the device, in order: none twice, none whose
\* announcement is not durable, and no install without an upload before it.
SubmittedInOrder ==
    /\ \A j, k \in DOMAIN sent : sent[j] = sent[k] => j = k
    /\ \A k \in DOMAIN sent : sent[k] \in AnnouncedEffects
    /\ \A k \in DOMAIN sent : sent[k] = "install" =>
          \E j \in DOMAIN sent : j < k /\ sent[j] = "upload"

\* The order is kept by every step of the abstract effects.
LEMMA EffectsInOrder ==
    ASSUME sent \in Seq({"upload", "install", "repair"}), SubmittedInOrder,
           [Effects!Next]_<<AnnouncedEffects, sent>>
    PROVE  SubmittedInOrder'
  <1>1. CASE UNCHANGED <<AnnouncedEffects, sent>>
    BY <1>1 DEF SubmittedInOrder
  <1>2. ASSUME NEW effect \in Effects!Effects, Effects!Announce(effect) PROVE SubmittedInOrder'
    BY <1>2 DEF Effects!Announce, SubmittedInOrder
  <1>3. ASSUME NEW effect \in Effects!Effects, Effects!Send(effect) PROVE SubmittedInOrder'
    <2> DEFINE n == Len(sent)
    <2>1. /\ effect \in AnnouncedEffects /\ AnnouncedEffects' = AnnouncedEffects
          /\ \A k \in DOMAIN sent : sent[k] # effect
          /\ effect = "install" => \E k \in DOMAIN sent : sent[k] = "upload"
          /\ sent' = Append(sent, effect)
      BY <1>3 DEF Effects!Send, Effects!Sent
    <2>2. /\ n \in Nat /\ DOMAIN sent = 1..n /\ DOMAIN sent' = 1..(n + 1)
          /\ sent'[n + 1] = effect /\ \A k \in 1..n : sent'[k] = sent[k]
      BY <2>1
    <2>3. \A j, k \in DOMAIN sent' : sent'[j] = sent'[k] => j = k
      <3>1. \A j, k \in 1..n : sent'[j] = sent'[k] => j = k
        BY <2>2 DEF SubmittedInOrder
      <3>2. \A k \in 1..n : sent'[k] # sent'[n + 1]
        BY <2>1, <2>2
      <3> HIDE DEF n
      <3>3. 1..(n + 1) = 1..n \cup {n + 1}
        BY <2>2
      <3> QED BY <2>2, <3>1, <3>2, <3>3
    <2>4. \A k \in DOMAIN sent' : sent'[k] \in AnnouncedEffects'
      <3>1. \A k \in 1..n : sent'[k] \in AnnouncedEffects
        BY <2>2 DEF SubmittedInOrder
      <3>2. sent'[n + 1] \in AnnouncedEffects
        BY <2>1, <2>2
      <3> HIDE DEF n
      <3>3. 1..(n + 1) = 1..n \cup {n + 1}
        BY <2>2
      <3>4. \A k \in 1..(n + 1) : sent'[k] \in AnnouncedEffects
        BY <3>1, <3>2, <3>3
      <3> QED BY <2>1, <2>2, <3>4
    <2>5. \A k \in DOMAIN sent' : sent'[k] = "install" =>
             \E j \in DOMAIN sent' : j < k /\ sent'[j] = "upload"
      <3>1. ASSUME NEW k \in 1..n, sent'[k] = "install"
            PROVE  \E j \in DOMAIN sent' : j < k /\ sent'[j] = "upload"
        <4>1. PICK j \in 1..n : j < k /\ sent[j] = "upload"
          BY <2>2, <3>1 DEF SubmittedInOrder
        <4> QED BY <2>2, <4>1
      <3>2. ASSUME sent'[n + 1] = "install"
            PROVE  \E j \in DOMAIN sent' : j < n + 1 /\ sent'[j] = "upload"
        <4>1. PICK j \in 1..n : sent[j] = "upload"
          BY <2>1, <2>2, <3>2
        <4> QED BY <2>2, <4>1
      <3> QED BY <2>2, <3>1, <3>2
    <2> QED BY <2>3, <2>4, <2>5 DEF SubmittedInOrder
  <1> QED BY <1>1, <1>2, <1>3 DEF Effects!Next

\* Any number of invocations, with whatever errors, crashes and lost answers,
\* submits each effect at most once, announced first, the upload before the
\* install: it follows from the abstract effects alone.
THEOREM SubmittedOnceInOrder == Spec => []SubmittedInOrder
  <1>1. Init => SubmittedInOrder
    BY DEF Init, SubmittedInOrder
  <1>2. TypeOK /\ SubmittedInOrder /\ [Effects!Next]_<<AnnouncedEffects, sent>> => SubmittedInOrder'
    BY EffectsInOrder DEF TypeOK
  <1>3. Spec => [][Effects!Next]_<<AnnouncedEffects, sent>>
    BY EffectsAreOnce, PTL DEF EffectsOnce, Effects!Spec
  <1> QED BY <1>1, <1>2, <1>3, FirmwareTypeCorrect, PTL DEF Spec
================================================================================
