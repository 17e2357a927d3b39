# Verification of Magewell AIO Control

TLA+ models of the program in `src/`, the TLC runs that check them on small instances and
the theorems TLAPS proves of them for every instance. `PROJECT.json` lists the parts of the
system, the runs, what each definition translates, the hazards and the findings.

Sizes and costs below are of TLC with two workers; all runs together take about ten minutes.

## 1. The system

A FastAPI process (`src/backend/app.py`) drives Magewell encoders on a local network for a
browser UI. It keeps its working state in memory and one durable thing: the receipts of
profile writes. A separate command line (`src/backend/firmware.py`) updates firmware, one
device at a time, and keeps a recovery directory for each pair of device and artifact.

| Component | State | Operations | Interacts with |
| --- | --- | --- | --- |
| Run receipt store, `run_receipts.py` | monthly journal, one summary per receipt, reservations (files); a process-wide writer lock | reserve and record an intent, record outcomes, record a verification; list, get, export | called by push and verify |
| Settings merge, `settings_merge.py` | none | what a target will be sent: its own settings, overlaid by the source's portable keys | called by set-control, plan, push, verify |
| Scans, `app.py` 769-935 | inventory (`app.state.devices`), frozen source (cleared) | discover a subnet, discover known addresses | devices; replaces what all others read |
| Profile run, `app.py` 1504-1991 | frozen source, mutation lock, requests in flight | set-control, profile-plan, push-updates, verify-target | inventory, store, devices |
| Renaming, `app.py` 938-1334, `naming.py`, `fleet_journal.py` | plans, `rename_scan_required`, mutation lock | plan, execute | inventory, devices, journal of the fleet |
| Credential rotation, `app.py` 1337-1501 | rotation inventory, unknown set, mutation lock | inventory, rotate one | devices |
| Firmware commands, `firmware.py` | effect lock, backup, state file, events file, repair lock (files) | inspect, preflight, update-one, verify-one, restore-recording-one | one device; each other, through the directory |
| Operator page, `page.tsx` | devices, source, selection, plan, whether read-back is required | the buttons, and the answers to their requests | the scan and profile-run endpoints |
| Naming page, `naming/page.tsx` | mappings, selection, plan, result of the last run | the buttons, a CSV parser | the scan and rename endpoints |
| Request guards, configuration, embedded settings baseline, presentation | none of their own | | |

What is hard in it:

* **Interleaving at awaits.** Handlers are coroutines. A scan, a push and a verification all
  suspend while a device answers; only mutations take the lock, and scans and set-control
  replace what they read. State is checked before an await and used after it.
* **Ambiguous effects.** An import, an upload or an install can take effect although its
  answer is an error, or is lost. What is recorded then decides whether an operator retries.
* **Late effects.** A device acknowledges an import before it applies it, and loads settings
  for a while during which it shows the old ones.
* **Interrupted durable writes.** Each store call is several durable steps. An I/O error
  ends the call; a crash ends the process, leaves temporaries and half-written lines.
* **Promised capacity.** Room for the terminal event of a push is promised before its
  imports and needed after them.
* **Two copies of the state.** The page keeps the devices, the source and the receipt; the
  backend replaces them under it. Requests of one page overlap, and an answer may be lost
  after its request was handled.
* **Invocations that do not know of each other.** The firmware commands are processes that
  meet only in files created with `O_EXCL`.

What makes each part correct: the store keeps the room it promised, journals before it
shows, and never leaves a run that touched devices looking harmless; the profile run
reports no device as untouched that an import reached, and none as verified that was not
read so; target-local settings survive; the lock comes back; the firmware commands submit
each effect at most once, announced first, with the backup whole; a credential change in
doubt is not tried again before a fresh inventory has found which password works; and the
page shows the plan of what it would write, names the source that is frozen, and keeps the
next write locked until what was written has been read back.

## 2. The modules

| Module | Models | Kind |
| --- | --- | --- |
| `ReceiptData` | the receipt: a run state and a state per target; `risk_state` | data |
| `ReceiptLedger` | what the store promises: intent, outcomes, verifications, each atomic | abstract specification |
| `RunReceipts` | the store, step by durable step | state machine |
| `SettingsMerge` | `get_bulk_update_settings` | operators |
| `ProfileRun` | scans, frozen source, push, verification, devices; uses the store at the level of `ReceiptLedger` | state machine |
| `Rename` | scans with identities, plans, their execution, units and addresses | state machine |
| `CredentialRotation` | inventories, the rotation of one device, the devices in doubt | state machine |
| `OperatorPage` | the page's state and handlers, its requests in flight, the backend handlers in one step each | state machine |
| `FirmwareEffects` | what the firmware commands promise about effects | abstract specification |
| `FirmwareUpdate` | the three commands with effects or records, the directory, the device | state machine |
| `SumProofs`, `ReceiptDataProofs`, `RunReceiptsProofs`, `ProfileRunProofs`, `RenameProofs`, `FirmwareUpdateProofs`, `CredentialRotationProofs`, `OperatorPageProofs` | lemmas and theorems | proofs |
| `MCRunReceipts`, `MCProfileRun`, `MCRename`, `MCFirmwareUpdate`, `MCCredentialRotation`, `MCOperatorPage` | constants of the runs | model checking |

`RunReceipts` and `ProfileRun` compose through `ReceiptLedger`: the store is proved to
implement it, and the handlers use its actions `Intend`, `Finish` and `Verify` for the calls
and are proved to use them as the ledger allows (`Refinement`, `RunsKeepLedger`).
A store call that fails is, for a handler, a call after which the summary may or may not
have changed; that is what `PushIntentFails`, `FinishPush` and `RecordVerification` say.

### RunReceipts

`journal`, `current`, `reservations` are the files; `op` is the call that holds
`_writer_lock` and the durable step it takes next; `leftovers` are temporaries without an
owner; `granted` is the pushes that were told their intent is durable and have not handed
in their outcomes. A call is one action for its checks (`ReserveAndRecordIntent`,
`RecordMutationOutcomes`, `RecordVerificationOutcome`) and one for each durable step
(`AppendEvent`, `WriteCurrent`, `WriteReservation`, `ConsumeReservation`). `IOError` and
`Crash` take place in any step, before or after its effect, in an append also half-way.

`UsageBytes` adds up what is on disk: the journal, the summaries, the reservations and the
abandoned temporaries, each with the size of what was written to it.

A receipt's per-target fields `mutation`, `verification` and `risk_state` occur in seven
combinations only (`TargetStates`); sizes are linear in the targets. Facts behind the
constants: an event carries 156 bytes that a summary does not, a reservation file has 95;
per target an intent adds 509 bytes, an updated target 506, a rejected one 511, an unknown
one 514, a verified one 605. The file name of a temporary holds the process id, which is 1
whenever the container starts (`src/backend/dockerfile`: exec-form `CMD`), so a temporary
left behind has the name the next process will use.

Left out: the split of the journal by month (one segment), the redaction check, and the
read-only calls.

### ProfileRun

`inventory` and `control` are `app.state`; `scan`, `push`, `verify` are the requests in
flight, `lock` the mutation lock, `ledger` and `expected` what is durable in receipts.
`device` and `pending` are the devices and what they have been sent but not applied.
A stretch of code without an await is one action. In particular the checks of push-updates,
the lock and the store call are one (`PushUpdates`), and so are the release of the lock and
the recording of the outcomes (`FinishPush`). Each read of a scan, each login and import,
each answer and each read-back is an action of its own, and a scan, a verification, a
set-control, a device or a restart may come between any two.

Fingerprints are taken as the settings themselves. A device that is absent and one with a
`read_error` are the same value `NotRead`: every handler refuses both alike. Names, the
identity fields and the interchange of addresses are not modelled; nor is an import that a
device applies in part. A request that is refused changes nothing and has no action.
`MalformedReplies` says whether a device may answer an import it accepted with a body that
is not JSON; the finding below is about it, and the other runs leave it out.

### Rename

An address and the unit at it are different things here, since keeping them apart is what
the identities in a plan are for: `at` says which unit an address leads to, `device` what
each unit's settings are, and `AddressesMove` exchanges two leases. A session `cookie` is
good for the unit that issued it. A request that reached a unit is in `reached` for ever and
in `pending` until the unit applies it, which may be after the run has given up on it.

`plan[p]` is the frozen plan; `step[p][i]` is how far the run is with one entry, and in the
end the `status` it is reported with. One action is one await: the live report
(`ReadLive`), the live identity, the login, the submission of the name, its answer, each
read-back, and the same again for the recording names. A failed or deviating one ends in one
of the three `Stops`, after which `At` holds for no entry and only `FinishRename` is left,
which has the lock released, the results completed and the flag set. The
order of the entries is the request's, so the run may take any entry that is due.

`BuildRenamePlan` is `build_rename_plan` for CSV rows and for a prefix alike: a choice of
targets and names, with the checks on the fleet number, on names used twice and on names of
devices out of the plan. A scan entry that lacks its report or its identity is `Unread`: no
plan can use either. The fleet journal is a file of the image and constant. A restart loses
plans and the flag, not what was sent.

`ChangesInRun` says whether leases and settings may change while a run has the lock. The
code checks identity and settings once, before it submits, so what it says of the right
device can hold only if they do not; the properties that depend on it say so.
`ChangeElsewhere` stands for every other writer of settings, a profile push included, which
may bring back the names a rename replaced (`WrittenElsewhere`). It
waits for what the unit was sent before: a unit applies its requests in order.

### CredentialRotation

`password` is what each device takes, `pending` the changes it was sent and will apply;
`listed` and `unknown` are `rotation_devices` and `rotation_unknown_ips`, `inventory` what
each running inventory has found so far, `run` the requests, `lock` the mutation lock.
Inventories take no lock, and begin, ask and end between any two steps of a rotation.
An inventory asks a device with the new password and, only if that failed for whatever
reason, with the old one (`AskNew`, `AskOld`), so a device that changes in between is in no
state at all. A rotation is one action for its checks and the lock (`RotateCredential`) and
one for each call: the confirmation of a device that is listed as new, the report and the
login with the old password, the user list, the one `set-passwd`, its answer, the report
with the new password. A request keeps the inventory entry it started from; `current` says
whether that entry still is in the list when it is marked `new`.

The end of an inventory replaces `listed` and empties `unknown`, whenever it began; the
model does what the code does there. What an operator may rely on is kept apart from it, as
history. `doubt` is the devices that were sent a change nobody has confirmed; it ends with a
confirmation, or with an inventory that began after the change came into doubt and lists a
password for the device, and it survives a restart, which `unknown` does not. `overtaken`
is, for each running inventory, the devices whose change came into doubt after it began,
and `misled` the devices in doubt that such an inventory has listed with a password. The
program reads none of the three.

Why a read fails (no answer, wrong password, another name) is abstracted: a read that
succeeds needs the password, a failure is always possible. "absent" and "error" are one
entry `none`; a rotation is refused on both.

### OperatorPage

The first variables are the `useState` values of `HomePage` that another handler reads, with
`planning`, `pushing`, `verifying`, `loading` and `setting` the requests in flight; `known`
and `control` are the backend's. A handler is one action up to its first await and one for
what follows the answer; the backend handler in between is one action of its own, so
requests that overlap are handled in any order and a failure may come before or after
(`ControlFailed`, `PushFailed`, `ScanFailed`, `PlanFailed`: refused, or done and the answer
lost). A set-control whose fetch threw before the backend handled it may still be handled
later (`SetControlLate`). So may a write, which changes none of these variables then. A scan
given up before the backend began it is dropped: handled later it would clear the frozen
source and replace the inventory, as the next scan does too.
`Shown` and the guards on `required`, `pushing`, `verifying` are the buttons' `disabled`
conditions. `plan` is the plan shown: its targets, and the source it was made of. That is
the source frozen when the backend makes the plan (`ProfilePlan`); the request names targets
only. It also carries whether its generation is still the current one. The form submitted
without a subnet drops the page's source and asks nothing (`SubmitWithoutSubnet`).

`source.known` is the inventory the source was judged by: `compatible_target_ips` is computed
when the source is frozen and not again. `receipt` is what the page's receipt id leads to: its
source and the targets updated and not yet verified. `owed` and `mixed` are history: which
written targets have no read-back yet, and whether the page had to lose track of the source
since it last had none (an answer lost of a request that was or may yet be handled, or two
requests at once).

One page is open: a second tab is another writer of `control`, for which `SourceAgrees` is
false at once. Messages, form fields, the receipt list and the status loaded once are left
out; nothing else depends on them.

### FirmwareUpdate

`run[r]` is an invocation: where it is, what it has read, and in `say` a state it is about
to record. `effectLock`, `backup`, `state`, `journal`, `repairLock` are the files of the
directory; `mode` is the container's environment, which changes only when the container is
recreated and no invocation is running. Upload, install and import are one action each: the
device has taken the effect or not, and the invocation sees one of the answers that fit.
`Stops` is every way an invocation ends early: an exception from a device call, an identity
that does not match, an I/O error, a crash; in a durable write it may leave the file absent,
torn or whole. The device installs, reboots, becomes busy, loads imported settings, and may
be changed through the manufacturer's UI (`ChangedElsewhere`).

Settings are the recording flag, which an update is known to reset, and the rest. The
additions a new firmware makes and transient Wi-Fi levels, which
`settings_preservation_report` ignores, are no difference here either. The events file is
taken as the set of states it holds.

## 3. The runs

| Run | Question | Bounds | Cost |
| --- | --- | --- | --- |
| `receipts` | does the store keep its room, journal first, and implement the ledger? | 2 receipts, 2 targets, 5 records, 75 scaled bytes, 3 faults | 567k states, 1.5 min |
| `receipts_leftover` | does a journalled event reach the summary? **no** | 2 faults | seconds |
| `profile_run` | is what receipts say true of the devices? one batch at a time? local settings kept? | 2 pushes, 2 devices, 1 scan, 1 verification, 2 reads, 1 restart | 2 min |
| `profile_run_live` | do batches and verifications end, also with differing schemas? | 1 push, 2 devices, 1 restart, 1 local change | 135k states, 0.5 min |
| `profile_run_malformed` | ... if a reply is not JSON? **no** | 1 push | seconds |
| `profile_run_two_verifiers` | is a recorded verification final? **no** | 2 verifications | seconds |
| `rename` | one device in doubt at most? exact results? the planned unit, its number, its other settings? do runs end? | 2 plans, 2 units, 1 scan, 2 reads, 1 move, 1 change, 1 restart | 365k states, 2 min |
| `rotation` | is a device in doubt left alone until an inventory settles it? is what is called new new? does the lock come back? | 2 devices, 2 rotations, 1 inventory at a time, 1 restart | 1.0M states, 2 min |
| `operator` | do plan, selection, source and lock of the page follow what happened? | 3 devices, 1 set-control and 1 plan in flight | 1.6M states, 1.5 min |
| `operator_read_back` | is all that was written read back before the page unlocks? **no** | as `operator` | seconds |
| `firmware` | at most one of each effect, recovery data first, verdicts about the backup? | 3 invocations, 4 settings, 2 reads, 1 change elsewhere | 526k states, 1 min |
| `firmware_loading` | is a repair recorded as failed only if it failed? **no** | 2 invocations, 3 reads | seconds |

Why the bounds are enough. Five records are fewer than two full runs need (two events each
and verifications), so the store fills up while pushes are running and reservations leaked
by faults are around. Three faults are one in each of three calls, or a leak, a torn line
and a crash. The byte limits are scaled so that an outcome may exceed an intent that passed
(the code's 514 against 509) and bytes, not only records, can be what runs out. Two devices
give a source and a target, which is all that the interleavings of a scan, a verification,
another push and a restart need. One restart is enough because everything volatile is reset
by it and every durable state it can leave is reached by the first one. Two reads stand for
the six of `verify_target` and the three of the restore: one that is not the last and one
that is; `firmware_loading` has the code's three, so that its counterexample is not due to
the bound. One scan is enough for `rename`: a scan during a run touches the inventory and
the flag, which no run reads, and two plans from that scan are what races. Its two units
leave the factory with the same settings, so that only their identities tell them apart, and
one change and one move are each enough to make a plan stale between any two of its steps.
Three invocations are an update, its verification and a restore, or two updates that race
and a third command. Two rotations of two devices are a retry of the same device, or another
one while the first is in doubt; inventories repeat without bound, so one at a time is
enough to be stale, the proof has any number. Of the three devices of the
page two take the profile of the first and none that of another: as sources they block every
target, as targets they are two of which one may be selected, written or read back without
the other. Two set-controls in flight set `mixed`, and the proofs are for any number.

Symmetry is used where the constants are interchangeable: receipts and targets, pushes,
invocations, the two devices of the page that take the profile of the third. It is not used
in runs with a liveness property.

`CHECK_DEADLOCK FALSE` for the store, which really stops: a full journal accepts no
call, and every receipt identity is used once. Also for renaming, where every plan is built
and executed once and the scans are bounded.

### Fairness

`profile_run_live` assumes weak fairness of sending and answering an import, of
finishing a push, and of the reads and the record of a verification; `rename` of the steps
of each run; `rotation` of the steps of a request that has the lock; no other run
assumes any. Every device call of
the backend has a client timeout, which ends it in an answer or an exception, and the event
loop resumes what is ready. Nothing is assumed of scans, of operators, of when devices apply
what they have, nor that a call succeeds. The reads of a verification need no successful
read: a failed one ends it.

## 4. What is proved

TLAPS checks these for every value of the constants that satisfies the assumptions named in
the modules (`LimitAssumption`, `SizeAssumption`, ... -- sizes and bounds are naturals, a
reservation file is smaller than the stamp of an event, the targets of a request are finitely
many, merged settings are settings, the markers are no data).

**The store** (`RunReceiptsProofs`): `TypeCorrect`, `Inductive`, `JournalRoom`,
`StorageRoom`, `DurableIntent`, `Refinement`, `ReceiptsForward`, `WriteAhead`,
`BlocksVerificationsOnly`, `RefusedIsLarge`. The inductive invariant `IndInv` has a part for
records and one for bytes.

* *Records* (`RecordsInv`). It counts, besides the journal and the granted pushes, the
  records the call in progress still owes (`RecordsDue`): an intent was admitted with two,
  appends one, and hands the other over as a reservation. A granted push has its reservation
  on disk, and no capacity check forgets reservations, leaked ones included; that is why the
  room is still there when it is needed. `CallOK` ties `op` to the summary it is about to
  replace: an outcome replaces only an intent of the same targets, a verification only a
  target whose import was accepted.
* *Bytes* (`BytesInv`). `BytesDue` is what the call may still write: four slots admitted for
  an intent (an event and a summary now, the two of the terminal event later), two for a
  verification, and for outcomes the two of the reservation they use up. Each durable step
  adds no more to the files than it takes off `BytesDue`, whether it completes or is
  interrupted: a torn or joined line is no longer than the event, an abandoned temporary no
  longer than the summary or reservation it was to become. The reservation file and two
  newlines are paid for by the stamp that a summary does not carry; this is where
  `ReservationBytes + 2 <= StampBytes` (95 + 2 <= 156) is needed.
* *Sums.* The sizes are folds over sets. `SumProofs` proves what a fold of the community
  modules adds up to: that its recursion determines it, that the order in which it picks
  elements does not matter, and what a changed, added or bounded term does to it. Its one
  induction is over subsets: the ones for which a fact fails have no minimal element, so
  there are none. That form takes a set where the library's induction theorems take an
  operator.

From `CallOK` each `WriteCurrent`, and each interrupted one, is an action of the ledger, and
every other step is a stutter (`Refinement`). From it also `ReceiptsForward`: no step loses a
summary or takes a target back; an intent gets the outcome of its import, an accepted import
gets verdicts, and a failed or unknown import keeps that state for good. `WriteAhead` needs
one fact more (`Ahead`): the summary a call is about to write is journalled already. An
append keeps every event that was journalled, whether it starts a line or joins a torn one.

Two theorems say how far a flaw reaches. `BlocksVerificationsOnly`: a temporary left by a
crash (the finding `receipts_leftover`) never keeps the intent or the outcomes of a running
push from their summary, because a crash ends all pushes and no receipt is issued twice;
what it blocks is verifications. `RefusedIsLarge`: an event refused as too long lists more
targets than the limit holds of the longest state. With the code's sizes, 100 targets at 514
bytes and a head are within 64 KiB, so the default `MAX_UPDATE_DEVICES` cannot be refused its
outcomes.

**The profile run** (`ProfileRunProofs`): `RunTypeCorrect`, `SingleBatch`, `RiskKept`,
`VerifiedRead`, `LocalKept`, `StoreCallsLegal`, `RunsKeepLedger`, `FinalIfSequential`. `RunOK` says of each push that while it imports it holds the
lock and its receipt still is the intent, that what reached a device is on the receipt, and
that what is called updated did reach it. `VerificationOK` says of a verification that it
reads for what its receipt expects, which is durable and never changes, and so stays true
across rescans and other sources. `RiskKept` assumes `~MalformedReplies` and `LocalKept`
assumes `MaxChanges = 0`: without these assumptions they are false (the run
`profile_run_malformed`, and the remark on the profile run in section 5).

`StoreCallsLegal` is what the store relies on and does not check itself: outcomes are handed
in for exactly the targets of an intent that has none yet, a verdict for a target whose
import was accepted, also when a scan, another push or a restart came in between. With it
every step of the workflow, seen from the receipts, is a step of the ledger or a stutter
(`RunsKeepLedger`), so store and handlers meet in `ReceiptLedger` from both sides.
`FinalIfSequential` is the other half of the finding `profile_run_two_verifiers`: if
verify-target requests come one at a time, what is recorded is final (`NotYetRecorded`: a
verification under way is of an import without a verdict). It takes two at once to break it.

**The renaming** (`RenameProofs`): `RenameTypeCorrect`, `AtMostOneInDoubt`,
`ReportsAreExact`, `NamesFollowJournal`, `RestIsKept`, `VerifiedIsPlanned`. The first three
hold whatever else happens to units and leases; the last three assume `~ChangesInRun`. The
invariant says that a plan holds the lock exactly while it runs and that its entries have
names that fit (`PlanOK`); that from the live check on the run talks, by address and by
cookie, to the planned unit, which at the import has the rest the import replays
(`StillAsChecked`); and that this is also so of every import a unit has yet to apply
(`SentAsPlanned`). The last conjunct is needed because the lock is no help against an import
that was answered by an error: it takes effect when the run is over and another one has the
unit, and is harmless because a name never changes the rest.

**The firmware commands** (`FirmwareUpdateProofs`): `FirmwareTypeCorrect`, `Recoverable`,
`RepairsTheBackup`, `EffectsAreOnce`, `SubmittedOnceInOrder`, `VerifiedAsBackedUp`. The two lock files are never
removed, so at most one invocation ever is past each of them; `UpdateOK` and `RepairOK` say,
from where that one is, what has been announced and submitted. `RepairsTheBackup` follows
because the settings imported were compared equal to ones that differ from the backup in
the flag only. `VerifiedAsBackedUp` needs a second invariant, about what each invocation has
read of the new firmware. `SubmittedOnceInOrder` says what at-most-once comes to, from the
abstract effects alone: no effect twice, none unannounced, no install without an upload before
it.

**Credential rotation** (`CredentialRotationProofs`): `TypeCorrect`, `OneAtATime`,
`NewCredentialsTrue`, `DoubtIsBarred`, `DoubtBlocksRetry`. The conjunction of the four
invariants is inductive. A device in doubt is unknown, or not listed, or the target of the
one request that holds the lock, or an overtaken inventory has listed it (`misled`); a
request that has not submitted yet is on a device that is not in doubt or is misled about,
so its `set-passwd` is no retry or one that the code allows against its documentation
(section 5). `FreshIfInTurn` is the other half: in a behaviour in which no change comes into
doubt while an inventory is running (`NoneOvertaken`), nothing is ever misled, and the
documented rule holds without exception. What is called new stays new because no step of the
program sets the old password.

**The page** (`OperatorPageProofs`): `TypeCorrect`, `PlanShownFits`,
`BlockedNeverSelected`, `SourceFollowed`, `WrittenLocksNext`, for any number of plans and
set-controls in flight. `PlanShownFits` is about the targets, always, and about the source
unless a set-control's answer is still to come, was lost or crossed another; then the page
cannot know (section 5). The strengthening has three parts. `PlanInFlight`: a plan that would
still be shown is for what is selected now and, once it is made, of what is frozen, with the
same exception. `OwedQueued`: what is owed a read-back is
among what a verification would read, or one under way still has to read.
`ControlFollowed`: what the backend froze last is what the page shows, or what the answer on
its way will make it show.

Only model-checked: the liveness properties of `profile_run_live`, `rename` and `rotation`
(liveness and `ENABLED` are out of the provers' reach). Every safety property of a passing
run is a theorem.

## 5. Findings

Five runs are expected to fail; each shows the code doing otherwise than a line of the
repository says. `PROJECT.json` quotes the lines.

1. `profile_run_malformed`: an accepted import whose reply is not JSON is recorded as
   `device-rejected`, and the receipt says `no-device-effect-confirmed`
   (`app.py:864-868`). The firmware commands treat the same error as unknown.
2. `profile_run_two_verifiers`: "already recorded" is checked before the read-back and not
   when it is recorded, so a later verdict replaces an earlier one (`app.py:1906`).
3. `receipts_leftover`: a temporary left by a crash blocks every later summary of that
   receipt, while its journal goes on (`run_receipts.py:230`).
4. `firmware_loading`: the settings are read before the wait for the loading state and not
   again after it (`firmware.py:1117-1145`).
5. `operator_read_back`: a target deselected while its write is in flight is not read back,
   and the page unlocks the next write all the same (`page.tsx:485`).

Met while modelling, without a run of their own:

* The store: after a torn append the next event shares its line, so the intent of a running
  push may be on no line that parses (`run_receipts.py:219`; `TornEvent` has it, and
  `JournalAhead` says that the event is there). With `MAX_UPDATE_DEVICES` raised to 126 or 127
  targets an intent fits the 64 KiB limit and its terminal event does not
  (`run_receipts.py:212`; `RefuseOversizedEvent`).
* The profile run: the import is merged from the last scan's settings, so a local change
  since then, a rename batch included, is undone (`app.py:1735`): `ImportKeepsLocal` is false with
  `MaxChanges` above 0. A source frozen during a scan outlives the inventory it came from;
  the plan refuses that, the push does not (`app.py:1720`; `PushUpdates`).
* Renaming: only building a plan looks at `rename_scan_required`, so a plan built before
  another one's run stopped is executed after it (`app.py:1135`), and a scan that began
  before the stop clears the flag with what it read before (`app.py:824`). The live checks
  stop such a run at the first device that has changed. New names are compared with those of
  devices the plan could have named only; a device that was read and is not in the fleet
  journal may have the same name (`app.py:1042`).
* Rotation: README.md:209-210 says "An ambiguous password-change response blocks any retry
  until a fresh inventory determines which credential works", and README.md:219-220 "Never
  retry a device whose credential state is unknown without first running a fresh inventory".
  The code takes any inventory for a fresh one: it clears the unknown set and lists what it
  has read, also if it began before the change (`app.py:1374-1375`; `InventoryFinish`). If it
  had read the device before the change it lists it as old, and if `set-passwd` missed the
  device or is applied late, the retry's read with the old password succeeds and a second
  `set-passwd` is sent. So the documented rule, `FreshBeforeRetry`, is false; as an action
  property of the instance of `rotation` it has a counterexample of 23 states. What holds is
  `NoRetryInDoubt`, which excepts exactly that case (`misled`), and the rule itself if
  inventories and changes take turns (`FreshIfInTurn`).
* The page: if a set-control was handled and its answer is late or lost, the dialog names
  one source and the backend writes the profile of another (`page.tsx:428`, `page.tsx:453`);
  `SourceAgrees` says when they agree. For the same reason a plan of one source may be shown
  beside a button that writes another's profile: README.md:117 has the plan "invalidated when
  inventory, source, target selection, or relevant configuration changes", and the page does
  that only with the answer to set-control (`page.tsx:342`); `PlanFits` says when it fits.
  The form submitted without a subnet drops the source shown (`page.tsx:223`) and keeps the
  selection, the plan and the required read-back. If a scan clears the selection while a write is in
  flight, its results require a read-back when nothing is selected, nothing can be selected
  then, and only a new scan or source unlocks the page. A verification that stopped half-way
  cannot be repeated with its receipt, since the backend refuses targets that have a verdict
  (`app.py:1906`). A write whose answer is lost requires no read-back (`page.tsx:469`). A
  new scan or source lifts the requirement (`page.tsx:196`), which `OwedLocks` takes as a
  new batch. When two set-controls cross, "Select all targets" may select devices that are
  not shown, which plan, write and read-back then leave out.

## 6. Not modelled, and what is left

Not modelled because a request that is refused changes nothing, or because there is no
state: operator intent, origins and subnets, effect modes of the server, artifact validation
and identity checks of the firmware commands (an invocation stops on them), argument
parsing, the embedded settings baseline (a constant; the endpoint that would write it
always refuses), rendering, containers. The naming page sends one request at a time (one
`loading` flag disables every button) and keeps nothing the rename endpoints rely on: a plan
it holds too long is one of the stale plans of `Rename`. Its CSV parser is not modelled.

Push, rename and rotation share one lock, of which `ProfileRun`, `Rename` and
`CredentialRotation` each have their own copy. Rotation never meets the others: it is armed
only where no other effect mode is (`app.py:383`), for the life of the process. A push and a
rename meet in the lock and in the devices' settings. Each model has what the other does
to a device's settings as a change elsewhere (`ChangeLocally`, `ChangeElsewhere`), so a composed
module would show little that these do not, and is left out.

Possible next steps: the CSV parser against a reference definition; conditions, like those of
`FinalIfSequential` and `BlocksVerificationsOnly`, under which the other findings cannot
occur.
