----------------------------- MODULE FirmwareUpdate ----------------------------
(***************************************************************************)
(* The firmware command line (backend/firmware.py) on one device and one   *)
(* approved artifact: update-one, verify-one and restore-recording-one.    *)
(*                                                                         *)
(* Each invocation is a process of its own, so several may run at once;    *)
(* what they share is the device and the recovery directory of the pair    *)
(* <serial, artifact>.  A step is what lies between two device calls or    *)
(* durable writes.  At any of them the invocation may stop for good: a     *)
(* device call or an I/O call raises, or the container goes away.          *)
(*                                                                         *)
(* The device's identity is taken as matching (a mismatch stops an         *)
(* invocation, as any error does).  Settings are the recording-channel     *)
(* flag and the rest; additions a new firmware is known to make are no     *)
(* difference.                                                             *)
(***************************************************************************)
EXTENDS Integers, Sequences

CONSTANTS Runs,        \* invocations of the command line
          Rest,        \* values of the settings other than the flag
          MaxReads,    \* 3: reads of the settings after a repair
          MaxChanges,  \* bound: changes made to the device elsewhere
          None,
          Torn         \* a backup file whose writer died in the middle

Settings == [rec : {0, 1}, rest : Rest]

Changed == {"firmware-verified-settings-changed", "recovery-verified-settings-changed"}

\* What firmware-state.json and firmware-events.jsonl may show.
Recorded ==
    {"backup-ready", "pre-upload-settings-changed", "upload-starting", "uploaded",
     "upload-unknown", "upload-rejected", "install-starting", "install-accepted",
     "install-unknown", "install-rejected", "verification-failed", "updated-and-verified",
     "recovery-verified", "recording-recovery-starting",
     "recording-recovery-prewrite-settings-changed", "recording-recovery-response-unknown",
     "recording-recovery-verified", "recording-recovery-verification-failed"} \cup Changed

ASSUME ReadsAssumption == MaxReads \in Nat \ {0}
ASSUME ChangesAssumption == MaxChanges \in Nat
ASSUME DistinctAssumption ==
    None \notin Settings \cup Recorded /\ Torn \notin Settings /\ None # Torn

VARIABLES run,         \* the invocations
          effectLock,  \* effect.lock: absent, torn or whole
          backup,      \* pre-firmware-settings.json
          state,       \* firmware-state.json
          journal,     \* states in firmware-events.jsonl
          repairLock,  \* is there a recording-recovery.lock?
          mode,        \* the container's effect mode
          firmware, settings, phase,  \* the device
          staged, installing,         \* firmware the device has received, installs
          importing,                  \* settings it has received and will load
          changes,
          sent,        \* history: effects submitted, in order
          observed     \* history: settings read from the new firmware

disk   == <<effectLock, backup, state, journal, repairLock>>
device == <<firmware, settings, phase, staged, installing, importing, changes>>
vars   == <<run, disk, mode, device, sent, observed>>

NewRun == [pc |-> "new", say |-> None, settings |-> None, after |-> None, reads |-> 0]

Init ==
    /\ run = [r \in Runs |-> NewRun]
    /\ effectLock = "absent"
    /\ backup = None
    /\ state = None
    /\ journal = {}
    /\ repairLock = FALSE
    /\ mode = "locked"
    /\ firmware = "old"
    /\ settings \in Settings
    /\ phase = "idle"
    /\ staged = FALSE /\ installing = FALSE
    /\ importing = None
    /\ changes = 0
    /\ sent = <<>>
    /\ observed = {}

\* Mutant: only the rest is compared.
Preserved_IgnoresFlag(before, after) == before.rest = after.rest

\* settings_preservation_report(before, after)["preserved"]
Preserved(before, after) == before = after

\* unexpected_change_paths = ["rec-channels.0.is-use"], 1 before and 0 now
OnlyFlagLost(before, now) ==
    before.rec = 1 /\ now = [before EXCEPT !.rec = 0]

Step(r, from, to) ==
    /\ run[r].pc = from
    /\ run[r].say = None
    /\ run' = [run EXCEPT ![r].pc = to]

Say(r, from, what) ==
    /\ run[r].pc = from
    /\ run[r].say = None
    /\ run' = [run EXCEPT ![r].say = what]

--------------------------------------------------------------------------------
(* record_effect_state: the event, then the state file                         *)

\* Mutant: an install whose answer is unknown is submitted again.
After_RetriesInstall(what) ==
    CASE what = "backup-ready"     -> "backed-up"
      [] what = "upload-starting"  -> "upload"
      [] what = "uploaded"         -> "uploaded"
      [] what \in {"install-starting", "install-unknown"} -> "install"
      [] what = "install-accepted" -> "waiting"
      [] what = "recording-recovery-starting" -> "repair"
      [] OTHER                     -> "ended"

\* Where an invocation goes on after it has recorded a state.
After(what) ==
    CASE what = "backup-ready"     -> "backed-up"
      [] what = "upload-starting"  -> "upload"
      [] what = "uploaded"         -> "uploaded"
      [] what = "install-starting" -> "install"
      [] what \in {"install-accepted", "install-unknown"} -> "waiting"
      [] what = "recording-recovery-starting" -> "repair"
      [] OTHER                     -> "ended"

RecordEffectState(r) ==
    /\ run[r].say # None
    /\ journal' = journal \cup {run[r].say}
    /\ state' = run[r].say
    /\ run' = [run EXCEPT ![r].pc = After(run[r].say), ![r].say = None]
    /\ UNCHANGED <<effectLock, backup, repairLock, mode, device, sent, observed>>

--------------------------------------------------------------------------------
(* update_one                                                                  *)

PreflightOne(r) ==
    /\ Step(r, "new", "approved")
    /\ mode = "firmware"
    /\ firmware = "old" /\ phase = "idle"
    /\ UNCHANGED <<disk, mode, device, sent, observed>>

ReadSettings(r) ==
    /\ run[r].pc = "approved"
    /\ firmware = "old"
    /\ run' = [run EXCEPT ![r].pc = "read", ![r].settings = settings]
    /\ UNCHANGED <<disk, mode, device, sent, observed>>

\* Mutant: the lock file is opened without O_EXCL.
AcquireEffectState_NotExclusive(r) ==
    /\ Step(r, "read", "locked")
    /\ phase = "idle"
    /\ effectLock' = "whole"
    /\ UNCHANGED <<backup, state, journal, repairLock, mode, device, sent, observed>>

AcquireEffectState(r) ==
    /\ Step(r, "read", "locked")
    /\ phase = "idle"
    /\ effectLock = "absent"
    /\ effectLock' = "whole"
    /\ UNCHANGED <<backup, state, journal, repairLock, mode, device, sent, observed>>

\* Mutant: the backup is not durable when the run goes on.
WriteRecoveryBackup_NotFlushed(r) ==
    /\ Say(r, "locked", "backup-ready")
    /\ backup' \in {Torn, run[r].settings}
    /\ UNCHANGED <<effectLock, state, journal, repairLock, mode, device, sent, observed>>

WriteRecoveryBackup(r) ==
    /\ Say(r, "locked", "backup-ready")
    /\ backup = None
    /\ backup' = run[r].settings
    /\ UNCHANGED <<effectLock, state, journal, repairLock, mode, device, sent, observed>>

\* The second read of the same session, after the backup is durable.
Recheck(r) ==
    /\ firmware = "old"
    /\ IF settings = run[r].settings
       THEN Step(r, "backed-up", "checked")
       ELSE Say(r, "backed-up", "pre-upload-settings-changed")
    /\ UNCHANGED <<disk, mode, device, sent, observed>>

AnnounceUpload(r) ==
    /\ Say(r, "checked", "upload-starting")
    /\ phase = "idle"
    /\ UNCHANGED <<disk, mode, device, sent, observed>>

\* An upload the device has may still be answered by an error, or with another
\* version or size ("rejected"), or not at all.
UploadFirmwareOnce(r) ==
    /\ \/ /\ staged' = TRUE
          /\ \E answer \in {"uploaded", "upload-unknown", "upload-rejected"} : Say(r, "upload", answer)
       \/ /\ UNCHANGED staged
          /\ \E answer \in {"upload-unknown", "upload-rejected"} : Say(r, "upload", answer)
    /\ sent' = Append(sent, "upload")
    /\ UNCHANGED <<disk, mode, firmware, settings, phase, installing, importing, changes, observed>>

AnnounceInstall(r) ==
    /\ Say(r, "uploaded", "install-starting")
    /\ UNCHANGED <<disk, mode, device, sent, observed>>

StartFirmwareUpdateOnce(r) ==
    /\ \/ /\ installing' = staged
          /\ \E answer \in {"install-accepted", "install-unknown"} : Say(r, "install", answer)
       \/ /\ UNCHANGED installing
          /\ \E answer \in {"install-unknown", "install-rejected"} : Say(r, "install", answer)
    /\ sent' = Append(sent, "install")
    /\ UNCHANGED <<disk, mode, firmware, settings, phase, staged, importing, changes, observed>>

\* wait_for_verified_firmware: one poll reads version and settings, then the
\* status; a device that is not idle is polled again.
PollFirmware(r) ==
    /\ run[r].pc = "waiting" /\ run[r].say = None
    /\ firmware = "new"
    /\ run' = [run EXCEPT ![r].pc = "settling", ![r].after = settings]
    /\ observed' = observed \cup {settings}
    /\ UNCHANGED <<disk, mode, device, sent>>

PollStatus(r) ==
    /\ IF phase = "idle"
       THEN Say(r, "settling", IF Preserved(run[r].settings, run[r].after)
                               THEN "updated-and-verified"
                               ELSE "firmware-verified-settings-changed")
       ELSE Step(r, "settling", "waiting")
    /\ UNCHANGED <<disk, mode, device, sent, observed>>

\* The deadline, or a reply that shows another device or name
StopWaiting(r) ==
    /\ \E pc \in {"waiting", "settling"} : Say(r, pc, "verification-failed")
    /\ UNCHANGED <<disk, mode, device, sent, observed>>

UpdateOne(r) ==
    \/ PreflightOne(r) \/ ReadSettings(r) \/ AcquireEffectState(r)
    \/ WriteRecoveryBackup(r) \/ Recheck(r) \/ AnnounceUpload(r)
    \/ UploadFirmwareOnce(r) \/ AnnounceInstall(r) \/ StartFirmwareUpdateOnce(r)
    \/ PollFirmware(r) \/ PollStatus(r) \/ StopWaiting(r)

--------------------------------------------------------------------------------
(* verify_one                                                                  *)

Receipts == effectLock = "whole" /\ backup \in Settings

\* Only while every effect mode is locked.
VerifyOneRead(r) ==
    /\ run[r].pc = "new"
    /\ mode = "locked"
    /\ Receipts
    /\ firmware = "new"
    /\ run' = [run EXCEPT ![r].pc = "verify", ![r].after = settings]
    /\ observed' = observed \cup {settings}
    /\ UNCHANGED <<disk, mode, device, sent>>

VerifyOneStatus(r) ==
    /\ phase = "idle"
    /\ Say(r, "verify", IF Preserved(backup, run[r].after)
                        THEN "recovery-verified"
                        ELSE "recovery-verified-settings-changed")
    /\ UNCHANGED <<disk, mode, device, sent, observed>>

VerifyOne(r) == VerifyOneRead(r) \/ VerifyOneStatus(r)

--------------------------------------------------------------------------------
(* restore_recording_channel_one                                               *)

RestoreRead(r) ==
    /\ run[r].pc = "new"
    /\ mode = "firmware"
    /\ Receipts
    /\ state \in Changed
    /\ firmware = "new"
    /\ OnlyFlagLost(backup, settings)
    /\ run' = [run EXCEPT ![r].pc = "restore", ![r].settings = settings]
    /\ UNCHANGED <<disk, mode, device, sent, observed>>

LockRepair(r) ==
    /\ Step(r, "restore", "restore-locked")
    /\ phase = "idle"
    /\ ~repairLock
    /\ repairLock' = TRUE
    /\ UNCHANGED <<effectLock, backup, state, journal, mode, device, sent, observed>>

\* Mutant: the settings read after the lock are used without a comparison.
RereadRepair_NoCompare(r) ==
    /\ run[r].pc = "restore-locked" /\ run[r].say = None
    /\ run' = [run EXCEPT ![r].settings = settings, ![r].say = "recording-recovery-starting"]
    /\ UNCHANGED <<disk, mode, device, sent, observed>>

RereadRepair(r) ==
    /\ run[r].pc = "restore-locked" /\ run[r].say = None
    /\ run' = [run EXCEPT
          ![r].settings = settings,
          ![r].say = IF settings = run[r].settings
                     THEN "recording-recovery-starting"
                     ELSE "recording-recovery-prewrite-settings-changed"]
    /\ UNCHANGED <<disk, mode, device, sent, observed>>

\* The settings as re-read, with the flag of the backup.
SubmitRepair(r) ==
    /\ \/ /\ Step(r, "repair", "repair-read") \/ Say(r, "repair", "recording-recovery-response-unknown")
          /\ importing' = [run[r].settings EXCEPT !.rec = backup.rec]
       \/ /\ UNCHANGED importing
          /\ Say(r, "repair", "recording-recovery-response-unknown")
    /\ sent' = Append(sent, "repair")
    /\ UNCHANGED <<disk, mode, firmware, settings, phase, staged, installing, changes, observed>>

\* Mutant: reads until the settings show.
ReadRepair_Unbounded(r) ==
    /\ run[r].pc = "repair-read"
    /\ run' = [run EXCEPT
          ![r].after = settings,
          ![r].reads = @ + 1,
          ![r].pc = IF Preserved(backup, settings) THEN "repair-status" ELSE "repair-read"]
    /\ observed' = observed \cup {settings}
    /\ UNCHANGED <<disk, mode, device, sent>>

\* Up to MaxReads reads, a second apart; the last one decides.
ReadRepair(r) ==
    /\ run[r].pc = "repair-read"
    /\ run' = [run EXCEPT
          ![r].after = settings,
          ![r].reads = @ + 1,
          ![r].pc = IF Preserved(backup, settings) \/ run[r].reads + 1 = MaxReads
                    THEN "repair-status" ELSE "repair-read"]
    /\ observed' = observed \cup {settings}
    /\ UNCHANGED <<disk, mode, device, sent>>

\* Waits through a device that loads settings, and does not read them again.
RepairStatus(r) ==
    /\ phase = "idle"
    /\ Say(r, "repair-status", IF Preserved(backup, run[r].after)
                               THEN "recording-recovery-verified"
                               ELSE "recording-recovery-verification-failed")
    /\ UNCHANGED <<disk, mode, device, sent, observed>>

RestoreRecording(r) ==
    \/ RestoreRead(r) \/ LockRepair(r) \/ RereadRepair(r)
    \/ SubmitRepair(r) \/ ReadRepair(r) \/ RepairStatus(r)

--------------------------------------------------------------------------------
(* Invocations that stop, the container and the device                         *)

Active(r) == run[r].pc \notin {"new", "ended"}

\* What the durable write an invocation is in the middle of may have left.
Interrupted(r) ==
    \/ UNCHANGED disk
    \/ /\ run[r].say # None
       /\ journal' = journal \cup {run[r].say}
       /\ state' \in {state, run[r].say}
       /\ UNCHANGED <<effectLock, backup, repairLock>>
    \/ /\ run[r].pc = "read" /\ phase = "idle" /\ effectLock = "absent"
       /\ effectLock' \in {"torn", "whole"}
       /\ UNCHANGED <<backup, state, journal, repairLock>>
    \/ /\ run[r].pc = "locked" /\ run[r].say = None /\ backup = None
       /\ backup' \in {Torn, run[r].settings}
       /\ UNCHANGED <<effectLock, state, journal, repairLock>>
    \/ /\ run[r].pc = "restore" /\ phase = "idle" /\ ~repairLock
       /\ repairLock' = TRUE
       /\ UNCHANGED <<effectLock, backup, state, journal>>

Stops(r) ==
    /\ Active(r)
    /\ Interrupted(r)
    /\ run' = [run EXCEPT ![r].pc = "ended", ![r].say = None]
    /\ UNCHANGED <<mode, device, sent, observed>>

\* The effect mode is part of the container's environment: it changes when the
\* container is recreated, and no invocation survives that.
Recreate ==
    /\ \A r \in Runs : ~Active(r)
    /\ mode' \in {"locked", "firmware"} \ {mode}
    /\ UNCHANGED <<run, disk, device, sent, observed>>

DeviceBusy ==
    /\ phase = "idle"
    /\ phase' = "busy"
    /\ UNCHANGED <<run, disk, mode, firmware, settings, staged, installing, importing, changes, sent, observed>>

DeviceIdle ==
    /\ phase = "busy"
    /\ phase' = "idle"
    /\ UNCHANGED <<run, disk, mode, firmware, settings, staged, installing, importing, changes, sent, observed>>

\* The new firmware may reset the recording flag.
DeviceInstalls ==
    /\ installing
    /\ installing' = FALSE /\ staged' = FALSE
    /\ firmware' = "new"
    /\ settings' \in {settings, [settings EXCEPT !.rec = 0]}
    /\ phase' = "busy"
    /\ UNCHANGED <<run, disk, mode, importing, changes, sent, observed>>

\* An import takes effect some time after it was accepted.
DeviceLoads ==
    /\ importing # None
    /\ \/ phase = "idle" /\ phase' = "loading" /\ UNCHANGED <<settings, importing>>
       \/ phase = "loading" /\ phase' = "idle" /\ settings' = importing /\ importing' = None
    /\ UNCHANGED <<run, disk, mode, firmware, staged, installing, changes, sent, observed>>

\* Somebody uses the manufacturer's UI: other settings, or the same update.
ChangedElsewhere ==
    /\ changes < MaxChanges
    /\ changes' = changes + 1
    /\ settings' \in Settings
    /\ firmware' \in {firmware, "new"}
    /\ UNCHANGED <<run, disk, mode, phase, staged, installing, importing, sent, observed>>

RunNext(r) ==
    UpdateOne(r) \/ VerifyOne(r) \/ RestoreRecording(r) \/ RecordEffectState(r) \/ Stops(r)

DeviceNext == DeviceBusy \/ DeviceIdle \/ DeviceInstalls \/ DeviceLoads \/ ChangedElsewhere

Next ==
    \/ \E r \in Runs : RunNext(r)
    \/ Recreate
    \/ DeviceNext

Spec == Init /\ [][Next]_vars

--------------------------------------------------------------------------------
(* Properties                                                                  *)

Pc == {"new", "approved", "read", "locked", "backed-up", "checked", "upload", "uploaded",
       "install", "waiting", "settling", "verify", "restore", "restore-locked", "repair",
       "repair-read", "repair-status", "ended"}

Run == [pc : Pc, say : Recorded \cup {None}, settings : Settings \cup {None},
        after : Settings \cup {None}, reads : 0..MaxReads]

\* The state of the invocations, the recovery directory and the device has its
\* type.
TypeOK ==
    /\ run \in [Runs -> Run]
    /\ effectLock \in {"absent", "torn", "whole"}
    /\ backup \in Settings \cup {None, Torn}
    /\ state \in Recorded \cup {None}
    /\ journal \subseteq Recorded
    /\ repairLock \in BOOLEAN
    /\ mode \in {"locked", "firmware"}
    /\ firmware \in {"old", "new"}
    /\ settings \in Settings
    /\ phase \in {"idle", "busy", "loading"}
    /\ staged \in BOOLEAN /\ installing \in BOOLEAN
    /\ importing \in Settings \cup {None}
    /\ changes \in 0..MaxChanges
    /\ sent \in Seq({"upload", "install", "repair"})
    /\ observed \subseteq Settings

Starting(effect) ==
    CASE effect = "upload"  -> "upload-starting"
      [] effect = "install" -> "install-starting"
      [] effect = "repair"  -> "recording-recovery-starting"

Announced(effect) == Starting(effect) \in journal

AnnouncedEffects == {e \in {"upload", "install", "repair"} : Announced(e)}

Effects == INSTANCE FirmwareEffects WITH announced <- AnnouncedEffects

\* No effect is submitted twice to a device, nor before its announcement is
\* durable, by any number of invocations with any errors and crashes between
\* their steps (README.md: "The fixed serial/artifact receipt prevents
\* concurrent or later duplicate mutation attempts, even from another CLI
\* invocation").
EffectsOnce == Effects!Spec

\* States of the directory in which no effect was submitted
Early == {None, "backup-ready", "pre-upload-settings-changed"}

\* Once an upload was submitted, what verify-one and restore-recording-one need
\* is on disk in one piece, and the state file no longer shows the run as not
\* begun -- also if the invocation died right after submitting.
RecoveryReady ==
    Effects!Sent("upload") =>
        /\ Receipts
        /\ state \notin Early

\* What an invocation may be about to record.
Says(pc) ==
    CASE pc = "locked"         -> {"backup-ready"}
      [] pc = "backed-up"      -> {"pre-upload-settings-changed"}
      [] pc = "checked"        -> {"upload-starting"}
      [] pc = "upload"         -> {"uploaded", "upload-unknown", "upload-rejected"}
      [] pc = "uploaded"       -> {"install-starting"}
      [] pc = "install"        -> {"install-accepted", "install-unknown", "install-rejected"}
      [] pc = "waiting"        -> {"verification-failed"}
      [] pc = "settling"       -> {"verification-failed", "updated-and-verified",
                                   "firmware-verified-settings-changed"}
      [] pc = "verify"         -> {"recovery-verified", "recovery-verified-settings-changed"}
      [] pc = "restore-locked" -> {"recording-recovery-starting",
                                   "recording-recovery-prewrite-settings-changed"}
      [] pc = "repair"         -> {"recording-recovery-response-unknown"}
      [] pc = "repair-status"  -> {"recording-recovery-verified",
                                   "recording-recovery-verification-failed"}
      [] OTHER                 -> {}

BeforeUpload == {"locked", "backed-up", "checked"}
AfterUpload  == {"upload", "uploaded", "install", "waiting", "settling"}
Updating     == BeforeUpload \cup AfterUpload
Repairing    == {"restore-locked", "repair", "repair-read", "repair-status"}

\* How far the invocation that took effect.lock is, and what it has submitted.
UpdateOK(r) ==
    /\ run[r].say \in Says(run[r].pc) \cup {None}
    /\ run[r].pc \in Updating => effectLock = "whole"
    /\ run[r].pc \in {"read", "locked"} => run[r].settings \in Settings
    /\ run[r].pc \in Updating \ {"locked"} \/ run[r].say = "backup-ready" =>
          Receipts /\ backup = run[r].settings
    /\ run[r].pc \in BeforeUpload => ~Effects!Sent("upload") /\ ~Announced("upload")
    /\ run[r].pc \in AfterUpload => state \notin Early
    /\ run[r].pc = "upload" => Announced("upload") /\ (Effects!Sent("upload") <=> run[r].say # None)
    /\ run[r].pc \in BeforeUpload \cup {"upload", "uploaded"} =>
          ~Effects!Sent("install") /\ ~Announced("install")
    /\ run[r].pc \in {"uploaded", "install"} => Effects!Sent("upload")
    /\ run[r].pc = "install" =>
          Announced("install") /\ (Effects!Sent("install") <=> run[r].say # None)

\* The same of the one that took recording-recovery.lock.
RepairOK(r) ==
    /\ run[r].pc \in Repairing => repairLock
    /\ run[r].pc \in {"verify", "restore"} \cup Repairing => Receipts
    /\ \/ run[r].pc \in {"restore", "repair"}
       \/ run[r].pc = "restore-locked" /\ run[r].say # "recording-recovery-prewrite-settings-changed"
       => OnlyFlagLost(backup, run[r].settings)
    /\ run[r].pc \notin {"repair-status", "ended"} => run[r].reads < MaxReads
    /\ run[r].pc = "restore-locked" => ~Effects!Sent("repair") /\ ~Announced("repair")
    /\ run[r].pc = "repair" /\ run[r].say = None => Announced("repair") /\ ~Effects!Sent("repair")

\* The inductive invariant behind EffectsOnce and RecoveryReady: the two lock
\* files are never removed, so at most one invocation ever is past each of
\* them, and what was submitted is known from where that one is.
IndInv ==
    /\ TypeOK
    /\ \A r \in Runs : UpdateOK(r) /\ RepairOK(r)
    /\ \A q, r \in Runs :
          \/ {run[q].pc, run[r].pc} \subseteq Updating
          \/ {run[q].pc, run[r].pc} \subseteq Repairing
          => q = r
    /\ effectLock = "absent" => \A e \in {"upload", "install"} : ~Effects!Sent(e) /\ ~Announced(e)
    /\ ~repairLock => ~Effects!Sent("repair") /\ ~Announced("repair")
    /\ Effects!Sent("install") => Effects!Sent("upload")
    /\ RecoveryReady

\* The recovery directory calls a device verified only if the new firmware was
\* read with exactly the settings of the backup, whichever invocations wrote
\* the directory.
VerifiedIsBackup ==
    state \in {"updated-and-verified", "recovery-verified", "recording-recovery-verified"}
        => backup \in observed

\* The one import a repair submits is exactly the backup: whatever else changed
\* on the device since then is not overwritten (README.md: "It refuses any other
\* unexpected drift").
RepairIsBackup ==
    [][importing' \notin {importing, None} => importing' = backup]_vars

\* A repair is recorded as failed only if the device does not have the backed-up
\* settings (README.md: "Read-only verification waits through the device's
\* temporary settings-loading state").  The settings are read before the wait.
RepairFailedIsSettled ==
    \A r \in Runs :
        run[r].say = "recording-recovery-verification-failed" => settings # backup
================================================================================
