------------------------------- MODULE ProfileRun ------------------------------
(***************************************************************************)
(* A camera-profile write, end to end (backend/app.py): scans build the    *)
(* inventory, set-control freezes a source out of it, push-updates         *)
(* reserves a receipt and imports the merged settings on every target      *)
(* concurrently, verify-target reads a target back and records a verdict.  *)
(*                                                                         *)
(* The handlers are coroutines of one event loop: a stretch of code        *)
(* without an await is one action, and at every await the other handlers,  *)
(* the devices and a crash may step in.  Only push-updates takes the       *)
(* mutation lock.  A request the code refuses changes nothing and has no   *)
(* action.                                                                 *)
(*                                                                         *)
(* Fingerprints are settings themselves (SHA-256 of canonical JSON).  The  *)
(* receipt store is taken at the level ReceiptLedger promises; a call that *)
(* fails may or may not have changed the summary.                          *)
(***************************************************************************)
EXTENDS Integers, FiniteSets, ReceiptData, SettingsMerge

CONSTANTS Settings,          \* the settings devices can have
          InitialSettings,
          LocallyChanged,    \* settings after a change made outside this backend
          Scans,             \* scan requests that may be in flight
          Verifiers,         \* verify-target requests that may be in flight
          MaxReads,          \* 6 in verify_target
          MalformedReplies,  \* may a device answer an import with invalid JSON?
          MaxCrashes,        \* bound: restarts of the backend
          MaxChanges,        \* bound: changes made outside this backend
          NotRead,           \* not in the inventory, or there with a read_error
          None

Devices == Targets
Pushes  == Ids   \* each accepted push has a receipt identity of its own

ASSUME ReadsAssumption == MaxReads \in Nat \ {0}
ASSUME BoundAssumption == MaxCrashes \in Nat /\ MaxChanges \in Nat
ASSUME RepliesAssumption == MalformedReplies \in BOOLEAN
ASSUME SettingsAssumption ==
    /\ InitialSettings \in [Devices -> Settings]
    /\ LocallyChanged \in [Settings -> Settings]
    /\ \A s, t \in Settings : Compatible(s, t) => BulkUpdateSettings(s, t) \in Settings
    /\ NotRead \notin Settings /\ None \notin Settings
ASSUME NoneAssumption == None \notin Ids \cup Receipt

VARIABLES device,     \* the settings of each device
          pending,    \* <<push, device>>: imports a device has and will apply
          inventory,  \* app.state.devices
          control,    \* app.state.control_*
          scan,       \* what each running scan has read so far
          push,       \* running and ended push-updates requests
          lock,       \* the push that holds the mutation lock
          expected,   \* expected settings of each receipt's targets (durable)
          ledger,     \* current receipt summaries (durable)
          verify,     \* running verify-target requests
          reached,    \* history: imports that reached their device
          observed,   \* history: <<device, settings>> a verification has read
          crashes, changes

backend == <<inventory, control, scan, push, lock, verify>>
durable == <<ledger, expected>>
world   == <<device, pending, reached, changes>>
vars    == <<backend, durable, world, observed, crashes>>

Ledger == INSTANCE ReceiptLedger WITH NoReceipt <- None

ScanResult == Settings \cup {NotRead}

NotAsked == [d \in Devices |-> "no-target"]
NoPush   == [pc |-> "new", import |-> NotAsked]

Init ==
    /\ device = InitialSettings
    /\ pending = {}
    /\ inventory = [d \in Devices |-> NotRead]
    /\ control = None
    /\ scan = [s \in Scans |-> None]
    /\ push = [p \in Pushes |-> NoPush]
    /\ lock = None
    /\ expected = [p \in Pushes |-> None]
    /\ Ledger!Init
    /\ verify = [v \in Verifiers |-> None]
    /\ reached = {}
    /\ observed = {}
    /\ crashes = 0
    /\ changes = 0

Read(d) == inventory[d] \in Settings

--------------------------------------------------------------------------------
(* Devices                                                                     *)

\* An accepted import is applied some time later, in no fixed order.
DeviceApplies(p, d) ==
    /\ <<p, d>> \in pending
    /\ device' = [device EXCEPT ![d] = expected[p][d]]
    /\ pending' = pending \ {<<p, d>>}
    /\ UNCHANGED <<backend, durable, reached, observed, crashes, changes>>

\* Target-local settings change without this inventory knowing: at the front
\* panel, or by a rename batch.
ChangeLocally(d) ==
    /\ changes < MaxChanges
    /\ changes' = changes + 1
    /\ device' = [device EXCEPT ![d] = LocallyChanged[device[d]]]
    /\ UNCHANGED <<backend, durable, pending, reached, observed, crashes>>

--------------------------------------------------------------------------------
(* discover_devices_from_ips                                                   *)

DiscoverStart(s) ==
    /\ scan[s] = None
    /\ scan' = [scan EXCEPT ![s] = [d \in Devices |-> None]]
    /\ control' = None
    /\ UNCHANGED <<inventory, push, lock, verify, durable, world, observed, crashes>>

DiscoverRead(s, d) ==
    /\ scan[s] # None
    /\ scan[s][d] = None
    /\ \E result \in {device[d], NotRead} :
          scan' = [scan EXCEPT ![s][d] = result]
    /\ UNCHANGED <<inventory, control, push, lock, verify, durable, world, observed, crashes>>

DiscoverFinish(s) ==
    /\ scan[s] # None
    /\ \A d \in Devices : scan[s][d] # None
    /\ inventory' = scan[s]
    /\ scan' = [scan EXCEPT ![s] = None]
    /\ UNCHANGED <<control, push, lock, verify, durable, world, observed, crashes>>

--------------------------------------------------------------------------------
(* set_control                                                                 *)

SetControl(d) ==
    /\ Read(d)
    /\ control' = [ip |-> d, settings |-> BulkUpdateSettings(inventory[d], inventory[d])]
    /\ UNCHANGED <<inventory, scan, push, lock, verify, durable, world, observed, crashes>>

--------------------------------------------------------------------------------
(* push_updates                                                                *)

\* "Latest-scan source configuration changed": only checked of a source that
\* the latest scan has read.
SourceUnchanged ==
    Read(control.ip) =>
        BulkUpdateSettings(inventory[control.ip], inventory[control.ip]) = control.settings

\* Mutant: two batches may run at once.
PushAllowed_NoLock(p, T) ==
    /\ push[p].pc = "new"
    /\ control # None
    /\ \A d \in T : Read(d)
    /\ control.ip \notin T
    /\ SourceUnchanged
    /\ \A d \in T : Compatible(control.settings, inventory[d])

PushAllowed(p, T) ==
    /\ push[p].pc = "new"
    /\ control # None
    /\ \A d \in T : Read(d)
    /\ control.ip \notin T
    /\ SourceUnchanged
    /\ \A d \in T : Compatible(control.settings, inventory[d])
    /\ lock = None

Payloads(T) ==
    [d \in Devices |->
        IF d \in T THEN BulkUpdateSettings(control.settings, inventory[d]) ELSE None]

\* From the checks to the first await nothing else runs: the lock is taken and
\* the intent recorded in the same step.
PushUpdates(p, T) ==
    /\ PushAllowed(p, T)
    /\ Ledger!Intend(p, T)
    /\ expected' = [expected EXCEPT ![p] = Payloads(T)]
    /\ lock' = p
    /\ push' = [push EXCEPT ![p] =
          [pc |-> "importing",
           import |-> [d \in Devices |-> IF d \in T THEN "due" ELSE "no-target"]]]
    /\ UNCHANGED <<inventory, control, scan, verify, world, observed, crashes>>

\* The store fails after the summary was written: no import, the lock is free.
PushIntentFails(p, T) ==
    /\ PushAllowed(p, T)
    /\ Ledger!Intend(p, T)
    /\ expected' = [expected EXCEPT ![p] = Payloads(T)]
    /\ push' = [push EXCEPT ![p].pc = "ended"]
    /\ UNCHANGED <<inventory, control, scan, lock, verify, world, observed, crashes>>

\* Login and import request.  The import reaches the device and will be
\* applied, or it does not (login failed, connection lost, device refuses).
SendImport(p, d) ==
    /\ push[p].pc = "importing"
    /\ push[p].import[d] = "due"
    /\ \/ /\ push' = [push EXCEPT ![p].import[d] = "reached"]
          /\ pending' = pending \cup {<<p, d>>}
          /\ reached' = reached \cup {<<p, d>>}
       \/ /\ push' = [push EXCEPT ![p].import[d] = "missed"]
          /\ UNCHANGED <<pending, reached>>
    /\ UNCHANGED <<inventory, control, scan, lock, verify, durable, device, changes, observed, crashes>>

\* Mutant: a timeout is taken for a rejection.
Conclusions_TimeoutFails(fate) ==
    CASE fate = "reached" -> {"updated", "failed"}
      [] fate = "missed"  -> {"failed"}
      [] OTHER            -> {}

\* What push_update_for_device concludes.  ClientError and TimeoutError are
\* "unknown", every other exception "failed" -- a reply that is not JSON, too.
Conclusions(fate) ==
    CASE fate = "reached" -> {"updated", "unknown"} \cup
                             (IF MalformedReplies THEN {"failed"} ELSE {})
      [] fate = "missed"  -> {"failed", "unknown"}
      [] OTHER            -> {}

ImportAnswered(p, d) ==
    /\ push[p].pc = "importing"
    /\ \E status \in Conclusions(push[p].import[d]) :
          push' = [push EXCEPT ![p].import[d] = status]
    /\ UNCHANGED <<inventory, control, scan, lock, verify, durable, world, observed, crashes>>

Answered(p) ==
    \A d \in Devices : push[p].import[d] \in MutationStates \cup {"no-target"}

Outcome(p) == [d \in DOMAIN ledger[p].target |-> push[p].import[d]]

\* Mutant: when the store refuses the outcomes the lock stays taken.
FinishPush_LockLeaks(p) ==
    /\ push[p].pc = "importing"
    /\ Answered(p)
    /\ push' = [push EXCEPT ![p].pc = "ended"]
    /\ \/ Ledger!Finish(p, Outcome(p)) /\ lock' = None
       \/ UNCHANGED <<ledger, lock>>
    /\ UNCHANGED <<inventory, control, scan, verify, expected, world, observed, crashes>>

\* The lock is released and the outcomes are recorded without an await between.
FinishPush(p) ==
    /\ push[p].pc = "importing"
    /\ Answered(p)
    /\ lock' = None
    /\ push' = [push EXCEPT ![p].pc = "ended"]
    /\ \/ Ledger!Finish(p, Outcome(p))
       \/ UNCHANGED ledger  \* "durable receipt finalization failed"
    /\ UNCHANGED <<inventory, control, scan, verify, expected, world, observed, crashes>>

--------------------------------------------------------------------------------
(* verify_target                                                               *)

\* Mutant: the frozen source may be another one than the receipt's.
VerifyTarget_AnySource(v, p, d) ==
    /\ verify[v] = None
    /\ Read(d)
    /\ control # None
    /\ control.ip # d
    /\ Compatible(control.settings, inventory[d])
    /\ ledger[p] # None
    /\ d \in DOMAIN ledger[p].target
    /\ ledger[p].target[d] = "updated"
    /\ verify' = [verify EXCEPT ![v] =
          [push |-> p, ip |-> d, profile |-> BulkUpdateSettings(control.settings, inventory[d]),
           reads |-> 0, verdict |-> "open"]]
    /\ UNCHANGED <<inventory, control, scan, push, lock, durable, world, observed, crashes>>

\* The checks on the durable receipt: import confirmed, verification not yet
\* recorded, and the expected profile still that of the frozen source.
VerifyTarget(v, p, d) ==
    /\ verify[v] = None
    /\ Read(d)
    /\ control # None
    /\ control.ip # d
    /\ Compatible(control.settings, inventory[d])
    /\ ledger[p] # None
    /\ d \in DOMAIN ledger[p].target
    /\ ledger[p].target[d] = "updated"
    /\ LET profile == BulkUpdateSettings(control.settings, inventory[d])
       IN  /\ expected[p][d] = profile
           /\ verify' = [verify EXCEPT ![v] =
                [push |-> p, ip |-> d, profile |-> profile, reads |-> 0, verdict |-> "open"]]
    /\ UNCHANGED <<inventory, control, scan, push, lock, durable, world, observed, crashes>>

Verdict(v) ==
    CASE device[verify[v].ip] = verify[v].profile -> "verified"
      [] verify[v].reads + 1 < MaxReads           -> "open"
      [] OTHER                                    -> "mismatch"

\* Mutant: attempts are not counted.
ReadBack_NoCount(v) ==
    /\ verify[v] # None
    /\ verify[v].verdict = "open"
    /\ verify' = [verify EXCEPT ![v].verdict = Verdict(v)]
    /\ observed' = observed \cup {<<verify[v].ip, device[verify[v].ip]>>}
    /\ UNCHANGED <<inventory, control, scan, push, lock, durable, world, crashes>>

ReadBack(v) ==
    /\ verify[v] # None
    /\ verify[v].verdict = "open"
    /\ verify' = [verify EXCEPT ![v].reads = @ + 1, ![v].verdict = Verdict(v)]
    /\ observed' = observed \cup {<<verify[v].ip, device[verify[v].ip]>>}
    /\ UNCHANGED <<inventory, control, scan, push, lock, durable, world, crashes>>

ReadBackFails(v) ==
    /\ verify[v] # None
    /\ verify[v].verdict = "open"
    /\ verify' = [verify EXCEPT ![v].verdict = "unavailable"]
    /\ UNCHANGED <<inventory, control, scan, push, lock, durable, world, observed, crashes>>

\* Closing the device session is an await: the receipt may have changed since
\* the checks, and record_verification_outcome does not repeat them.
RecordVerification(v) ==
    /\ verify[v] # None
    /\ verify[v].verdict \in VerificationStates
    /\ \/ Ledger!Verify(verify[v].push, verify[v].ip, verify[v].verdict)
       \/ UNCHANGED ledger  \* "durable receipt finalization failed"
    /\ verify' = [verify EXCEPT ![v] = None]
    /\ UNCHANGED <<inventory, control, scan, push, lock, expected, world, observed, crashes>>

--------------------------------------------------------------------------------

\* All of app.state is volatile; the devices keep what has reached them.
Crash ==
    /\ crashes < MaxCrashes
    /\ crashes' = crashes + 1
    /\ inventory' = [d \in Devices |-> NotRead]
    /\ control' = None
    /\ scan' = [s \in Scans |-> None]
    /\ push' = [p \in Pushes |->
          IF push[p].pc = "importing" THEN [push[p] EXCEPT !.pc = "ended"] ELSE push[p]]
    /\ lock' = None
    /\ verify' = [v \in Verifiers |-> None]
    /\ UNCHANGED <<durable, world, observed>>

PushNext(p) ==
    \/ \E T \in SUBSET Devices \ {{}} : PushUpdates(p, T) \/ PushIntentFails(p, T)
    \/ \E d \in Devices : SendImport(p, d) \/ ImportAnswered(p, d)
    \/ FinishPush(p)

VerifyNext(v) ==
    \/ \E p \in Pushes, d \in Devices : VerifyTarget(v, p, d)
    \/ ReadBack(v)
    \/ ReadBackFails(v)
    \/ RecordVerification(v)

ScanNext(s) ==
    \/ DiscoverStart(s)
    \/ \E d \in Devices : DiscoverRead(s, d)
    \/ DiscoverFinish(s)

Next ==
    \/ \E s \in Scans : ScanNext(s)
    \/ \E d \in Devices : SetControl(d) \/ ChangeLocally(d)
    \/ \E p \in Pushes : PushNext(p) \/ (\E d \in Devices : DeviceApplies(p, d))
    \/ \E v \in Verifiers : VerifyNext(v)
    \/ Crash

Spec == Init /\ [][Next]_vars

\* Every device call has a client timeout, so a request that has started a
\* device call gets an answer or an exception; devices apply what they accept.
Fairness ==
    /\ \A p \in Pushes :
          /\ \A d \in Devices : WF_vars(SendImport(p, d)) /\ WF_vars(ImportAnswered(p, d))
          /\ WF_vars(FinishPush(p))
    /\ \A v \in Verifiers : WF_vars(ReadBack(v)) /\ WF_vars(RecordVerification(v))

FairSpec == Spec /\ Fairness

--------------------------------------------------------------------------------
(* Properties                                                                  *)

ImportStates == {"no-target", "due", "reached", "missed"} \cup MutationStates
PushState    == [pc : {"new", "importing", "ended"}, import : [Devices -> ImportStates]]
Control      == [ip : Devices, settings : Settings]
Verification == [push : Pushes, ip : Devices, profile : Settings, reads : 0..MaxReads,
                 verdict : VerificationStates \cup {"open"}]

\* The backend's state has its type.
TypeOK ==
    /\ device \in [Devices -> Settings]
    /\ pending \subseteq reached
    /\ reached \subseteq Pushes \X Devices
    /\ inventory \in [Devices -> ScanResult]
    /\ control \in Control \cup {None}
    /\ scan \in [Scans -> [Devices -> ScanResult \cup {None}] \cup {None}]
    /\ push \in [Pushes -> PushState]
    /\ lock \in Pushes \cup {None}
    /\ expected \in [Pushes -> [Devices -> Settings \cup {None}] \cup {None}]
    /\ ledger \in [Ids -> Receipt \cup {None}]
    /\ verify \in [Verifiers -> Verification \cup {None}]
    /\ observed \subseteq Devices \X Settings
    /\ crashes \in 0..MaxCrashes
    /\ changes \in 0..MaxChanges

\* The durable receipt never tells an operator that a device is untouched when
\* the run's import reached it -- while the push runs, after its outcomes and
\* verifications, and after a crash at any point (README.md: "Until a terminal
\* outcome or read-back is recorded, the receipt visibly marks the target as
\* uncertain-high-risk").  In particular no import is sent before the intent is
\* durable.
RiskNeverUnderstated ==
    \A p \in Pushes, d \in Devices :
        <<p, d>> \in reached =>
            /\ ledger[p] # None
            /\ d \in DOMAIN ledger[p].target
            /\ Risk(ledger[p].target[d]) # "no-device-effect-confirmed"

\* A receipt only says "verified" of a device that was read back with exactly
\* the settings that receipt expects, whatever source was frozen and whatever
\* scan was accepted since the push.
VerifiedWasRead ==
    \A p \in Pushes : ledger[p] # None =>
        \A d \in DOMAIN ledger[p].target :
            ledger[p].target[d] = "verified" =>
                <<p, d>> \in reached /\ <<d, expected[p][d]>> \in observed

\* What is known of a run: its targets are those of its receipt; while it
\* imports, the receipt still is the intent; an accepted import has reached its
\* device, and one that reached its device is not shown as harmless.
RunOK(p) ==
    /\ push[p].pc = "new" => ledger[p] = None /\ push[p].import = NotAsked
    /\ push[p].pc = "importing" =>
          /\ lock = p
          /\ ledger[p] # None
          /\ ledger[p].run_state = "intent-recorded"
          /\ DOMAIN ledger[p].target = {d \in Devices : push[p].import[d] # "no-target"}
          /\ \A d \in DOMAIN ledger[p].target : ledger[p].target[d] = "intent"
    /\ \A d \in Devices :
          /\ push[p].import[d] # "no-target" =>
                /\ ledger[p] # None
                /\ d \in DOMAIN ledger[p].target
                /\ expected[p][d] \in Settings
          /\ <<p, d>> \in reached =>
                push[p].import[d] \in {"reached", "updated", "unknown", "failed"}
          /\ push[p].import[d] \in {"reached", "updated"} => <<p, d>> \in reached
          /\ <<p, d>> \in reached /\ ~MalformedReplies =>
                /\ push[p].import[d] # "failed"
                /\ Risk(ledger[p].target[d]) # "no-device-effect-confirmed"
    /\ ledger[p] # None =>
          \A d \in DOMAIN ledger[p].target :
             /\ ledger[p].target[d] \in Updated => <<p, d>> \in reached
             /\ ledger[p].target[d] = "verified" => <<d, expected[p][d]>> \in observed

\* What is known of a verification under way: it still reads for the profile
\* its receipt expects, and its reads are not used up.
VerificationOK(v) ==
    verify[v] # None =>
        /\ ledger[verify[v].push] # None
        /\ verify[v].ip \in DOMAIN ledger[verify[v].push].target
        /\ ledger[verify[v].push].target[verify[v].ip] \in Updated
        /\ expected[verify[v].push][verify[v].ip] = verify[v].profile
        /\ verify[v].verdict = "open" => verify[v].reads < MaxReads
        /\ verify[v].verdict = "verified" => <<verify[v].ip, verify[v].profile>> \in observed

\* The inductive invariant behind RiskNeverUnderstated, VerifiedWasRead and
\* OneMutationBatch.
IndInv ==
    /\ TypeOK
    /\ \A p \in Pushes : RunOK(p)
    /\ \A v \in Verifiers : VerificationOK(v)

\* README.md: "Only one mutation batch can run at a time."
OneMutationBatch ==
    \A p, q \in Pushes : push[p].pc = "importing" /\ push[q].pc = "importing" => p = q

\* An import leaves a device's target-local settings as they are on the device
\* (settings_merge.py: "Build a live-source profile while preserving
\* target-local settings").  It holds as long as nothing else changes them
\* between the scan and the import.
ImportKeepsLocal ==
    [][\A p \in Pushes, d \in Devices :
          DeviceApplies(p, d) => LocalPart(device'[d]) = LocalPart(device[d])]_vars

\* A mutation batch gives the lock back, even if its receipt cannot be
\* finalised: no later batch is refused for ever.
LockReleased == lock # None ~> lock = None

\* Every verification comes to an end: its reads are bounded.
VerificationEnds ==
    \A v \in Verifiers : verify[v] # None ~> verify[v] = None

\* A recorded verification is final (app.py, verify_target: "Receipt
\* verification was already recorded; no verification read was sent").  Two
\* concurrent requests both pass the check, and the later one overwrites.
VerificationFinal ==
    [][\A p \in Pushes : ledger[p] # None =>
          \A d \in DOMAIN ledger[p].target :
              ledger[p].target[d] \in VerificationStates =>
                  ledger'[p].target[d] = ledger[p].target[d]]_vars
================================================================================
