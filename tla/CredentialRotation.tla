--------------------------- MODULE CredentialRotation --------------------------
(***************************************************************************)
(* Credential rotation (backend/app.py): an inventory finds out which of   *)
(* two passwords each device takes, and a rotation changes the password of *)
(* one device: read with the old one, one set-passwd, read with the new.   *)
(*                                                                         *)
(* Inventories take no lock: one may begin and end at any await of a       *)
(* rotation or of another inventory, and what it has read is then stale.   *)
(* Passwords are "old" and "new"; the configuration is that of one run of  *)
(* the rotation runtime, in which only rotations are armed.  A read of a   *)
(* device may always fail, an identity that does not match included.       *)
(***************************************************************************)
EXTENDS FiniteSets, Naturals

CONSTANTS Devices,
          Inventories,   \* inventory requests that may be in flight
          Rotations,     \* rotate-credential requests
          MaxCrashes,    \* bound: restarts of the backend
          None

ASSUME CrashesAssumption == MaxCrashes \in Nat
ASSUME NoneAssumption == None \notin Devices \cup Rotations

VARIABLES password,   \* the password each device takes
          pending,    \* rotations whose set-passwd a device has and will apply
          listed,     \* app.state.rotation_devices: the credential state of each
          unknown,    \* app.state.rotation_unknown_ips
          inventory,  \* what each running inventory has found so far
          run,        \* rotate-credential requests; their result in the end
          lock,       \* the rotation that holds the mutation lock
          doubt,      \* history: devices with a change nobody has confirmed and no
                      \* inventory begun since has found a password that works
          overtaken,  \* history: of each running inventory, the devices whose change
                      \* came into doubt after it began
          misled,     \* history: devices in doubt that an overtaken inventory has
                      \* listed with a password that works
          crashes

backend == <<listed, unknown, inventory, run, lock>>
history == <<doubt, overtaken, misled>>
vars    == <<password, pending, backend, history, crashes>>

NewRun == [pc |-> "idle", ip |-> None, current |-> FALSE]

Init ==
    /\ password \in [Devices -> {"old", "new"}]
    /\ pending = {}
    /\ listed = [d \in Devices |-> "none"]
    /\ unknown = {}
    /\ inventory = [s \in Inventories |-> None]
    /\ run = [r \in Rotations |-> NewRun]
    /\ lock = None
    /\ doubt = {} /\ misled = {}
    /\ overtaken = [s \in Inventories |-> {}]
    /\ crashes = 0

--------------------------------------------------------------------------------

\* A device changes its password some time after it has the request.
Apply(r) ==
    /\ r \in pending
    /\ pending' = pending \ {r}
    /\ password' = [password EXCEPT ![run[r].ip] = "new"]
    /\ UNCHANGED <<backend, history, crashes>>

--------------------------------------------------------------------------------
(* credential_rotation_inventory, identify_rotation_device                     *)

InventoryStart(s) ==
    /\ inventory[s] = None
    /\ inventory' = [inventory EXCEPT ![s] = [d \in Devices |-> "unasked"]]
    /\ UNCHANGED <<password, pending, listed, unknown, run, lock, history, crashes>>

Find(s, d, state) ==
    /\ inventory' = [inventory EXCEPT ![s][d] = state]
    /\ UNCHANGED <<password, pending, listed, unknown, run, lock, history, crashes>>

\* The ping, then a login and report with the new password.
AskNew(s, d) ==
    /\ inventory[s] # None
    /\ inventory[s][d] = "unasked"
    /\ \/ password[d] = "new" /\ Find(s, d, "new")
       \/ Find(s, d, "refused") \/ Find(s, d, "none")

\* Only if that failed, for whatever reason, the same with the old one.
AskOld(s, d) ==
    /\ inventory[s] # None
    /\ inventory[s][d] = "refused"
    /\ \/ password[d] = "old" /\ Find(s, d, "old")
       \/ Find(s, d, "none")

\* "none": not found, "error", or an inventory that never was.
Found == {"none", "old", "new"}

\* A set-passwd may have reached the device, and its rotation is still running.
Submitted(r) == run[r].pc \in {"reached", "missed", "accepted"}

\* A fresh inventory that lists a password for a device settles the doubt; one that
\* was overtaken lists what may have been true before.
Settle(s) ==
    LET answered == {d \in Devices : inventory[s][d] \in {"old", "new"}}
    IN  /\ doubt' = (doubt \ (answered \ overtaken[s])) \cup
                     {run[r].ip : r \in {q \in Rotations : Submitted(q)}}
        /\ misled' = (misled \cup (answered \cap overtaken[s])) \cap doubt'
        /\ overtaken' = [overtaken EXCEPT ![s] = {}]

\* Mutant: the inventory is replaced while devices are still asked.
InventoryFinish_Early(s) ==
    /\ inventory[s] # None
    /\ listed' = inventory[s]
    /\ unknown' = {}
    /\ inventory' = [inventory EXCEPT ![s] = None]
    /\ run' = [r \in Rotations |-> [run[r] EXCEPT !.current = FALSE]]
    /\ Settle(s)
    /\ UNCHANGED <<password, pending, lock, crashes>>

\* The list and the set of unknown devices are replaced, whenever the inventory
\* began; a rotation that is running keeps the entry of the list it started from.
InventoryFinish(s) ==
    /\ inventory[s] # None
    /\ \A d \in Devices : inventory[s][d] \in Found
    /\ listed' = inventory[s]
    /\ unknown' = {}
    /\ inventory' = [inventory EXCEPT ![s] = None]
    /\ run' = [r \in Rotations |-> [run[r] EXCEPT !.current = FALSE]]
    /\ Settle(s)
    /\ UNCHANGED <<password, pending, lock, crashes>>

--------------------------------------------------------------------------------
(* rotate_credential                                                           *)

Begun(r, d) ==
    run' = [run EXCEPT ![r] = [pc      |-> IF listed[d] = "new" THEN "confirming"
                                                                ELSE "checking",
                               ip      |-> d,
                               current |-> TRUE]]

\* Mutant: the unknown devices are not looked at.
RotateCredential_AnyDevice(r, d) ==
    /\ run[r].pc = "idle"
    /\ listed[d] \in {"old", "new"}
    /\ lock = None
    /\ lock' = r
    /\ Begun(r, d)
    /\ UNCHANGED <<password, pending, listed, unknown, inventory, history, crashes>>

\* Mutant: a held lock is not looked at.
RotateCredential_NoLock(r, d) ==
    /\ run[r].pc = "idle"
    /\ listed[d] \in {"old", "new"}
    /\ d \notin unknown
    /\ lock' = r
    /\ Begun(r, d)
    /\ UNCHANGED <<password, pending, listed, unknown, inventory, history, crashes>>

\* The checks, the lock and the look at the credential state are one step.
RotateCredential(r, d) ==
    /\ run[r].pc = "idle"
    /\ listed[d] \in {"old", "new"}
    /\ d \notin unknown
    /\ lock = None
    /\ lock' = r
    /\ Begun(r, d)
    /\ UNCHANGED <<password, pending, listed, unknown, inventory, history, crashes>>

At(r, pc)   == lock = r /\ run[r].pc = pc
GoTo(r, pc) == run' = [run EXCEPT ![r].pc = pc]

\* A device listed with the new password is read with it and left alone.
ConfirmRotated(r) ==
    /\ At(r, "confirming")
    /\ \/ password[run[r].ip] = "new" /\ GoTo(r, "already-rotated")
       \/ GoTo(r, "stopped")
    /\ UNCHANGED <<password, pending, listed, unknown, inventory, lock, history, crashes>>

\* The report read with the old password, and a login with it for the change.
CheckOld(r) ==
    /\ \/ /\ At(r, "checking")
          /\ password[run[r].ip] = "old"
          /\ GoTo(r, "login")
       \/ /\ At(r, "login")
          /\ password[run[r].ip] = "old"
          /\ GoTo(r, "listing")
       \/ /\ At(r, "checking") \/ At(r, "login")
          /\ GoTo(r, "stopped")
    /\ UNCHANGED <<password, pending, listed, unknown, inventory, lock, history, crashes>>

\* get-users: the user of the configuration has to be an administrator.
GetUsers(r) ==
    /\ At(r, "listing")
    /\ GoTo(r, "setting") \/ GoTo(r, "stopped")
    /\ UNCHANGED <<password, pending, listed, unknown, inventory, lock, history, crashes>>

\* The one set-passwd: it reaches a device that will apply it, or it does not.
SetPassword(r) ==
    /\ At(r, "setting")
    /\ \/ GoTo(r, "reached") /\ pending' = pending \cup {r}
       \/ GoTo(r, "missed") /\ pending' = pending
    /\ doubt' = doubt \cup {run[r].ip}
    /\ UNCHANGED <<password, listed, unknown, inventory, lock, overtaken, misled, crashes>>

Uncertain(r) ==
    /\ GoTo(r, "uncertain")
    /\ unknown' = unknown \cup {run[r].ip}
    /\ doubt' = doubt \cup {run[r].ip}
    /\ misled' = misled \ {run[r].ip}
    /\ overtaken' = [s \in Inventories |-> IF inventory[s] = None THEN {}
                                           ELSE overtaken[s] \cup {run[r].ip}]
    /\ UNCHANGED <<password, pending, listed, inventory, lock, crashes>>

Accepted(r) ==
    /\ At(r, "reached")
    /\ GoTo(r, "accepted")
    /\ UNCHANGED <<password, pending, listed, unknown, inventory, lock, history, crashes>>

\* Mutant: a lost answer is reported and the device not remembered.
PasswordAnswered_NotMarked(r) ==
    \/ Accepted(r)
    \/ /\ At(r, "reached") \/ At(r, "missed")
       /\ GoTo(r, "uncertain")
       /\ UNCHANGED <<password, pending, listed, unknown, inventory, lock, history, crashes>>

\* The answer: accepted by a device that has it; else rejected, failed or lost.
PasswordAnswered(r) ==
    \/ Accepted(r)
    \/ (At(r, "reached") \/ At(r, "missed")) /\ Uncertain(r)

Rotated(r) ==
    /\ GoTo(r, "rotated-and-verified")
    /\ listed' = IF run[r].current THEN [listed EXCEPT ![run[r].ip] = "new"]
                                   ELSE listed
    /\ doubt' = doubt \ {run[r].ip}
    /\ misled' = misled \ {run[r].ip}
    /\ UNCHANGED <<password, pending, unknown, inventory, lock, overtaken, crashes>>

\* Mutant: an accepted change is reported as verified.
VerifyNew_Skipped(r) ==
    /\ At(r, "accepted")
    /\ Rotated(r)

\* The report read with the new password; the entry the request started from is
\* marked "new", in the list or in one an inventory has replaced.
VerifyNew(r) ==
    /\ At(r, "accepted")
    /\ \/ password[run[r].ip] = "new" /\ Rotated(r)
       \/ Uncertain(r)

Results == {"already-rotated", "rotated-and-verified", "stopped", "uncertain"}

\* Mutant: the lock is kept when the request ends in an error.
Reply_LockKept(r) ==
    /\ lock = r
    /\ run[r].pc \in {"already-rotated", "rotated-and-verified"}
    /\ lock' = None
    /\ run' = [run EXCEPT ![r].current = FALSE]
    /\ UNCHANGED <<password, pending, listed, unknown, inventory, history, crashes>>

\* The session is closed, the lock released and the result or error returned; with
\* the request its hold on an entry of the list is gone.
Reply(r) ==
    /\ lock = r
    /\ run[r].pc \in Results
    /\ lock' = None
    /\ run' = [run EXCEPT ![r].current = FALSE]
    /\ UNCHANGED <<password, pending, listed, unknown, inventory, history, crashes>>

--------------------------------------------------------------------------------

\* Both lists live in the process only: a restart forgets them and every request.
Crash ==
    /\ crashes < MaxCrashes
    /\ crashes' = crashes + 1
    /\ listed' = [d \in Devices |-> "none"]
    /\ unknown' = {}
    /\ inventory' = [s \in Inventories |-> None]
    /\ run' = [r \in Rotations |->
                 IF lock = r THEN [run[r] EXCEPT !.pc = "lost", !.current = FALSE]
                             ELSE run[r]]
    /\ lock' = None
    /\ overtaken' = [s \in Inventories |-> {}] /\ misled' = {}
    /\ UNCHANGED <<password, pending, doubt>>

RunStep(r) ==
    \/ ConfirmRotated(r)
    \/ CheckOld(r)
    \/ GetUsers(r)
    \/ SetPassword(r)
    \/ PasswordAnswered(r)
    \/ VerifyNew(r)
    \/ Reply(r)

InventoryStep(s) ==
    \/ InventoryStart(s)
    \/ \E d \in Devices : AskNew(s, d) \/ AskOld(s, d)
    \/ InventoryFinish(s)

Next ==
    \/ \E s \in Inventories : InventoryStep(s)
    \/ \E r \in Rotations :
          \/ Apply(r)
          \/ \E d \in Devices : RotateCredential(r, d)
          \/ RunStep(r)
    \/ Crash

Spec == Init /\ [][Next]_vars

\* Every call a request awaits has a timeout, so a request that holds the lock
\* goes on.  Nothing makes a device apply, an operator ask, or an inventory end.
FairSpec == Spec /\ \A r \in Rotations : WF_vars(RunStep(r))

--------------------------------------------------------------------------------
(* Properties                                                                  *)

Checking == {"confirming", "checking", "login", "listing", "setting"}
Pcs      == {"idle", "reached", "missed", "accepted", "lost"} \cup Checking \cup Results

\* Types; the list never holds what an inventory has not settled yet.
TypeOK ==
    /\ password \in [Devices -> {"old", "new"}]
    /\ pending \subseteq Rotations
    /\ listed \in [Devices -> Found]
    /\ unknown \subseteq Devices
    /\ inventory \in [Inventories -> {None} \cup
                                    [Devices -> Found \cup {"unasked", "refused"}]]
    /\ run \in [Rotations -> [pc : Pcs, ip : Devices \cup {None}, current : BOOLEAN]]
    /\ \A r \in Rotations : run[r].pc # "idle" => run[r].ip \in Devices
    /\ lock \in Rotations \cup {None}
    /\ doubt \subseteq Devices /\ misled \subseteq Devices
    /\ overtaken \in [Inventories -> SUBSET Devices]
    /\ crashes \in 0..MaxCrashes

\* A request is under way exactly while it holds the lock.
LockHeld ==
    \A r \in Rotations :
        /\ (Submitted(r) \/ run[r].pc \in Checking) => lock = r
        /\ lock = r => run[r].pc \notin {"idle", "lost"}

\* A device in doubt is one no request may start on (it is unknown, or not listed with
\* a password), or the one whose change is under way; a request that has not sent its
\* change yet is not on a device in doubt.  Unless an inventory that began before the
\* doubt has misled the backend: it clears rotation_unknown_ips all the same.
DoubtBarred ==
    /\ \A d \in doubt \ misled :
          \/ d \in unknown
          \/ listed[d] \notin {"old", "new"}
          \/ \E r \in Rotations : Submitted(r) /\ run[r].ip = d
    /\ \A r \in Rotations : run[r].pc \in Checking => run[r].ip \notin doubt \ misled

\* Whatever is called "new" - by the list, by an inventory on its way, by what a
\* request reported - takes the new password: also when the list was replaced
\* under a running request, or read before a change and stored after it.
NewIsNew ==
    /\ \A d \in Devices : listed[d] = "new" => password[d] = "new"
    /\ \A s \in Inventories, d \in Devices :
          inventory[s] # None /\ inventory[s][d] = "new" => password[d] = "new"
    /\ \A r \in Rotations :
          run[r].pc \in {"already-rotated", "rotated-and-verified"}
              => password[run[r].ip] = "new"

IndInv == TypeOK /\ LockHeld /\ DoubtBarred /\ NewIsNew

Sends(r) == run[r].pc = "setting" /\ run'[r].pc \in {"reached", "missed"}

\* The README: "An ambiguous password-change response blocks any retry until a fresh
\* inventory determines which credential works."  After a change whose answer was lost
\* or refused, or whose read-back failed, whatever restarts and ends in between, a
\* second set-passwd goes to that device only after an inventory begun since has listed
\* a password for it - or, against the README, if one begun before had listed it.
NoRetryInDoubt ==
    [][\A r \in Rotations : Sends(r) => run[r].ip \notin doubt \ misled]_vars

\* The README's sentence without the exception.  It is false of the code, and true
\* as long as no change comes into doubt while an inventory is running.
FreshBeforeRetry ==
    [][\A r \in Rotations : Sends(r) => run[r].ip \notin doubt]_vars

NoneOvertaken ==
    \A r \in Rotations : run'[r].pc = "uncertain" /\ run[r].pc # "uncertain"
        => \A s \in Inventories : inventory[s] = None

\* A request that took the mutation lock releases it, however it ends.
RotationEnds == lock # None ~> lock = None
================================================================================
