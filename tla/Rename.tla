--------------------------------- MODULE Rename --------------------------------
(***************************************************************************)
(* Renaming devices (backend/app.py, naming.py, fleet_journal.py): a scan  *)
(* reads settings and identities, a plan freezes both with the new names   *)
(* and the settings that follow from them, and executing the plan renames  *)
(* one device after the other, each checked live, submitted once and read  *)
(* back, until the first doubt.                                            *)
(*                                                                         *)
(* An address is not a device: leases move.  What a request reaches is the *)
(* unit at the address when it is sent, and a session cookie is good for   *)
(* the unit that issued it only.  The fleet journal is part of the image   *)
(* and constant.  Of a unit's settings three parts matter: its name, the   *)
(* recording names derived from a name, and the rest.  Fingerprints are    *)
(* the settings themselves.                                                *)
(***************************************************************************)
EXTENDS Integers, FiniteSets

CONSTANTS Ips, Units,
          Names,
          Rest,             \* the settings that renaming leaves alone
          NoRecorder,       \* recording names of a unit without rec-channels
          NamesFor,         \* journaled units: the names with their fleet number
          InitialAt, InitialSettings,
          WrittenElsewhere, \* the settings other writers may leave
          Plans,            \* plans that may be built
          Scans,            \* scan requests that may be in flight
          MaxReads,         \* RENAME_READBACK_ATTEMPTS, 6 in the code
          ChangesInRun,     \* may addresses and settings change under a run?
          MaxMoves,         \* bound: times two addresses are exchanged
          MaxChanges,       \* bound: changes made elsewhere
          MaxCrashes,       \* bound: restarts of the backend
          MaxScans,         \* bound: scans that begin
          NotRead, None

Journaled == DOMAIN NamesFor
Settings  == [name : Names, rec : Names \cup {NoRecorder}, rest : Rest]

ASSUME ReadsAssumption == MaxReads \in Nat \ {0}
ASSUME BoundsAssumption ==
    /\ MaxMoves \in Nat /\ MaxChanges \in Nat /\ MaxCrashes \in Nat /\ MaxScans \in Nat
    /\ ChangesInRun \in BOOLEAN
ASSUME FleetAssumption ==
    /\ NamesFor \in [Journaled -> SUBSET Names]
    /\ Journaled \subseteq Units
    /\ InitialAt \in [Ips -> Units]
    /\ \A i, j \in Ips : InitialAt[i] = InitialAt[j] => i = j
    /\ InitialSettings \in [Units -> Settings]
    /\ WrittenElsewhere \subseteq Settings
    /\ NoRecorder \notin Names
ASSUME MarkerAssumption ==
    /\ NotRead \notin Settings \cup Units
    /\ None \notin Settings \cup Units \cup Plans \cup {NotRead}

VARIABLES at,           \* the unit at each address
          device,       \* the settings of each unit
          pending,      \* requests a unit has and will apply
          inventory,    \* app.state.devices: settings and identity of an address
          scan,         \* what each running scan has read so far
          scanRequired, \* app.state.rename_scan_required
          plan,         \* app.state.rename_plans
          step,         \* how far each entry of each plan is; its result in the end
          lock,         \* the plan whose run holds the mutation lock
          cookie,       \* the unit whose session the run has
          reads,        \* read-backs of the stage the run is in
          reached,      \* history: requests that reached a unit
          moves, changes, crashes, scans

backend == <<inventory, scan, scanRequired, plan, step, lock, cookie, reads>>
world   == <<at, device, pending, reached, moves, changes>>
bounds  == <<crashes, scans>>
vars    == <<backend, world, bounds>>

Unread  == [settings |-> NotRead, unit |-> NotRead]
Unasked == [settings |-> None, unit |-> None]

Init ==
    /\ at = InitialAt
    /\ device = InitialSettings
    /\ pending = {}
    /\ inventory = [i \in Ips |-> Unread]
    /\ scan = [s \in Scans |-> None]
    /\ scanRequired = FALSE
    /\ plan = [p \in Plans |-> [pc |-> "new", entry |-> [i \in Ips |-> None]]]
    /\ step = [p \in Plans |-> [i \in Ips |-> "no-target"]]
    /\ lock = None
    /\ cookie = None
    /\ reads = 0
    /\ reached = {}
    /\ moves = 0
    /\ changes = 0
    /\ crashes = 0
    /\ scans = 0

--------------------------------------------------------------------------------
(* naming.py                                                                   *)

\* The final settings: the new name, and every recording name derived from it.
BuildRenameSettings(s, name) ==
    [s EXCEPT !.name = name, !.rec = IF @ = NoRecorder THEN NoRecorder ELSE name]

AfterName(e) == [e.before EXCEPT !.name = e.newName]
Payload(e)   == BuildRenameSettings(e.before, e.newName)
RecordingChanges(e) == Payload(e) # AfterName(e)

--------------------------------------------------------------------------------
(* Devices and network                                                         *)

\* A unit applies what it has accepted some time after it answered.
Apply(p, i, u, method) ==
    /\ <<p, i, u, method>> \in pending
    /\ pending' = pending \ {<<p, i, u, method>>}
    /\ device' = [device EXCEPT ![u] =
          IF method = "set-name" THEN [@ EXCEPT !.name = plan[p].entry[i].newName]
                                 ELSE Payload(plan[p].entry[i])]
    /\ UNCHANGED <<backend, at, reached, moves, changes, bounds>>

QuietFor(u) == \A r \in pending : r[3] # u

\* Any other writer of the unit's settings: its own UI, a profile push, which
\* replays the names of an older scan.  It waits for what the unit was sent
\* before.
ChangeElsewhere(u) ==
    /\ changes < MaxChanges
    /\ changes' = changes + 1
    /\ ChangesInRun \/ lock = None
    /\ QuietFor(u)
    /\ \E s \in WrittenElsewhere : device' = [device EXCEPT ![u] = s]
    /\ UNCHANGED <<backend, at, pending, reached, moves, bounds>>

AddressesMove(i, j) ==
    /\ moves < MaxMoves
    /\ moves' = moves + 1
    /\ ChangesInRun \/ lock = None
    /\ i # j
    /\ at' = [at EXCEPT ![i] = at[j], ![j] = at[i]]
    /\ UNCHANGED <<backend, device, pending, reached, changes, bounds>>

--------------------------------------------------------------------------------
(* discover_devices_from_ips: all reports, then the identity of those that     *)
(* were read.  An address with one of them missing is out of every plan's      *)
(* reach, whichever it is.                                                     *)

DiscoverStart(s) ==
    /\ scan[s] = None
    /\ scans < MaxScans
    /\ scans' = scans + 1
    /\ scan' = [scan EXCEPT ![s] = [i \in Ips |-> Unasked]]
    /\ UNCHANGED <<inventory, scanRequired, plan, step, lock, cookie, reads, world, crashes>>

DiscoverReport(s, i) ==
    /\ scan[s] # None
    /\ scan[s][i] = Unasked
    /\ \/ scan' = [scan EXCEPT ![s][i].settings = device[at[i]]]
       \/ scan' = [scan EXCEPT ![s][i] = Unread]
    /\ UNCHANGED <<inventory, scanRequired, plan, step, lock, cookie, reads, world, bounds>>

DiscoverIdentity(s, i) ==
    /\ scan[s] # None
    /\ \A j \in Ips : scan[s][j].settings # None
    /\ scan[s][i].unit = None
    /\ \/ scan' = [scan EXCEPT ![s][i].unit = at[i]]
       \/ scan' = [scan EXCEPT ![s][i] = Unread]
    /\ UNCHANGED <<inventory, scanRequired, plan, step, lock, cookie, reads, world, bounds>>

DiscoverFinish(s) ==
    /\ scan[s] # None
    /\ \A i \in Ips : scan[s][i].unit # None
    /\ inventory' = scan[s]
    /\ scanRequired' = FALSE
    /\ scan' = [scan EXCEPT ![s] = None]
    /\ UNCHANGED <<plan, step, lock, cookie, reads, world, bounds>>

--------------------------------------------------------------------------------
(* build_rename_plan                                                           *)

\* In the plan's reach: read, with an identity the fleet journal knows.
Usable(i) == inventory[i].settings \in Settings /\ inventory[i].unit \in Journaled

BuildRenamePlan(p, T, new) ==
    /\ plan[p].pc = "new"
    /\ ~scanRequired
    /\ \A i \in T : Usable(i) /\ new[i] \in NamesFor[inventory[i].unit]
    /\ \A i, j \in T : new[i] = new[j] => i = j
    /\ \A i \in T, j \in Ips \ T : Usable(j) => new[i] # inventory[j].settings.name
    /\ plan' = [plan EXCEPT ![p] =
          [pc |-> "built",
           entry |-> [i \in Ips |->
              IF i \in T THEN [unit |-> inventory[i].unit,
                               before |-> inventory[i].settings, newName |-> new[i]]
                         ELSE None]]]
    /\ step' = [step EXCEPT ![p] = [i \in Ips |-> IF i \in T THEN "due" ELSE "no-target"]]
    /\ UNCHANGED <<inventory, scan, scanRequired, lock, cookie, reads, world, bounds>>

--------------------------------------------------------------------------------
(* rename_execute                                                              *)

Stops == {"stopped-before-submission", "stopped-after-display-name-submission",
          "stopped-after-recording-name-submission"}

\* Mutant: a second run may start.
RenameExecute_NoLock(p) ==
    /\ plan[p].pc = "built"
    /\ plan' = [plan EXCEPT ![p].pc = "executing"]
    /\ lock' = p
    /\ UNCHANGED <<inventory, scan, scanRequired, step, cookie, reads, world, bounds>>

RenameExecute(p) ==
    /\ plan[p].pc = "built"
    /\ lock = None
    /\ plan' = [plan EXCEPT ![p].pc = "executing"]
    /\ lock' = p
    /\ UNCHANGED <<inventory, scan, scanRequired, step, cookie, reads, world, bounds>>

\* Mutant: the loop goes on after a stop.
At_NoBreak(p, i, s) ==
    /\ plan[p].pc = "executing"
    /\ step[p][i] = s
    /\ \A j \in Ips \ {i} : step[p][j] \in {"no-target", "due", "renamed-and-verified"} \cup Stops

\* The loop is at this entry: the others are verified or not begun.
At(p, i, s) ==
    /\ plan[p].pc = "executing"
    /\ step[p][i] = s
    /\ \A j \in Ips \ {i} : step[p][j] \in {"no-target", "due", "renamed-and-verified"}

GoTo(p, i, s) == step' = [step EXCEPT ![p][i] = s]

runElse == <<inventory, scan, scanRequired, plan, lock, bounds>>

\* The live report, then the live identity; with either read failing or other
\* than frozen the run stops.
ReadLive(p, i) ==
    /\ At(p, i, "due")
    /\ \/ /\ device[at[i]] = plan[p].entry[i].before
          /\ GoTo(p, i, "report-read")
       \/ GoTo(p, i, "stopped-before-submission")
    /\ UNCHANGED <<runElse, cookie, reads, world>>

\* Mutant: the identity at the address is not compared with the plan's.
ReadIdentity_NotCompared(p, i) ==
    /\ At(p, i, "report-read")
    /\ \/ GoTo(p, i, "identity-read")
       \/ GoTo(p, i, "stopped-before-submission")
    /\ UNCHANGED <<runElse, cookie, reads, world>>

ReadIdentity(p, i) ==
    /\ At(p, i, "report-read")
    /\ \/ at[i] = plan[p].entry[i].unit /\ GoTo(p, i, "identity-read")
       \/ GoTo(p, i, "stopped-before-submission")
    /\ UNCHANGED <<runElse, cookie, reads, world>>

LogIn(p, i) ==
    /\ At(p, i, "identity-read")
    /\ \/ GoTo(p, i, "logged-in") /\ cookie' = at[i]
       \/ GoTo(p, i, "stopped-before-submission") /\ UNCHANGED cookie
    /\ UNCHANGED <<runElse, reads, world>>

\* A request reaches the unit whose cookie it carries, or no unit at all.
Submit(p, i, method, hit, missed) ==
    /\ \/ /\ at[i] = cookie
          /\ GoTo(p, i, hit)
          /\ pending' = pending \cup {<<p, i, at[i], method>>}
          /\ reached' = reached \cup {<<p, i, at[i], method>>}
       \/ GoTo(p, i, missed) /\ UNCHANGED <<pending, reached>>
    /\ UNCHANGED <<runElse, cookie, reads, at, device, moves, changes>>

SubmitName(p, i) ==
    At(p, i, "logged-in") /\ Submit(p, i, "set-name", "name-reached", "name-missed")

\* Mutant: an error in the answer counts as not submitted.
NameAnswered_ErrorIsHarmless(p, i) ==
    /\ \/ At(p, i, "name-reached") /\ GoTo(p, i, "name-accepted")
       \/ At(p, i, "name-reached") /\ GoTo(p, i, "stopped-before-submission")
       \/ At(p, i, "name-missed") /\ GoTo(p, i, "stopped-before-submission")
    /\ UNCHANGED <<runElse, cookie, reads, world>>

\* Every exception of set_name_call is uncertain; success is an answer of the
\* unit itself.
NameAnswered(p, i) ==
    /\ \/ At(p, i, "name-reached") /\ GoTo(p, i, "name-accepted")
       \/ At(p, i, "name-reached") /\ GoTo(p, i, "stopped-after-display-name-submission")
       \/ At(p, i, "name-missed") /\ GoTo(p, i, "stopped-after-display-name-submission")
    /\ UNCHANGED <<runElse, cookie, reads, world>>

\* Mutant: one read too many.
ReadStage_OffByOne(p, i, expected, settled, stopped) ==
    \/ device[at[i]] = expected /\ GoTo(p, i, settled) /\ reads' = 0
    \/ /\ device[at[i]] # expected
       /\ reads < MaxReads
       /\ reads' = reads + 1
       /\ UNCHANGED step
    \/ GoTo(p, i, stopped) /\ reads' = 0

\* read_rename_stage_until_settled: MaxReads reads, none of which may fail.
ReadStage(p, i, expected, settled, stopped) ==
    \/ device[at[i]] = expected /\ GoTo(p, i, settled) /\ reads' = 0
    \/ /\ device[at[i]] # expected
       /\ reads + 1 < MaxReads
       /\ reads' = reads + 1
       /\ UNCHANGED step
    \/ GoTo(p, i, stopped) /\ reads' = 0   \* the last read, or one that failed

\* Mutant: the recording names are imported without a read-back of the name.
ReadName_Skipped(p, i) ==
    /\ At(p, i, "name-accepted")
    /\ GoTo(p, i, IF RecordingChanges(plan[p].entry[i]) THEN "name-shown"
                                                        ELSE "renamed-and-verified")
    /\ UNCHANGED <<runElse, cookie, reads, world>>

ReadName(p, i) ==
    /\ At(p, i, "name-accepted")
    /\ LET e == plan[p].entry[i] IN
       ReadStage(p, i, AfterName(e),
                 IF RecordingChanges(e) THEN "name-shown" ELSE "renamed-and-verified",
                 "stopped-after-display-name-submission")
    /\ UNCHANGED <<runElse, cookie, world>>

SubmitImport(p, i) ==
    At(p, i, "name-shown") /\ Submit(p, i, "import-settings", "import-reached", "import-missed")

ImportAnswered(p, i) ==
    /\ \/ At(p, i, "import-reached") /\ GoTo(p, i, "import-accepted")
       \/ /\ At(p, i, "import-reached") \/ At(p, i, "import-missed")
          /\ GoTo(p, i, "stopped-after-recording-name-submission")
    /\ UNCHANGED <<runElse, cookie, reads, world>>

\* Mutant: the loop goes on after a read-back that never settled.
ReadImport_Endless(p, i) ==
    /\ At(p, i, "import-accepted")
    /\ \/ device[at[i]] = Payload(plan[p].entry[i]) /\ GoTo(p, i, "renamed-and-verified")
       \/ device[at[i]] # Payload(plan[p].entry[i]) /\ UNCHANGED step
    /\ UNCHANGED <<runElse, cookie, reads, world>>

ReadImport(p, i) ==
    /\ At(p, i, "import-accepted")
    /\ ReadStage(p, i, Payload(plan[p].entry[i]),
                 "renamed-and-verified", "stopped-after-recording-name-submission")
    /\ UNCHANGED <<runElse, cookie, world>>

Over(p) ==
    \/ \E i \in Ips : step[p][i] \in Stops
    \/ \A i \in Ips : step[p][i] \in {"no-target", "renamed-and-verified"}

\* The lock is released and the results are completed without an await between.
FinishRename(p) ==
    /\ plan[p].pc = "executing"
    /\ Over(p)
    /\ plan' = [plan EXCEPT ![p].pc = "ended"]
    /\ lock' = None
    /\ cookie' = None
    /\ step' = [step EXCEPT ![p] =
          [i \in Ips |-> IF step[p][i] = "due" THEN "not-submitted" ELSE step[p][i]]]
    /\ scanRequired' = (scanRequired \/ \E i \in Ips : step[p][i] \in Stops)
    /\ UNCHANGED <<inventory, scan, reads, world, bounds>>

--------------------------------------------------------------------------------

\* A restart: all of app.state is gone, the gate and the plans too; what has
\* reached a unit stays.
Crash ==
    /\ crashes < MaxCrashes
    /\ crashes' = crashes + 1
    /\ inventory' = [i \in Ips |-> Unread]
    /\ scan' = [s \in Scans |-> None]
    /\ scanRequired' = FALSE
    /\ plan' = [p \in Plans |->
          IF plan[p].pc = "new" THEN plan[p] ELSE [plan[p] EXCEPT !.pc = "ended"]]
    /\ lock' = None
    /\ cookie' = None
    /\ reads' = 0
    /\ UNCHANGED <<step, world, scans>>

RunStep(p) ==
    \/ \E i \in Ips :
          \/ ReadLive(p, i) \/ ReadIdentity(p, i) \/ LogIn(p, i)
          \/ SubmitName(p, i) \/ NameAnswered(p, i) \/ ReadName(p, i)
          \/ SubmitImport(p, i) \/ ImportAnswered(p, i) \/ ReadImport(p, i)
    \/ FinishRename(p)

ScanNext(s) ==
    \/ DiscoverStart(s) \/ DiscoverFinish(s)
    \/ \E i \in Ips : DiscoverReport(s, i) \/ DiscoverIdentity(s, i)

PlanNext(p) ==
    \/ \E T \in SUBSET Ips \ {{}} : \E new \in [T -> Names] : BuildRenamePlan(p, T, new)
    \/ RenameExecute(p)
    \/ RunStep(p)

Next ==
    \/ \E s \in Scans : ScanNext(s)
    \/ \E p \in Plans : PlanNext(p)
    \/ \E p \in Plans, i \in Ips, u \in Units, m \in {"set-name", "import-settings"} :
          Apply(p, i, u, m)
    \/ \E u \in Units : ChangeElsewhere(u)
    \/ \E i, j \in Ips : AddressesMove(i, j)
    \/ Crash

Spec == Init /\ [][Next]_vars

\* Every device call has a client timeout; the loop resumes what is ready.
FairSpec == Spec /\ \A p \in Plans : WF_vars(RunStep(p))

--------------------------------------------------------------------------------
(* Properties                                                                  *)

Entry       == [unit : Journaled, before : Settings, newName : Names]
ScanRecord  == [settings : Settings \cup {None, NotRead}, unit : Units \cup {None, NotRead}]
CacheRecord == [settings : Settings \cup {NotRead}, unit : Units \cup {NotRead}]
BeforeName  == {"due", "report-read", "identity-read", "logged-in"}
Requests    == Plans \X Ips \X Units \X {"set-name", "import-settings"}

Submitting  == {"logged-in", "name-reached", "name-missed", "name-accepted", "name-shown",
                "import-reached", "import-missed", "import-accepted"}

\* Statuses that admit that a set-name, or an import, may have reached a unit.
NameAdmitted ==
    {"name-reached", "name-accepted", "name-shown", "import-reached", "import-missed",
     "import-accepted", "stopped-after-display-name-submission",
     "stopped-after-recording-name-submission", "renamed-and-verified"}
ImportAdmitted ==
    {"import-reached", "import-accepted", "stopped-after-recording-name-submission",
     "renamed-and-verified"}

Steps == {"no-target", "name-missed", "not-submitted"} \cup BeforeName \cup Stops \cup NameAdmitted

\* The state has its type.
TypeOK ==
    /\ at \in [Ips -> Units]
    /\ device \in [Units -> Settings]
    /\ pending \subseteq reached /\ reached \subseteq Requests
    /\ inventory \in [Ips -> CacheRecord]
    /\ scan \in [Scans -> [Ips -> ScanRecord] \cup {None}]
    /\ scanRequired \in BOOLEAN
    /\ plan \in [Plans -> [pc : {"new", "built", "executing", "ended"},
                           entry : [Ips -> Entry \cup {None}]]]
    /\ step \in [Plans -> [Ips -> Steps]]
    /\ lock \in Plans \cup {None} /\ cookie \in Units \cup {None}
    /\ reads \in 0..(MaxReads - 1)
    /\ moves \in 0..MaxMoves /\ changes \in 0..MaxChanges
    /\ crashes \in 0..MaxCrashes /\ scans \in 0..MaxScans

\* A run leaves at most one device in doubt, also if the backend dies under it
\* (README.md: "Any failed submission or read-back stops the remaining
\* targets"): of the devices a plan has submitted to, all but one are verified.
OneInDoubt ==
    \A p \in Plans, i, j \in Ips :
        /\ step[p][i] \notin {"no-target", "due", "renamed-and-verified", "not-submitted"}
        /\ step[p][j] \notin {"no-target", "due", "renamed-and-verified", "not-submitted"}
        => i = j

\* The results admit every submission that reached a unit (README.md: "reports
\* the exact submitted, not-submitted, and fully verified counts plus the stage
\* that is uncertain"), errors and restarts notwithstanding.
ReportExact ==
    \A r \in reached :
        step[r[1]][r[2]] \in (IF r[4] = "set-name" THEN NameAdmitted ELSE ImportAdmitted)

\* A scan has asked for an identity only where it had a report.
ScanOK(s) == scan[s] # None => \A i \in Ips : scan[s][i].settings = None => scan[s][i].unit = None

\* What is known of a plan: it holds the lock while it runs, its entries have
\* names that fit, and nothing was sent before it ran.
PlanOK(p) ==
    /\ plan[p].pc = "executing" <=> lock = p
    /\ plan[p].pc = "new" => \A i \in Ips : step[p][i] = "no-target"
    /\ plan[p].pc = "built" => \A i \in Ips : step[p][i] \in {"no-target", "due"}
    /\ \A i \in Ips : step[p][i] # "no-target" =>
          /\ plan[p].entry[i] \in Entry
          /\ plan[p].entry[i].newName \in NamesFor[plan[p].entry[i].unit]

\* From the live check on, the run talks to the unit the plan was made for, and
\* past the read-back of the name that unit has the rest the import replays.
StillAsChecked(p) ==
    lock = p => \A i \in Ips : LET e == plan[p].entry[i] IN
        /\ step[p][i] \in {"identity-read"} \cup Submitting => at[i] = e.unit
        /\ step[p][i] \in Submitting => cookie = e.unit
        /\ step[p][i] = "name-shown" => device[e.unit].rest = e.before.rest

\* What was sent went to the unit the plan was made for; an import that is
\* still to be applied will not change its rest.
SentAsPlanned ==
    /\ \A r \in reached : r[3] = plan[r[1]].entry[r[2]].unit
    /\ \A r \in pending : r[4] = "import-settings" =>
          device[r[3]].rest = plan[r[1]].entry[r[2]].before.rest

\* The inductive invariant behind the properties above and below.
IndInv ==
    /\ TypeOK
    /\ \A s \in Scans : ScanOK(s)
    /\ \A p \in Plans : PlanOK(p)
    /\ OneInDoubt
    /\ ReportExact
    /\ ~ChangesInRun => SentAsPlanned /\ \A p \in Plans : StillAsChecked(p)

\* When a device is reported as renamed and verified, the very unit the plan
\* was made for has the approved final settings, although the read-backs do not
\* look at its identity.  (While addresses stay put under a run.)
VerifiedAsPlanned ==
    [][\A p \in Plans, i \in Ips :
          step[p][i] # "renamed-and-verified" /\ step'[p][i] = "renamed-and-verified"
             => device[plan[p].entry[i].unit] = Payload(plan[p].entry[i])]_vars

\* A unit is only ever sent names with its own fleet number, however leases
\* moved between scan, plan and run (README.md: "so an IP move cannot renumber
\* it").  (While addresses stay put under a run.)
NamedByJournal ==
    \A r \in reached :
        /\ r[3] \in Journaled
        /\ plan[r[1]].entry[r[2]].newName \in NamesFor[r[3]]

\* The import replays settings the plan froze, yet it changes nothing but
\* names: whatever else was changed since the scan stops the run before.
\* (While nothing else changes settings under a run.)
ImportKeepsRest ==
    [][\A p \in Plans, i \in Ips, u \in Units :
          Apply(p, i, u, "import-settings") => device'[u].rest = device[u].rest]_vars

\* Every run ends and gives the mutation lock back.
RunEnds == \A p \in Plans : lock = p ~> lock # p
================================================================================
