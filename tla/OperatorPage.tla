------------------------------ MODULE OperatorPage -----------------------------
(***************************************************************************)
(* The operator's page (frontend/app/page.tsx) and the handlers it calls   *)
(* (backend/app.py).  The page keeps its own copy of what the backend      *)
(* holds: the devices, the frozen source, the receipt.  Its requests run   *)
(* at the same time, the backend may handle them in any order, and each    *)
(* answer may be late or lost (a fetch that throws).                       *)
(*                                                                         *)
(* A click handler runs to its first await in one step, and so does what   *)
(* follows an answer.  A button that is disabled or not drawn cannot be    *)
(* clicked.  The handlers of the backend, which ProfileRun has in detail,  *)
(* are one step each.  Messages and the list of receipts are left out.     *)
(***************************************************************************)
EXTENDS FiniteSets, Naturals

CONSTANTS Devices,
          CompatibleWith,  \* targets each source's profile can be merged into;
                           \* a device whose report was not read is in none
          ScanResults,     \* inventories a scan may find
          Controls,        \* bound: set-control requests in flight
          MaxPlans,        \* bound: profile-plan requests in flight
          None

ASSUME CompatibleAssumption ==
    /\ CompatibleWith \in [Devices -> SUBSET Devices]
    /\ \A d \in Devices : d \notin CompatibleWith[d]
ASSUME ScanAssumption == ScanResults \subseteq SUBSET Devices
(* What the page and its requests in flight hold *)
Sources         == [ip : Devices, known : SUBSET Devices]
ScanRequests    == [mode : {"subnet", "known-ips"}, phase : {"sent", "asking", "found"}]
ControlRequests ==
    [phase : {"sent", "frozen", "lost"}, ip : Devices, known : SUBSET Devices]
Plans        == [targets : SUBSET Devices, source : Devices]
PlanRequests == [targets : SUBSET Devices, source : Devices \cup {None}, current : BOOLEAN]
PushRequests    ==
    [phase : {"sent"}, targets : SUBSET Devices] \cup
    [phase : {"done"}, updated : SUBSET Devices, source : Devices]
ActiveReceipts  == {None} \cup [source : Devices, open : SUBSET Devices]
Verifications   == [todo : SUBSET Devices, receipt : ActiveReceipts]

ASSUME NoneAssumption ==
    /\ \A K \in SUBSET Devices : None # K
    /\ None \notin Devices \cup Sources \cup ScanRequests \cup ControlRequests
    /\ None \notin PushRequests \cup Verifications \cup Plans
    /\ None \notin [source : Devices, open : SUBSET Devices]

VARIABLES devices,     \* the page: devices shown
          source,      \* controlSource: its ip and the inventory it was judged by
          selected,    \* selectedPushIps
          plan,        \* the profile plan shown
          planning,    \* profile-plan requests in flight: the source their plan is of,
                       \* once it is made, and whether the generation is current
          pushing,     \* the push-updates request in flight
          verifying,   \* verifySelectedTargets: targets to read, receipt at the click
          required,    \* verificationRequired
          receipt,     \* activeReceiptId: its source, and the targets it says
                       \* were updated and have no verdict yet
          loading,     \* the scan under way
          setting,     \* set-control requests in flight
          known,       \* the backend: the inventory
          control,     \* control_device_ip
          owed,        \* history: targets that were updated, and still selected when
                       \* the results came, until read back or a new batch is begun
          mixed        \* history: a set-control was lost, or met another one

batch   == <<pushing, verifying, required, receipt>>
choice  == <<devices, source, selected, plan, planning, loading>>
backend == <<known, control>>
history == <<owed, mixed>>
vars    == <<choice, batch, setting, backend, history>>

Init ==
    /\ devices = {} /\ source = None /\ selected = {}
    /\ plan = None /\ planning = {}
    /\ pushing = None /\ verifying = None
    /\ required = FALSE /\ receipt = None /\ loading = None
    /\ setting = [c \in Controls |-> None]
    /\ known = {} /\ control = None
    /\ owed = {} /\ mixed = FALSE

Idle == \A c \in Controls : setting[c] = None

\* The batch panel and the device cards are drawn.
Shown == loading = None /\ devices # {}

\* selectedDevices: what a plan, a write or a verification is asked for.
Queued == devices \cap selected

EligibleBy(s) == s.known \cap CompatibleWith[s.ip]
BlockedBy(s)  == (s.known \ CompatibleWith[s.ip]) \cup {s.ip}

--------------------------------------------------------------------------------
(* Profile plans                                                               *)

\* invalidateProfilePlan: no answer still to come is shown.
InvalidatePlan ==
    /\ plan' = None
    /\ planning' = {[q EXCEPT !.current = FALSE] : q \in planning}

GeneratePlan ==
    /\ Shown /\ source # None /\ selected # {} /\ Queued # {}
    /\ \A q \in planning : ~q.current   \* not "Planning..."
    /\ Cardinality(planning) < MaxPlans
    /\ plan' = None
    /\ planning' = planning \cup {[targets |-> Queued, source |-> None, current |-> TRUE]}
    /\ UNCHANGED <<devices, source, selected, loading, batch, setting, backend, history>>

\* profile_plan: a plan of the source frozen now, which the request does not name.  A
\* target its profile cannot be merged into is reported in the plan.
ProfilePlan(q) ==
    /\ q \in planning
    /\ q.source = None
    /\ control # None /\ control \in known
    /\ q.targets \subseteq known \ {control}
    /\ planning' = (planning \ {q}) \cup {[q EXCEPT !.source = control]}
    /\ UNCHANGED <<devices, source, selected, plan, loading, batch, setting, backend, history>>

\* Mutant: an answer is shown whatever has changed since the request.
PlanAnswered_AnyGeneration(q) ==
    /\ q \in planning
    /\ q.source # None
    /\ planning' = planning \ {q}
    /\ plan' = [targets |-> q.targets, source |-> q.source]
    /\ UNCHANGED <<devices, source, selected, loading, batch, setting, backend, history>>

\* An answer of an older generation is dropped.
PlanAnswered(q) ==
    /\ q \in planning
    /\ q.source # None
    /\ planning' = planning \ {q}
    /\ plan' = IF q.current THEN [targets |-> q.targets, source |-> q.source] ELSE plan
    /\ UNCHANGED <<devices, source, selected, loading, batch, setting, backend, history>>

\* Refused, or an answer that is lost.
PlanFailed(q) ==
    /\ q \in planning
    /\ planning' = planning \ {q}
    /\ plan' = IF q.current THEN None ELSE plan
    /\ UNCHANGED <<devices, source, selected, loading, batch, setting, backend, history>>

--------------------------------------------------------------------------------
(* Target selection                                                            *)

Select(chosen) ==
    /\ selected' = chosen
    /\ InvalidatePlan
    /\ UNCHANGED <<devices, source, loading, batch, setting, backend, history>>

\* Mutant: the selection can be changed while read-back is required.
SelectToggle_Always(d) ==
    /\ Shown /\ d \in devices
    /\ source # None => d \notin BlockedBy(source)
    /\ Select(IF d \in selected THEN selected \ {d} ELSE selected \cup {d})

SelectToggle(d) ==
    /\ Shown /\ d \in devices
    /\ ~required
    /\ source # None => d \notin BlockedBy(source)
    /\ Select(IF d \in selected THEN selected \ {d} ELSE selected \cup {d})

\* eligibleTargetIps is judged by the inventory of the source, not by what is shown.
SelectAll ==
    LET eligible == IF source = None THEN devices ELSE EligibleBy(source)
    IN  /\ Shown /\ ~required
        /\ eligible # {} /\ ~(eligible \subseteq selected)
        /\ Select(eligible)

ClearAll ==
    /\ Shown /\ ~required /\ selected # {}
    /\ Select({})

--------------------------------------------------------------------------------
(* Discovery                                                                   *)

\* Nothing is required of the targets written before; with no set-control under
\* way, a page without a source is one that agrees with the backend again.
NewBatch ==
    /\ required' = FALSE
    /\ owed' = {}
    /\ mixed' = (mixed /\ ~(source' = None /\ Idle))

ScanNetwork ==
    /\ loading = None
    /\ loading' = [mode |-> "subnet", phase |-> "sent"]
    /\ devices' = {} /\ source' = None /\ selected' = {}
    /\ InvalidatePlan
    /\ receipt' = None
    /\ NewBatch
    /\ UNCHANGED <<pushing, verifying, setting, backend>>

\* Without a subnet nothing is asked: the form has dropped the source already, and
\* everything else stays as it is.
SubmitWithoutSubnet ==
    /\ loading = None
    /\ source # None
    /\ source' = None
    /\ UNCHANGED <<devices, selected, plan, planning, loading, batch, setting, backend,
                   history>>

\* The page keeps what it shows until the answer comes.
ScanKnownIps ==
    /\ loading = None
    /\ loading' = [mode |-> "known-ips", phase |-> "sent"]
    /\ InvalidatePlan
    /\ receipt' = None
    /\ UNCHANGED <<devices, source, selected, pushing, verifying, required, setting,
                   backend, history>>

\* discover_devices_from_ips drops the frozen source first ...
DiscoverStart ==
    /\ loading # None
    /\ loading.phase = "sent"
    /\ loading' = [loading EXCEPT !.phase = "asking"]
    /\ control' = None
    /\ UNCHANGED <<devices, source, selected, plan, planning, batch, setting,
                   known, history>>

\* ... and replaces the inventory when every device has answered.
DiscoverFinish ==
    /\ loading # None
    /\ loading.phase = "asking"
    /\ loading' = [loading EXCEPT !.phase = "found"]
    /\ known' \in ScanResults
    /\ UNCHANGED <<devices, source, selected, plan, planning, batch, setting,
                   control, history>>

SubnetAnswered ==
    /\ loading = [mode |-> "subnet", phase |-> "found"]
    /\ loading' = None
    /\ devices' = known
    /\ UNCHANGED <<source, selected, plan, planning, batch, setting, backend, history>>

KnownIpsAnswered ==
    /\ loading = [mode |-> "known-ips", phase |-> "found"]
    /\ loading' = None
    /\ devices' = known
    /\ selected' = {} /\ source' = None
    /\ NewBatch
    /\ UNCHANGED <<plan, planning, pushing, verifying, receipt, setting, backend>>

\* Refused, failed half-way, or the answer lost.  (A scan given up before the backend
\* began it is dropped here.)
ScanFailed ==
    /\ loading # None
    /\ loading' = None
    /\ UNCHANGED <<devices, source, selected, plan, planning, batch, setting,
                   backend, history>>

--------------------------------------------------------------------------------
(* The source: handleConfirmControl, set_control                               *)

\* The dialog of a device shown; it stays open while devices are read by ip, and
\* may be confirmed again while a request is in flight.
ConfirmControl(c, d) ==
    /\ setting[c] = None
    /\ d \in devices
    /\ source # None => d # source.ip
    /\ setting' = [setting EXCEPT ![c] = [phase |-> "sent", ip |-> d, known |-> {}]]
    /\ receipt' = None
    /\ mixed' = (mixed \/ ~Idle)
    /\ UNCHANGED <<choice, pushing, verifying, required, backend, owed>>

SetControl(c) ==
    /\ setting[c] # None
    /\ setting[c].phase = "sent"
    /\ setting[c].ip \in known
    /\ control' = setting[c].ip
    /\ setting' = [setting EXCEPT ![c].phase = "frozen", ![c].known = known]
    /\ UNCHANGED <<choice, batch, known, history>>

\* Mutant: targets the new source cannot be merged into stay selected.
ControlAnswered_KeepsSelection(c) ==
    /\ setting[c] # None
    /\ setting[c].phase = "frozen"
    /\ setting' = [setting EXCEPT ![c] = None]
    /\ source' = [ip |-> setting[c].ip, known |-> setting[c].known]
    /\ InvalidatePlan
    /\ NewBatch
    /\ UNCHANGED <<devices, selected, loading, pushing, verifying, receipt, backend>>

ControlAnswered(c) ==
    /\ setting[c] # None
    /\ setting[c].phase = "frozen"
    /\ setting' = [setting EXCEPT ![c] = None]
    /\ source' = [ip |-> setting[c].ip, known |-> setting[c].known]
    /\ selected' = selected \cap EligibleBy(setting[c])
    /\ InvalidatePlan
    /\ NewBatch
    /\ UNCHANGED <<devices, loading, pushing, verifying, receipt, backend>>

\* Mutant: a source asked for counts as frozen whatever the answer was.
ControlFailed_ShowsIt(c) ==
    /\ setting[c] # None
    /\ setting[c].phase # "lost"
    /\ setting' = [setting EXCEPT ![c] = None]
    /\ source' = [ip |-> setting[c].ip, known |-> known]
    /\ selected' = selected \cap EligibleBy(source')
    /\ mixed' = (mixed \/ setting[c].phase = "frozen")
    /\ UNCHANGED <<devices, plan, planning, loading, batch, backend, owed>>

\* Refused, or an answer that is lost: the page keeps the source it had.  A fetch that
\* throws early leaves a request the backend may still handle.
ControlFailed(c) ==
    /\ setting[c] # None
    /\ setting[c].phase # "lost"
    /\ \/ /\ setting' = [setting EXCEPT ![c] = None]
          /\ mixed' = (mixed \/ setting[c].phase = "frozen")
       \/ /\ setting[c].phase = "sent"
          /\ setting' = [setting EXCEPT ![c].phase = "lost"]
          /\ mixed' = TRUE
    /\ UNCHANGED <<choice, batch, backend, owed>>

SetControlLate(c) ==
    /\ setting[c] # None
    /\ setting[c].phase = "lost"
    /\ setting[c].ip \in known
    /\ control' = setting[c].ip
    /\ setting' = [setting EXCEPT ![c] = None]
    /\ UNCHANGED <<choice, batch, known, history>>

--------------------------------------------------------------------------------
(* Writing: pushUpdates, push_updates                                          *)

\* The click and the confirmation, which names the source and blocks the page.
PushUpdates ==
    /\ Shown /\ source # None /\ selected # {}
    /\ pushing = None /\ verifying = None /\ ~required
    /\ pushing' = [phase |-> "sent", targets |-> Queued]
    /\ InvalidatePlan
    /\ UNCHANGED <<devices, source, selected, loading, verifying, required, receipt,
                   setting, backend, history>>

\* The request carries targets only: the profile is that of the source frozen now.
PushAccepted ==
    /\ pushing # None
    /\ pushing.phase = "sent"
    /\ pushing.targets # {}
    /\ control # None
    /\ pushing.targets \subseteq known \cap CompatibleWith[control]
    /\ \E updated \in SUBSET pushing.targets :
          pushing' = [phase |-> "done", updated |-> updated, source |-> control]
    /\ UNCHANGED <<choice, verifying, required, receipt, setting, backend, history>>

\* The results come: an updated target requires read-back before the next write.
PushAnswered ==
    /\ pushing # None
    /\ pushing.phase = "done"
    /\ pushing' = None
    /\ required' = (pushing.updated # {})
    /\ receipt' = [source |-> pushing.source, open |-> pushing.updated]
    /\ owed' = pushing.updated \cap Queued
    /\ UNCHANGED <<choice, verifying, setting, backend, mixed>>

\* Refused, or an answer that is lost: nothing else changes on the page, nor does it
\* when the backend handles the write later.
PushFailed ==
    /\ pushing # None
    /\ pushing' = None
    /\ UNCHANGED <<choice, verifying, required, receipt, setting, backend, history>>

--------------------------------------------------------------------------------
(* Read-back: verifySelectedTargets, verify_target                             *)

\* Mutant: read-back can be asked for while the write is under way.
VerifySelected_DuringWrite ==
    /\ Shown /\ source # None /\ Queued # {}
    /\ verifying = None
    /\ verifying' = [todo |-> Queued, receipt |-> receipt]
    /\ UNCHANGED <<choice, pushing, required, receipt, setting, backend, history>>

VerifySelected ==
    /\ Shown /\ source # None /\ Queued # {}
    /\ pushing = None /\ verifying = None
    /\ verifying' = [todo |-> Queued, receipt |-> receipt]
    /\ UNCHANGED <<choice, pushing, required, receipt, setting, backend, history>>

\* The checks of verify_target: with a receipt, the target is one that receipt
\* says was updated, it has no verdict yet, and the source is still the same.
Verifiable(d) ==
    /\ d \in known
    /\ control # None
    /\ d \in CompatibleWith[control]
    /\ verifying.receipt # None =>
          d \in verifying.receipt.open /\ verifying.receipt.source = control

WithVerdict(r, d) == IF r = None THEN None ELSE [r EXCEPT !.open = @ \ {d}]

\* While a verification runs the page has no receipt but that of the click.
Recorded(d) == receipt' = WithVerdict(receipt, d)

\* A target is read and matches: the next one is asked.
TargetMatches(d) ==
    /\ verifying # None
    /\ d \in verifying.todo
    /\ Verifiable(d)
    /\ Recorded(d)
    /\ verifying' = [todo    |-> verifying.todo \ {d},
                     receipt |-> WithVerdict(verifying.receipt, d)]
    /\ owed' = owed \ {d}
    /\ UNCHANGED <<choice, pushing, required, setting, backend, mixed>>

\* Refused, unreadable, a mismatch, or an answer that is lost: the loop breaks and
\* read-back is required, also where it was not before.
TargetFails(d) ==
    /\ verifying # None
    /\ d \in verifying.todo
    /\ \/ Verifiable(d) /\ Recorded(d)
       \/ receipt' = receipt
    /\ verifying' = None
    /\ required' = TRUE
    /\ UNCHANGED <<choice, pushing, setting, backend, history>>

\* Every target matched: the next selection is unlocked.
AllVerified ==
    /\ verifying # None
    /\ verifying.todo = {}
    /\ verifying' = None
    /\ required' = FALSE
    /\ selected' = {}
    /\ UNCHANGED <<devices, source, plan, planning, loading, pushing, receipt,
                   setting, backend, history>>

--------------------------------------------------------------------------------

PageStep ==
    \/ GeneratePlan
    \/ \E q \in planning : ProfilePlan(q) \/ PlanAnswered(q) \/ PlanFailed(q)
    \/ SelectAll \/ ClearAll \/ \E d \in Devices : SelectToggle(d)

ScanStep ==
    \/ ScanNetwork \/ SubmitWithoutSubnet \/ ScanKnownIps
    \/ DiscoverStart \/ DiscoverFinish
    \/ SubnetAnswered \/ KnownIpsAnswered \/ ScanFailed

ControlStep(c) ==
    \/ \E d \in Devices : ConfirmControl(c, d)
    \/ SetControl(c) \/ ControlAnswered(c) \/ ControlFailed(c) \/ SetControlLate(c)

\* A push is handled and answered, or fails; so is a verification.
PushStep ==
    \/ PushAccepted \/ PushAnswered \/ PushFailed

VerifyStep ==
    \/ \E d \in Devices : TargetMatches(d) \/ TargetFails(d)
    \/ AllVerified

Next ==
    \/ PageStep
    \/ ScanStep
    \/ \E c \in Controls : ControlStep(c)
    \/ PushUpdates \/ PushStep
    \/ VerifySelected \/ VerifyStep

Spec == Init /\ [][Next]_vars

--------------------------------------------------------------------------------
(* Properties                                                                  *)

\* Types; and a write and a read-back of one page never run at the same time.
TypeOK ==
    /\ devices \subseteq Devices /\ selected \subseteq Devices
    /\ source \in {None} \cup Sources
    /\ plan \in {None} \cup Plans
    /\ planning \subseteq PlanRequests
    /\ pushing \in {None} \cup PushRequests
    /\ verifying \in {None} \cup Verifications
    /\ required \in BOOLEAN /\ receipt \in ActiveReceipts
    /\ loading \in {None} \cup ScanRequests
    /\ setting \in [Controls -> {None} \cup ControlRequests]
    /\ known \subseteq Devices /\ control \in {None} \cup Devices
    /\ owed \subseteq Devices /\ mixed \in BOOLEAN
    /\ pushing = None \/ verifying = None

\* The backend has frozen a source and the page has not got the answer yet.
AnswerDue == \E c \in Controls : setting[c] # None /\ setting[c].phase = "frozen"

\* What the backend would write now, if anything, is the profile of s; unless the page
\* cannot know: a set-control's answer is still to come, was lost, or crossed another.
WritesProfileOf(s) == AnswerDue \/ mixed \/ control \in {s, None}

\* The plan shown beside the write button is for the targets that button would write,
\* whatever was selected or scanned while it was computed, and of the source whose
\* profile they would get.  (The README's "invalidated when inventory, source, target
\* selection [...] changes" holds of the source only once the page has the answer.)
PlanFits ==
    plan # None =>
        /\ selected # {} => plan.targets = Queued
        /\ WritesProfileOf(plan.source)

\* Neither the frozen source nor a target blocked for it is ever selected, in
\* whatever order selections, scans and set-control answers came.
SelectionAdmissible ==
    source # None => selected \cap BlockedBy(source) = {}

\* Unless a set-control answer was lost or two of them crossed, the source the
\* page names is the one the backend has frozen, or the backend has none.
SourceAgrees ==
    source # None /\ Idle /\ ~mixed => control \in {source.ip, None}

\* A target written and still selected when the results came keeps the next write
\* locked until a read-back matched, or a new batch is begun.
OwedLocks == owed # {} => required

\* Why these hold.  A plan still to come that would be shown is one for what is
\* selected and of what is frozen, and none is while a scan is under way.
PlanInFlight ==
    /\ \A q \in planning : q.current =>
          /\ selected # {} => q.targets = Queued
          /\ q.source # None => WritesProfileOf(q.source)
    /\ loading # None => plan = None /\ \A q \in planning : ~q.current

\* What is owed is among what a verification would read, or one still has to read.
OwedQueued ==
    /\ owed \subseteq Queued
    /\ verifying # None => owed \subseteq verifying.todo
    /\ loading # None => (loading.mode = "subnet" => selected = {})

\* Unless mixed, one set-control at a time is in flight, and what the backend froze
\* last is what the page shows or what the answer on its way will make it show.
ControlFollowed ==
    ~mixed =>
        /\ \A c \in Controls : setting[c] # None => setting[c].phase # "lost"
        /\ \A c, e \in Controls : setting[c] # None /\ setting[e] # None => c = e
        /\ \A c \in Controls : setting[c] # None =>
              (setting[c].phase = "frozen" => control \in {setting[c].ip, None})
        /\ source # None =>
              \/ control \in {source.ip, None}
              \/ AnswerDue

IndInv ==
    /\ TypeOK
    /\ PlanFits /\ PlanInFlight
    /\ SelectionAdmissible
    /\ OwedLocks /\ OwedQueued
    /\ ControlFollowed

\* Documented: a verification that unlocks the next selection has read back every
\* target its receipt says was updated.
AllReadBack ==
    [][verifying # None /\ verifying.receipt # None /\ verifying' = None /\ ~required'
          => verifying.receipt.open = {}]_vars
================================================================================
