------------------------------ MODULE RenameProofs -----------------------------
(***************************************************************************)
(* Theorems about Rename, for any number of addresses, units, plans and    *)
(* scans: a run leaves at most one device in doubt and its results admit   *)
(* every submission; and, while addresses and settings stay put under a    *)
(* run, a unit is only sent names with its own fleet number, a verified    *)
(* one has the approved settings, and no import changes the rest.          *)
(***************************************************************************)
EXTENDS Rename, TLAPS

--------------------------------------------------------------------------------
(* Lemmas about requests and settings                                          *)

LEMMA RequestParts ==
    ASSUME NEW r \in Requests
    PROVE  /\ r[1] \in Plans /\ r[2] \in Ips /\ r[3] \in Units
           /\ r[4] \in {"set-name", "import-settings"}
           /\ r = <<r[1], r[2], r[3], r[4]>>
  BY DEF Requests

\* What a plan sends and expects are settings, with the rest of those it froze.
LEMMA EntrySettings ==
    ASSUME NEW e \in Entry
    PROVE  /\ e.unit \in Journaled /\ e.unit \in Units
           /\ e.before \in Settings /\ e.newName \in Names
           /\ AfterName(e) \in Settings /\ AfterName(e).rest = e.before.rest
           /\ Payload(e) \in Settings /\ Payload(e).rest = e.before.rest
  <1>1. /\ e.unit \in Journaled /\ e.unit \in Units
        /\ e.before \in Settings /\ e.newName \in Names
    BY FleetAssumption DEF Entry
  <1>2. AfterName(e) \in Settings /\ AfterName(e).rest = e.before.rest
    BY <1>1 DEF AfterName, Settings
  <1>3. Payload(e) \in Settings /\ Payload(e).rest = e.before.rest
    BY <1>1 DEF Payload, BuildRenameSettings, Settings
  <1> QED BY <1>1, <1>2, <1>3

\* A request that reached a unit belongs to an entry of its plan.
LEMMA ReachedEntry ==
    ASSUME IndInv, NEW r \in reached
    PROVE  /\ r \in Requests
           /\ plan[r[1]].entry[r[2]] \in Entry
           /\ step[r[1]][r[2]] \notin {"no-target", "due", "not-submitted"}
           /\ step[r[1]][r[2]] \in Steps
           /\ plan[r[1]].pc \notin {"new", "built"}
  <1>1. r \in Requests
    BY DEF IndInv, TypeOK
  <1>2. r[1] \in Plans /\ r[2] \in Ips
    BY <1>1, RequestParts
  <1>3. /\ step[r[1]][r[2]] \in Steps
        /\ step[r[1]][r[2]] \notin {"no-target", "due", "not-submitted"}
    BY <1>2 DEF IndInv, TypeOK, ReportExact, NameAdmitted, ImportAdmitted
  <1>4. PlanOK(r[1])
    BY <1>2 DEF IndInv
  <1> QED BY <1>1, <1>2, <1>3, <1>4 DEF PlanOK

--------------------------------------------------------------------------------
(* A step of an entry                                                          *)

\* The statuses an entry's step may lead to: none of them hides a submission
\* that the one before admitted.
Forward(s, t) ==
    /\ s \in Steps \ {"no-target"} /\ t \in Steps \ {"no-target"}
    /\ s \in NameAdmitted => t \in NameAdmitted
    /\ s \in ImportAdmitted => t \in ImportAdmitted

LEMMA EntryStep ==
    ASSUME IndInv, NEW p \in Plans, NEW i \in Ips, NEW s, NEW t,
           At(p, i, s), GoTo(p, i, t), Forward(s, t),
           plan' = plan, lock' = lock, scan' = scan
    PROVE  /\ step' \in [Plans -> [Ips -> Steps]]
           /\ step'[p][i] = t
           /\ lock = p
           /\ plan[p].entry[i] \in Entry
           /\ \A q \in Plans : PlanOK(q)'
           /\ \A x \in Scans : ScanOK(x)'
           /\ OneInDoubt'
           /\ \A r \in reached :
                 step'[r[1]][r[2]] \in (IF r[4] = "set-name" THEN NameAdmitted ELSE ImportAdmitted)
  <1>1. step \in [Plans -> [Ips -> Steps]]
    BY DEF IndInv, TypeOK
  <1>2. /\ step' \in [Plans -> [Ips -> Steps]]
        /\ step'[p][i] = t
        /\ \A q \in Plans, j \in Ips : q # p \/ j # i => step'[q][j] = step[q][j]
    BY <1>1 DEF GoTo, Forward
  <1>3. step[p][i] = s /\ s # "no-target" /\ t # "no-target" /\ plan[p].pc = "executing"
    BY DEF At, Forward
  <1>4. PlanOK(p) /\ lock = p
    BY <1>3 DEF IndInv, PlanOK
  <1>5. plan[p].entry[i] \in Entry
    BY <1>3, <1>4 DEF PlanOK
  <1>6. \A q \in Plans : PlanOK(q)'
    <2> TAKE q \in Plans
    <2>1. PlanOK(q)
      BY DEF IndInv
    <2>2. CASE q = p
      BY <1>2, <1>3, <2>1, <2>2 DEF PlanOK
    <2>3. CASE q # p
      BY <1>2, <2>1, <2>3 DEF PlanOK
    <2> QED BY <2>2, <2>3
  <1>7. \A x \in Scans : ScanOK(x)'
    BY DEF IndInv, ScanOK
  <1>8. OneInDoubt'
    <2>1. \A j \in Ips \ {i} : step'[p][j] \in {"no-target", "due", "renamed-and-verified"}
      BY <1>2 DEF At
    <2>2. \A q \in Plans \ {p}, j \in Ips : step'[q][j] = step[q][j]
      BY <1>2
    <2>3. OneInDoubt
      BY DEF IndInv
    <2> QED BY <2>1, <2>2, <2>3 DEF OneInDoubt
  <1>9. ASSUME NEW r \in reached
        PROVE  step'[r[1]][r[2]] \in (IF r[4] = "set-name" THEN NameAdmitted ELSE ImportAdmitted)
    <2>1. r[1] \in Plans /\ r[2] \in Ips
      BY <1>9, ReachedEntry, RequestParts
    <2>2. step[r[1]][r[2]] \in (IF r[4] = "set-name" THEN NameAdmitted ELSE ImportAdmitted)
      BY DEF IndInv, ReportExact
    <2>3. CASE r[1] = p /\ r[2] = i
      BY <1>2, <1>3, <2>2, <2>3 DEF Forward
    <2>4. CASE ~(r[1] = p /\ r[2] = i)
      BY <1>2, <2>1, <2>2, <2>4
    <2> QED BY <2>3, <2>4
  <1> QED BY <1>2, <1>4, <1>5, <1>6, <1>7, <1>8, <1>9

\* The run's knowledge of the unit it talks to.
LEMMA EntryChecked ==
    ASSUME IndInv, NEW p \in Plans, NEW i \in Ips, NEW s, NEW t,
           At(p, i, s), GoTo(p, i, t), Forward(s, t),
           plan' = plan, lock' = lock, at' = at, device' = device,
           t \in {"identity-read"} \cup Submitting => at[i] = plan[p].entry[i].unit,
           t \in Submitting => cookie' = plan[p].entry[i].unit,
           t = "name-shown" =>
              device[plan[p].entry[i].unit].rest = plan[p].entry[i].before.rest
    PROVE  \A q \in Plans : StillAsChecked(q)'
  <1>1. step \in [Plans -> [Ips -> Steps]]
    BY DEF IndInv, TypeOK
  <1>2. step'[p][i] = t /\ \A j \in Ips \ {i} : step'[p][j] = step[p][j]
    BY <1>1 DEF GoTo
  <1>3. lock = p
    BY DEF At, IndInv, PlanOK
  <1>4. \A j \in Ips \ {i} : step'[p][j] \in {"no-target", "due", "renamed-and-verified"}
    BY <1>2 DEF At
  <1>5. StillAsChecked(p)'
    BY <1>2, <1>4 DEF StillAsChecked, Submitting
  <1> QED BY <1>3, <1>5 DEF StillAsChecked

\* A step of an entry that sends nothing.
LEMMA QuietEntryStep ==
    ASSUME IndInv, NEW p \in Plans, NEW i \in Ips, NEW s, NEW t,
           At(p, i, s), GoTo(p, i, t), Forward(s, t), UNCHANGED <<runElse, world>>,
           cookie' \in Units \cup {None}, reads' \in 0..(MaxReads - 1),
           ~ChangesInRun =>
              /\ t \in {"identity-read"} \cup Submitting => at[i] = plan[p].entry[i].unit
              /\ t \in Submitting => cookie' = plan[p].entry[i].unit
              /\ t = "name-shown" =>
                    device[plan[p].entry[i].unit].rest = plan[p].entry[i].before.rest
    PROVE  IndInv'
  <1>1. UNCHANGED <<inventory, scan, scanRequired, plan, lock, at, device, pending, reached,
                    moves, changes, crashes, scans>>
    BY DEF runElse, world, bounds
  <1>2. /\ step' \in [Plans -> [Ips -> Steps]]
        /\ \A q \in Plans : PlanOK(q)'
        /\ \A x \in Scans : ScanOK(x)'
        /\ OneInDoubt'
        /\ ReportExact'
    BY <1>1, EntryStep DEF ReportExact
  <1>3. TypeOK'
    BY <1>1, <1>2 DEF IndInv, TypeOK
  <1>4. ASSUME ~ChangesInRun PROVE SentAsPlanned'
    BY <1>1, <1>4 DEF IndInv, SentAsPlanned
  <1>5. ASSUME ~ChangesInRun PROVE \A q \in Plans : StillAsChecked(q)'
    BY <1>1, <1>5, EntryChecked
  <1> QED BY <1>2, <1>3, <1>4, <1>5 DEF IndInv

\* What the run knows of the entry it is at.
LEMMA KnownEntry ==
    ASSUME IndInv, NEW p \in Plans, NEW i \in Ips, NEW s, At(p, i, s), s \in Steps \ {"no-target"}
    PROVE  /\ plan[p].entry[i] \in Entry
           /\ ~ChangesInRun =>
                /\ s \in {"identity-read"} \cup Submitting => at[i] = plan[p].entry[i].unit
                /\ s \in Submitting => cookie = plan[p].entry[i].unit
                /\ s = "name-shown" =>
                      device[plan[p].entry[i].unit].rest = plan[p].entry[i].before.rest
  <1>1. lock = p /\ plan[p].entry[i] \in Entry
    BY DEF At, IndInv, PlanOK
  <1>2. ASSUME ~ChangesInRun PROVE StillAsChecked(p)
    BY <1>2 DEF IndInv
  <1> QED BY <1>1, <1>2 DEF StillAsChecked, At

LEMMA CookieAndReads ==
    IndInv => /\ cookie \in Units \cup {None} /\ reads \in 0..(MaxReads - 1)
              /\ at \in [Ips -> Units]
  BY DEF IndInv, TypeOK

USE DEF Forward, Steps, BeforeName, Stops, NameAdmitted, ImportAdmitted, Submitting

LEMMA ReadLiveStep ==
    ASSUME IndInv, NEW p \in Plans, NEW i \in Ips, ReadLive(p, i)
    PROVE  IndInv'
  <1>1. PICK t \in {"report-read", "stopped-before-submission"} : GoTo(p, i, t)
    BY DEF ReadLive
  <1>2. At(p, i, "due") /\ UNCHANGED <<runElse, cookie, reads, world>>
    BY DEF ReadLive
  <1> QED BY <1>1, <1>2, CookieAndReads, QuietEntryStep

LEMMA ReadIdentityStep ==
    ASSUME IndInv, NEW p \in Plans, NEW i \in Ips, ReadIdentity(p, i)
    PROVE  IndInv'
  <1>1. PICK t \in {"identity-read", "stopped-before-submission"} :
           GoTo(p, i, t) /\ (t = "identity-read" => at[i] = plan[p].entry[i].unit)
    BY DEF ReadIdentity
  <1>2. At(p, i, "report-read") /\ UNCHANGED <<runElse, cookie, reads, world>>
    BY DEF ReadIdentity
  <1> QED BY <1>1, <1>2, CookieAndReads, QuietEntryStep

LEMMA LogInStep ==
    ASSUME IndInv, NEW p \in Plans, NEW i \in Ips, LogIn(p, i)
    PROVE  IndInv'
  <1>1. PICK t \in {"logged-in", "stopped-before-submission"} :
           GoTo(p, i, t) /\ (t = "logged-in" => cookie' = at[i])
                         /\ (t = "stopped-before-submission" => cookie' = cookie)
    BY DEF LogIn
  <1>2. At(p, i, "identity-read") /\ UNCHANGED <<runElse, reads, world>>
    BY DEF LogIn
  <1>3. ~ChangesInRun => at[i] = plan[p].entry[i].unit
    BY <1>2, KnownEntry
  <1>4. cookie' \in Units \cup {None} /\ reads' \in 0..(MaxReads - 1)
    BY <1>1, <1>2, CookieAndReads
  <1> QED BY <1>1, <1>2, <1>3, <1>4, QuietEntryStep

LEMMA NameAnsweredStep ==
    ASSUME IndInv, NEW p \in Plans, NEW i \in Ips, NameAnswered(p, i)
    PROVE  IndInv'
  <1>1. PICK s \in {"name-reached", "name-missed"},
             t \in {"name-accepted", "stopped-after-display-name-submission"} :
           At(p, i, s) /\ GoTo(p, i, t)
    BY DEF NameAnswered
  <1>2. UNCHANGED <<runElse, cookie, reads, world>>
    BY DEF NameAnswered
  <1>3. ~ChangesInRun => at[i] = plan[p].entry[i].unit /\ cookie = plan[p].entry[i].unit
    BY <1>1, KnownEntry
  <1> QED BY <1>1, <1>2, <1>3, CookieAndReads, QuietEntryStep

LEMMA ImportAnsweredStep ==
    ASSUME IndInv, NEW p \in Plans, NEW i \in Ips, ImportAnswered(p, i)
    PROVE  IndInv'
  <1>1. PICK s \in {"import-reached", "import-missed"},
             t \in {"import-accepted", "stopped-after-recording-name-submission"} :
           At(p, i, s) /\ GoTo(p, i, t) /\ (t = "import-accepted" => s = "import-reached")
    BY DEF ImportAnswered
  <1>2. UNCHANGED <<runElse, cookie, reads, world>>
    BY DEF ImportAnswered
  <1>3. ~ChangesInRun => at[i] = plan[p].entry[i].unit /\ cookie = plan[p].entry[i].unit
    BY <1>1, KnownEntry
  <1> QED BY <1>1, <1>2, <1>3, CookieAndReads, QuietEntryStep

\* A read-back settles the entry, leaves it where it is, or stops the run.
LEMMA ReadStageCases ==
    ASSUME IndInv, NEW p \in Plans, NEW i \in Ips, NEW s, At(p, i, s), s \in Steps,
           NEW expected, NEW settled, NEW stopped,
           ReadStage(p, i, expected, settled, stopped)
    PROVE  /\ reads' \in 0..(MaxReads - 1)
           /\ \E t \in {settled, s, stopped} :
                 GoTo(p, i, t) /\ (t = settled /\ t # s /\ t # stopped => device[at[i]] = expected)
  <1>1. step \in [Plans -> [Ips -> Steps]] /\ step[p][i] = s
    BY DEF IndInv, TypeOK, At
  <1>2. reads \in Nat /\ MaxReads \in Nat \ {0}
    BY CookieAndReads, ReadsAssumption
  <1>3. CASE device[at[i]] = expected /\ GoTo(p, i, settled) /\ reads' = 0
    BY <1>2, <1>3
  <1>4. CASE reads + 1 < MaxReads /\ reads' = reads + 1 /\ UNCHANGED step
    <2>1. GoTo(p, i, s)
      BY <1>1, <1>4 DEF GoTo
    <2> QED BY <1>2, <1>4, <2>1
  <1>5. CASE GoTo(p, i, stopped) /\ reads' = 0
    BY <1>2, <1>5
  <1> QED BY <1>3, <1>4, <1>5 DEF ReadStage

LEMMA ReadNameStep ==
    ASSUME IndInv, NEW p \in Plans, NEW i \in Ips, ReadName(p, i)
    PROVE  IndInv'
  <1> DEFINE e == plan[p].entry[i]
             settled == IF RecordingChanges(e) THEN "name-shown" ELSE "renamed-and-verified"
             stopped == "stopped-after-display-name-submission"
  <1>1. At(p, i, "name-accepted") /\ UNCHANGED <<runElse, cookie, world>>
    BY DEF ReadName
  <1>2. ReadStage(p, i, AfterName(e), settled, stopped)
    BY DEF ReadName
  <1>3. settled \in {"name-shown", "renamed-and-verified"}
    OBVIOUS
  <1>4. PICK t \in {settled, "name-accepted", stopped} :
           /\ GoTo(p, i, t)
           /\ t = settled /\ t # "name-accepted" /\ t # stopped => device[at[i]] = AfterName(e)
    <2> HIDE DEF settled
    <2> QED BY <1>1, <1>2, ReadStageCases
  <1>5. reads' \in 0..(MaxReads - 1)
    <2> HIDE DEF settled
    <2> QED BY <1>1, <1>2, ReadStageCases
  <1>6. e \in Entry /\ (~ChangesInRun => at[i] = e.unit /\ cookie = e.unit)
    BY <1>1, KnownEntry
  <1>7. t = "name-shown" => device[at[i]].rest = e.before.rest
    <2>1. t = "name-shown" => t = settled /\ t # "name-accepted" /\ t # stopped
      BY <1>3
    <2> QED BY <1>4, <1>6, <2>1, EntrySettings
  <1>8. cookie' \in Units \cup {None}
    BY <1>1, CookieAndReads
  <1> HIDE DEF settled
  <1> QED BY <1>1, <1>3, <1>4, <1>5, <1>6, <1>7, <1>8, QuietEntryStep

LEMMA ReadImportStep ==
    ASSUME IndInv, NEW p \in Plans, NEW i \in Ips, ReadImport(p, i)
    PROVE  IndInv'
  <1> DEFINE e == plan[p].entry[i]
  <1>1. At(p, i, "import-accepted") /\ UNCHANGED <<runElse, cookie, world>>
    BY DEF ReadImport
  <1>2. ReadStage(p, i, Payload(e), "renamed-and-verified",
                  "stopped-after-recording-name-submission")
    BY DEF ReadImport
  <1>3. PICK t \in {"renamed-and-verified", "import-accepted",
                    "stopped-after-recording-name-submission"} : GoTo(p, i, t)
    BY <1>1, <1>2, ReadStageCases
  <1>4. reads' \in 0..(MaxReads - 1)
    BY <1>1, <1>2, ReadStageCases
  <1>5. ~ChangesInRun => at[i] = e.unit /\ cookie = e.unit
    BY <1>1, KnownEntry
  <1>6. cookie' \in Units \cup {None}
    BY <1>1, CookieAndReads
  <1> QED BY <1>1, <1>3, <1>4, <1>5, <1>6, QuietEntryStep

--------------------------------------------------------------------------------
(* Submissions                                                                 *)

LEMMA SubmitStep ==
    ASSUME IndInv, NEW p \in Plans, NEW i \in Ips, NEW s, At(p, i, s),
           NEW method, NEW hit, NEW missed, Submit(p, i, method, hit, missed),
           \/ /\ s = "logged-in" /\ method = "set-name"
              /\ hit = "name-reached" /\ missed = "name-missed"
           \/ /\ s = "name-shown" /\ method = "import-settings"
              /\ hit = "import-reached" /\ missed = "import-missed"
    PROVE  IndInv'
  <1> DEFINE e == plan[p].entry[i]
             r0 == <<p, i, at[i], method>>
  <1>1. UNCHANGED <<runElse, cookie, reads, at, device, moves, changes>>
    BY DEF Submit
  <1>2. UNCHANGED <<inventory, scan, scanRequired, plan, lock, crashes, scans>>
    BY <1>1 DEF runElse, bounds
  <1>3. e \in Entry /\ (~ChangesInRun =>
           /\ at[i] = e.unit /\ cookie = e.unit
           /\ s = "name-shown" => device[e.unit].rest = e.before.rest)
    BY KnownEntry
  <1>4. CASE GoTo(p, i, missed) /\ UNCHANGED <<pending, reached>>
    BY <1>1, <1>3, <1>4, CookieAndReads, QuietEntryStep DEF world
  <1>5. CASE /\ GoTo(p, i, hit)
             /\ pending' = pending \cup {r0}
             /\ reached' = reached \cup {r0}
    <2>1. Forward(s, hit)
      OBVIOUS
    <2>2. /\ step' \in [Plans -> [Ips -> Steps]]
          /\ step'[p][i] = hit
          /\ \A q \in Plans : PlanOK(q)'
          /\ \A x \in Scans : ScanOK(x)'
          /\ OneInDoubt'
          /\ \A r \in reached : step'[r[1]][r[2]] \in
                (IF r[4] = "set-name" THEN NameAdmitted ELSE ImportAdmitted)
      BY <1>2, <1>5, <2>1, EntryStep
    <2>3. r0 \in Requests /\ r0[1] = p /\ r0[2] = i /\ r0[3] = at[i] /\ r0[4] = method
      BY CookieAndReads DEF Requests
    <2>4. TypeOK'
      BY <1>1, <1>2, <1>5, <2>2, <2>3 DEF IndInv, TypeOK
    <2>5. ReportExact'
      <3>1. step'[r0[1]][r0[2]] \in
               (IF r0[4] = "set-name" THEN NameAdmitted ELSE ImportAdmitted)
        BY <2>2, <2>3
      <3> HIDE DEF r0
      <3> QED BY <1>5, <2>2, <3>1 DEF ReportExact
    <2>6. ASSUME ~ChangesInRun PROVE SentAsPlanned'
      <3>1. SentAsPlanned
        BY <2>6 DEF IndInv
      <3>2. r0[3] = plan[r0[1]].entry[r0[2]].unit
        BY <1>3, <2>3, <2>6
      <3>3. r0[4] = "import-settings" =>
               device[r0[3]].rest = plan[r0[1]].entry[r0[2]].before.rest
        BY <1>3, <2>3, <2>6
      <3> HIDE DEF r0
      <3> QED BY <1>1, <1>2, <1>5, <3>1, <3>2, <3>3 DEF SentAsPlanned
    <2>7. ASSUME ~ChangesInRun PROVE \A q \in Plans : StillAsChecked(q)'
      BY <1>1, <1>2, <1>3, <1>5, <2>1, <2>7, EntryChecked
    <2> QED BY <2>2, <2>4, <2>5, <2>6, <2>7 DEF IndInv
  <1> QED BY <1>4, <1>5 DEF Submit

--------------------------------------------------------------------------------
(* Plans and runs as a whole                                                   *)

LEMMA BuildStep ==
    ASSUME IndInv, NEW p \in Plans, NEW T \in SUBSET Ips, NEW new \in [T -> Names],
           BuildRenamePlan(p, T, new)
    PROVE  IndInv'
  <1> DEFINE entry == [i \in Ips |->
                 IF i \in T THEN [unit |-> inventory[i].unit,
                                  before |-> inventory[i].settings, newName |-> new[i]]
                            ELSE None]
             begun == [i \in Ips |-> IF i \in T THEN "due" ELSE "no-target"]
  <1>1. /\ plan[p].pc = "new"
        /\ \A i \in T : Usable(i) /\ new[i] \in NamesFor[inventory[i].unit]
        /\ plan' = [plan EXCEPT ![p] = [pc |-> "built", entry |-> entry]]
        /\ step' = [step EXCEPT ![p] = begun]
        /\ UNCHANGED <<inventory, scan, scanRequired, lock, cookie, reads, world, bounds>>
    BY DEF BuildRenamePlan
  <1>2. \A i \in T : entry[i] \in Entry /\ entry[i].newName \in NamesFor[entry[i].unit]
    BY <1>1 DEF Usable, Entry
  <1>3. entry \in [Ips -> Entry \cup {None}] /\ begun \in [Ips -> Steps]
    BY <1>2
  <1>4. \A i \in Ips : begun[i] \in {"no-target", "due"} /\ (begun[i] # "no-target" => i \in T)
    OBVIOUS
  <1> HIDE DEF entry, begun
  <1>5. TypeOK /\ OneInDoubt /\ ReportExact /\ (\A q \in Plans : PlanOK(q))
    BY DEF IndInv
  <1>6. /\ plan'[p] = [pc |-> "built", entry |-> entry] /\ step'[p] = begun
        /\ \A q \in Plans \ {p} : plan'[q] = plan[q] /\ step'[q] = step[q]
    BY <1>1, <1>5 DEF TypeOK
  <1>7. lock # p
    BY <1>1, <1>5 DEF PlanOK
  <1>8. TypeOK'
    BY <1>1, <1>3, <1>5 DEF TypeOK, world, bounds
  <1>9. \A q \in Plans : PlanOK(q)'
    <2> TAKE q \in Plans
    <2>1. CASE q = p
      BY <1>1, <1>2, <1>4, <1>6, <1>7, <2>1 DEF PlanOK
    <2>2. CASE q # p
      BY <1>1, <1>5, <1>6, <2>2 DEF PlanOK
    <2> QED BY <2>1, <2>2
  <1>10. OneInDoubt'
    BY <1>4, <1>5, <1>6 DEF OneInDoubt
  <1>11. \A r \in reached : r[1] \in Plans \ {p} /\ r[2] \in Ips
    BY <1>1, ReachedEntry, RequestParts
  <1>12. reached' = reached /\ pending' = pending /\ device' = device /\ at' = at
    BY <1>1 DEF world
  <1>13. ReportExact'
    BY <1>5, <1>6, <1>11, <1>12 DEF ReportExact
  <1>14. ASSUME ~ChangesInRun PROVE SentAsPlanned'
    BY <1>5, <1>6, <1>11, <1>12, <1>14 DEF SentAsPlanned, IndInv, TypeOK
  <1>15. ASSUME ~ChangesInRun, NEW q \in Plans PROVE StillAsChecked(q)'
    BY <1>1, <1>6, <1>7, <1>12, <1>15 DEF StillAsChecked, IndInv
  <1>16. \A x \in Scans : ScanOK(x)'
    BY <1>1 DEF IndInv, ScanOK
  <1> QED BY <1>8, <1>9, <1>10, <1>13, <1>14, <1>15, <1>16 DEF IndInv

LEMMA ExecuteStep ==
    ASSUME IndInv, NEW p \in Plans, RenameExecute(p)
    PROVE  IndInv'
  <1>1. /\ plan[p].pc = "built" /\ lock = None
        /\ plan' = [plan EXCEPT ![p].pc = "executing"] /\ lock' = p
        /\ UNCHANGED <<inventory, scan, scanRequired, step, cookie, reads, world, bounds>>
    BY DEF RenameExecute
  <1>2. TypeOK /\ (\A q \in Plans : PlanOK(q))
    BY DEF IndInv
  <1>3. /\ plan'[p].pc = "executing" /\ plan'[p].entry = plan[p].entry
        /\ \A q \in Plans \ {p} : plan'[q] = plan[q]
    BY <1>1, <1>2 DEF TypeOK
  <1>4. TypeOK'
    BY <1>1, <1>2 DEF TypeOK, world, bounds
  <1>5. \A q \in Plans : PlanOK(q)'
    <2> TAKE q \in Plans
    <2>1. CASE q = p
      BY <1>1, <1>2, <1>3, <2>1 DEF PlanOK
    <2>2. CASE q # p
      BY <1>1, <1>2, <1>3, <2>2, MarkerAssumption DEF PlanOK
    <2> QED BY <2>1, <2>2
  <1>6. OneInDoubt' /\ ReportExact' /\ \A x \in Scans : ScanOK(x)'
    BY <1>1 DEF IndInv, OneInDoubt, ReportExact, ScanOK, world
  <1>7. \A q \in Plans : plan'[q].entry = plan[q].entry
    BY <1>3
  <1>8. ASSUME ~ChangesInRun PROVE SentAsPlanned'
    <2>1. SentAsPlanned /\ UNCHANGED <<reached, pending, device>>
      BY <1>1, <1>8 DEF IndInv, world
    <2>2. \A r \in reached : r[1] \in Plans
      BY ReachedEntry, RequestParts
    <2>3. pending \subseteq reached
      BY <1>2 DEF TypeOK
    <2> QED BY <1>7, <2>1, <2>2, <2>3 DEF SentAsPlanned
  <1>9. \A q \in Plans : StillAsChecked(q)'
    <2>1. \A i \in Ips : step'[p][i] \in {"no-target", "due"}
      BY <1>1, <1>2 DEF PlanOK
    <2> QED BY <1>1, <2>1 DEF StillAsChecked
  <1> QED BY <1>4, <1>5, <1>6, <1>8, <1>9 DEF IndInv

LEMMA FinishStep ==
    ASSUME IndInv, NEW p \in Plans, FinishRename(p)
    PROVE  IndInv'
  <1> DEFINE result == [i \in Ips |-> IF step[p][i] = "due" THEN "not-submitted" ELSE step[p][i]]
  <1>1. /\ plan[p].pc = "executing"
        /\ plan' = [plan EXCEPT ![p].pc = "ended"] /\ lock' = None /\ cookie' = None
        /\ step' = [step EXCEPT ![p] = result]
        /\ scanRequired' = (scanRequired \/ \E i \in Ips : step[p][i] \in Stops)
        /\ UNCHANGED <<inventory, scan, reads, world, bounds>>
    BY DEF FinishRename
  <1>2. TypeOK /\ OneInDoubt /\ ReportExact /\ (\A q \in Plans : PlanOK(q))
    BY DEF IndInv
  <1>3. /\ result \in [Ips -> Steps]
        /\ \A i \in Ips :
              /\ step[p][i] = "due" => result[i] = "not-submitted"
              /\ step[p][i] # "due" => result[i] = step[p][i]
    BY <1>2 DEF TypeOK
  <1> HIDE DEF result
  <1>4. /\ plan'[p].pc = "ended" /\ plan'[p].entry = plan[p].entry /\ step'[p] = result
        /\ \A q \in Plans \ {p} : plan'[q] = plan[q] /\ step'[q] = step[q]
    BY <1>1, <1>2 DEF TypeOK
  <1>5. TypeOK'
    <2>1. scanRequired' \in BOOLEAN
      BY <1>1
    <2> QED BY <1>1, <1>2, <1>3, <2>1 DEF TypeOK, world, bounds
  <1>6. \A q \in Plans : PlanOK(q)'
    <2> TAKE q \in Plans
    <2>1. CASE q = p
      BY <1>1, <1>2, <1>3, <1>4, <2>1, MarkerAssumption DEF PlanOK
    <2>2. CASE q # p
      BY <1>1, <1>2, <1>4, <2>2, MarkerAssumption DEF PlanOK
    <2> QED BY <2>1, <2>2
  <1>7. OneInDoubt'
    BY <1>2, <1>3, <1>4 DEF OneInDoubt
  <1>8. UNCHANGED <<reached, pending, device>>
    BY <1>1 DEF world
  <1>9. \A r \in reached : /\ r[1] \in Plans /\ r[2] \in Ips
                           /\ step'[r[1]][r[2]] = step[r[1]][r[2]]
    <2> TAKE r \in reached
    <2>1. r[1] \in Plans /\ r[2] \in Ips /\ step[r[1]][r[2]] # "due"
      BY ReachedEntry, RequestParts
    <2> QED BY <1>3, <1>4, <2>1
  <1>10. ReportExact'
    BY <1>2, <1>8, <1>9 DEF ReportExact
  <1>11. ASSUME ~ChangesInRun PROVE SentAsPlanned'
    <2>1. SentAsPlanned /\ pending \subseteq reached
      BY <1>2, <1>11 DEF IndInv, TypeOK
    <2>2. \A q \in Plans : plan'[q].entry = plan[q].entry
      BY <1>4
    <2> QED BY <1>8, <1>9, <2>1, <2>2 DEF SentAsPlanned
  <1>12. \A q \in Plans : StillAsChecked(q)'
    BY <1>1, MarkerAssumption DEF StillAsChecked
  <1>13. \A x \in Scans : ScanOK(x)'
    BY <1>1 DEF IndInv, ScanOK
  <1> QED BY <1>5, <1>6, <1>7, <1>10, <1>11, <1>12, <1>13 DEF IndInv

LEMMA CrashStep ==
    ASSUME IndInv, Crash
    PROVE  IndInv'
  <1>1. /\ plan' = [p \in Plans |->
              IF plan[p].pc = "new" THEN plan[p] ELSE [plan[p] EXCEPT !.pc = "ended"]]
        /\ inventory' = [i \in Ips |-> Unread] /\ scan' = [s \in Scans |-> None]
        /\ scanRequired' = FALSE /\ lock' = None /\ cookie' = None /\ reads' = 0
        /\ crashes < MaxCrashes /\ crashes' = crashes + 1
        /\ UNCHANGED <<step, world, scans>>
    BY DEF Crash
  <1>2. TypeOK /\ (\A q \in Plans : PlanOK(q))
    BY DEF IndInv
  <1>3. \A q \in Plans :
           /\ plan'[q].entry = plan[q].entry
           /\ plan'[q].pc = IF plan[q].pc = "new" THEN "new" ELSE "ended"
    BY <1>1, <1>2 DEF TypeOK
  <1>4. TypeOK'
    <2>1. plan' \in [Plans -> [pc : {"new", "built", "executing", "ended"},
                               entry : [Ips -> Entry \cup {None}]]]
      BY <1>1, <1>2 DEF TypeOK
    <2>2. inventory' \in [Ips -> CacheRecord] /\ reads' \in 0..(MaxReads - 1)
      BY <1>1, ReadsAssumption DEF CacheRecord, Unread
    <2>3. crashes' \in 0..MaxCrashes
      BY <1>1, <1>2, BoundsAssumption DEF TypeOK
    <2> QED BY <1>1, <1>2, <2>1, <2>2, <2>3 DEF TypeOK, world
  <1>5. \A q \in Plans : PlanOK(q)'
    BY <1>1, <1>2, <1>3, MarkerAssumption DEF PlanOK
  <1>6. OneInDoubt' /\ ReportExact' /\ \A x \in Scans : ScanOK(x)'
    BY <1>1 DEF IndInv, OneInDoubt, ReportExact, ScanOK, world
  <1>7. ASSUME ~ChangesInRun PROVE SentAsPlanned'
    <2>1. SentAsPlanned /\ pending \subseteq reached /\ UNCHANGED <<reached, pending, device>>
      BY <1>1, <1>2, <1>7 DEF IndInv, TypeOK, world
    <2>2. \A r \in reached : r[1] \in Plans
      BY ReachedEntry, RequestParts
    <2> QED BY <1>3, <2>1, <2>2 DEF SentAsPlanned
  <1>8. \A q \in Plans : StillAsChecked(q)'
    BY <1>1, MarkerAssumption DEF StillAsChecked
  <1> QED BY <1>4, <1>5, <1>6, <1>7, <1>8 DEF IndInv

--------------------------------------------------------------------------------
(* Scans, devices and network                                                  *)

\* A step that leaves plans, runs and what was sent alone.
LEMMA Frame ==
    ASSUME IndInv, UNCHANGED <<plan, step, lock, cookie, pending, reached>>,
           TypeOK', \A x \in Scans : ScanOK(x)',
           ~ChangesInRun => /\ \A u \in Units : (\E r \in pending : r[3] = u) =>
                                    device'[u].rest = device[u].rest
                            /\ lock # None => UNCHANGED <<at, device>>
    PROVE  IndInv'
  <1>1. \A q \in Plans : PlanOK(q)'
    BY DEF IndInv, PlanOK
  <1>2. OneInDoubt' /\ ReportExact'
    BY DEF IndInv, OneInDoubt, ReportExact
  <1>3. ASSUME ~ChangesInRun PROVE SentAsPlanned'
    <2>1. SentAsPlanned /\ pending \subseteq reached
      BY <1>3 DEF IndInv, TypeOK
    <2>2. \A r \in pending : r[3] \in Units
      BY <2>1, ReachedEntry, RequestParts
    <2>3. \A r \in pending : device'[r[3]].rest = device[r[3]].rest
      BY <1>3, <2>2
    <2> QED BY <2>1, <2>3 DEF SentAsPlanned
  <1>4. ASSUME ~ChangesInRun, NEW q \in Plans PROVE StillAsChecked(q)'
    <2>1. StillAsChecked(q)
      BY <1>4 DEF IndInv
    <2>2. CASE lock = q
      BY <1>4, <2>1, <2>2, MarkerAssumption DEF StillAsChecked
    <2>3. CASE lock # q
      BY <2>3 DEF StillAsChecked
    <2> QED BY <2>2, <2>3
  <1> QED BY <1>1, <1>2, <1>3, <1>4 DEF IndInv

LEMMA ScanTypes ==
    ASSUME IndInv, NEW s \in Scans, scan[s] # None
    PROVE  /\ scan[s] \in [Ips -> ScanRecord]
           /\ \A i \in Ips : /\ scan[s][i].settings \in Settings \cup {None, NotRead}
                             /\ scan[s][i].unit \in Units \cup {None, NotRead}
  BY DEF IndInv, TypeOK, ScanRecord

LEMMA ScanStep ==
    ASSUME IndInv, NEW s \in Scans, ScanNext(s)
    PROVE  IndInv'
  <1>1. TypeOK /\ (\A x \in Scans : ScanOK(x))
    BY DEF IndInv
  <1>2. UNCHANGED <<plan, step, lock, cookie, reads, world>>
    BY DEF ScanNext, DiscoverStart, DiscoverReport, DiscoverIdentity, DiscoverFinish
  <1>3. Unread \in ScanRecord /\ Unasked \in ScanRecord
    BY DEF Unread, Unasked, ScanRecord
  <1>4. CASE DiscoverStart(s)
    <2>1. /\ scan' = [scan EXCEPT ![s] = [i \in Ips |-> Unasked]]
          /\ scans < MaxScans /\ scans' = scans + 1
          /\ UNCHANGED <<inventory, scanRequired, crashes>>
      BY <1>4 DEF DiscoverStart
    <2>2. TypeOK'
      <3>1. scans' \in 0..MaxScans
        BY <1>1, <2>1, BoundsAssumption DEF TypeOK
      <3> QED BY <1>1, <1>2, <1>3, <2>1, <3>1 DEF TypeOK, world
    <2>3. \A x \in Scans : ScanOK(x)'
      BY <1>1, <2>1 DEF ScanOK, TypeOK, Unasked
    <2> QED BY <1>2, <2>2, <2>3, Frame DEF world
  <1>5. ASSUME NEW i \in Ips, DiscoverReport(s, i) PROVE IndInv'
    <2>1. scan[s] # None /\ scan[s] \in [Ips -> ScanRecord] /\ scan[s][i] = Unasked
      BY <1>5, ScanTypes DEF DiscoverReport
    <2>2. PICK c \in ScanRecord :
             scan' = [scan EXCEPT ![s] = [scan[s] EXCEPT ![i] = c]]
             /\ (c.settings = None => c.unit = None)
      <3>1. CASE scan' = [scan EXCEPT ![s][i].settings = device[at[i]]]
        <4>1. device[at[i]] \in Settings
          BY <1>1 DEF TypeOK
        <4>2. [scan[s][i] EXCEPT !.settings = device[at[i]]] \in ScanRecord
          BY <2>1, <4>1 DEF ScanRecord, Unasked
        <4>3. [scan[s][i] EXCEPT !.settings = device[at[i]]].settings # None
          BY <2>1, <4>1, MarkerAssumption DEF Unasked
        <4> QED BY <2>1, <3>1, <4>2, <4>3
      <3>2. CASE scan' = [scan EXCEPT ![s][i] = Unread]
        BY <1>3, <3>2, MarkerAssumption DEF Unread
      <3> QED BY <1>5, <3>1, <3>2 DEF DiscoverReport
    <2>3. UNCHANGED <<inventory, scanRequired, crashes, scans>>
      BY <1>5 DEF DiscoverReport, bounds
    <2>4. TypeOK'
      BY <1>1, <1>2, <2>1, <2>2, <2>3 DEF TypeOK, world
    <2>5. \A x \in Scans : ScanOK(x)'
      BY <1>1, <2>1, <2>2 DEF ScanOK, TypeOK
    <2> QED BY <1>2, <2>4, <2>5, Frame DEF world
  <1>6. ASSUME NEW i \in Ips, DiscoverIdentity(s, i) PROVE IndInv'
    <2>1. /\ scan[s] # None /\ scan[s] \in [Ips -> ScanRecord]
          /\ scan[s][i].settings # None
      BY <1>6, ScanTypes DEF DiscoverIdentity
    <2>2. PICK c \in ScanRecord :
             scan' = [scan EXCEPT ![s] = [scan[s] EXCEPT ![i] = c]] /\ c.settings # None
      <3>1. CASE scan' = [scan EXCEPT ![s][i].unit = at[i]]
        <4>1. at[i] \in Units
          BY <1>1 DEF TypeOK
        <4>2. [scan[s][i] EXCEPT !.unit = at[i]] \in ScanRecord
          BY <2>1, <4>1 DEF ScanRecord
        <4>3. [scan[s][i] EXCEPT !.unit = at[i]].settings = scan[s][i].settings
          BY <2>1 DEF ScanRecord
        <4> QED BY <2>1, <3>1, <4>2, <4>3
      <3>2. CASE scan' = [scan EXCEPT ![s][i] = Unread]
        BY <1>3, <3>2, MarkerAssumption DEF Unread
      <3> QED BY <1>6, <3>1, <3>2 DEF DiscoverIdentity
    <2>3. UNCHANGED <<inventory, scanRequired, crashes, scans>>
      BY <1>6 DEF DiscoverIdentity, bounds
    <2>4. TypeOK'
      BY <1>1, <1>2, <2>1, <2>2, <2>3 DEF TypeOK, world
    <2>5. \A x \in Scans : ScanOK(x)'
      BY <1>1, <2>1, <2>2 DEF ScanOK, TypeOK
    <2> QED BY <1>2, <2>4, <2>5, Frame DEF world
  <1>7. CASE DiscoverFinish(s)
    <2>1. /\ scan[s] # None /\ \A i \in Ips : scan[s][i].unit # None
          /\ inventory' = scan[s] /\ scanRequired' = FALSE
          /\ scan' = [scan EXCEPT ![s] = None]
          /\ UNCHANGED <<crashes, scans>>
      BY <1>7 DEF DiscoverFinish, bounds
    <2>2. inventory' \in [Ips -> CacheRecord]
      <3>1. scan[s] \in [Ips -> ScanRecord]
        BY <2>1, ScanTypes
      <3>2. \A i \in Ips : scan[s][i].settings # None /\ scan[s][i].unit # None
        BY <1>1, <2>1 DEF ScanOK
      <3>3. \A i \in Ips : scan[s][i] \in CacheRecord
        BY <3>1, <3>2 DEF ScanRecord, CacheRecord
      <3> QED BY <2>1, <3>1, <3>3
    <2>3. TypeOK'
      BY <1>1, <1>2, <2>1, <2>2 DEF TypeOK, world
    <2>4. \A x \in Scans : ScanOK(x)'
      BY <1>1, <2>1 DEF ScanOK, TypeOK
    <2> QED BY <1>2, <2>3, <2>4, Frame DEF world
  <1> QED BY <1>4, <1>5, <1>6, <1>7 DEF ScanNext

LEMMA MoveStep ==
    ASSUME IndInv, NEW i \in Ips, NEW j \in Ips, AddressesMove(i, j)
    PROVE  IndInv'
  <1>1. /\ moves < MaxMoves /\ moves' = moves + 1 /\ (ChangesInRun \/ lock = None)
        /\ at' = [at EXCEPT ![i] = at[j], ![j] = at[i]]
        /\ UNCHANGED <<backend, device, pending, reached, changes, bounds>>
    BY DEF AddressesMove
  <1>2. UNCHANGED <<inventory, scan, scanRequired, plan, step, lock, cookie, reads, device,
                    pending, reached, changes, crashes, scans>>
    BY <1>1 DEF backend, bounds
  <1>3. TypeOK'
    <2>1. moves' \in 0..MaxMoves /\ at' \in [Ips -> Units]
      BY <1>1, BoundsAssumption DEF IndInv, TypeOK
    <2> QED BY <1>2, <2>1 DEF IndInv, TypeOK
  <1>4. \A x \in Scans : ScanOK(x)'
    BY <1>2 DEF IndInv, ScanOK
  <1> QED BY <1>1, <1>2, <1>3, <1>4, Frame

LEMMA ElsewhereStep ==
    ASSUME IndInv, NEW u \in Units, ChangeElsewhere(u)
    PROVE  IndInv'
  <1>1. PICK s \in WrittenElsewhere : device' = [device EXCEPT ![u] = s]
    BY DEF ChangeElsewhere
  <1>2. /\ changes < MaxChanges /\ changes' = changes + 1 /\ (ChangesInRun \/ lock = None)
        /\ QuietFor(u)
        /\ UNCHANGED <<backend, at, pending, reached, moves, bounds>>
    BY DEF ChangeElsewhere
  <1>3. UNCHANGED <<inventory, scan, scanRequired, plan, step, lock, cookie, reads, at,
                    pending, reached, moves, crashes, scans>>
    BY <1>2 DEF backend, bounds
  <1>4. device \in [Units -> Settings]
    BY DEF IndInv, TypeOK
  <1>5. TypeOK'
    <2>1. changes' \in 0..MaxChanges
      BY <1>2, BoundsAssumption DEF IndInv, TypeOK
    <2>2. device' \in [Units -> Settings]
      BY <1>1, <1>4, FleetAssumption
    <2> QED BY <1>3, <2>1, <2>2 DEF IndInv, TypeOK
  <1>6. \A x \in Scans : ScanOK(x)'
    BY <1>3 DEF IndInv, ScanOK
  <1>7. \A w \in Units : (\E q \in pending : q[3] = w) => device'[w].rest = device[w].rest
    BY <1>1, <1>2, <1>4 DEF QuietFor
  <1> QED BY <1>2, <1>3, <1>5, <1>6, <1>7, Frame

LEMMA ApplyStep ==
    ASSUME IndInv, NEW p \in Plans, NEW i \in Ips, NEW u \in Units,
           NEW method \in {"set-name", "import-settings"}, Apply(p, i, u, method)
    PROVE  /\ IndInv'
           /\ ~ChangesInRun => \A w \in Units : device'[w].rest = device[w].rest
  <1> DEFINE e == plan[p].entry[i]
             applied == IF method = "set-name" THEN [device[u] EXCEPT !.name = e.newName]
                                               ELSE Payload(e)
             r0 == <<p, i, u, method>>
  <1>1. /\ r0 \in pending /\ pending' = pending \ {r0}
        /\ device' = [device EXCEPT ![u] = applied]
        /\ UNCHANGED <<backend, at, reached, moves, changes, bounds>>
    BY DEF Apply
  <1>2. UNCHANGED <<inventory, scan, scanRequired, plan, step, lock, cookie, reads, at, reached,
                    moves, changes, crashes, scans>>
    BY <1>1 DEF backend, bounds
  <1>3. TypeOK /\ (\A q \in Plans : PlanOK(q)) /\ device[u] \in Settings
    BY DEF IndInv, TypeOK
  <1>4. e \in Entry
    <2>1. r0 \in reached /\ r0[1] = p /\ r0[2] = i
      BY <1>1, <1>3 DEF TypeOK
    <2> HIDE DEF r0
    <2> QED BY <2>1, ReachedEntry
  <1>5. applied \in Settings /\ (method = "set-name" => applied.rest = device[u].rest)
    BY <1>3, <1>4, EntrySettings DEF Settings
  <1>6. ASSUME ~ChangesInRun PROVE applied.rest = device[u].rest
    <2>1. CASE method = "set-name"
      BY <1>5, <2>1
    <2>2. CASE method = "import-settings"
      <3>1. device[u].rest = e.before.rest
        BY <1>1, <1>6, <2>2 DEF IndInv, SentAsPlanned
      <3> QED BY <1>4, <2>2, <3>1, EntrySettings
    <2> QED BY <2>1, <2>2
  <1> HIDE DEF applied, r0
  <1>7. ASSUME ~ChangesInRun PROVE \A w \in Units : device'[w].rest = device[w].rest
    BY <1>1, <1>3, <1>6, <1>7 DEF TypeOK
  <1>8. TypeOK'
    BY <1>1, <1>2, <1>3, <1>5 DEF TypeOK
  <1>9. (\A x \in Scans : ScanOK(x)') /\ (\A q \in Plans : PlanOK(q)')
    BY <1>2 DEF IndInv, ScanOK, PlanOK
  <1>10. OneInDoubt' /\ ReportExact'
    BY <1>2 DEF IndInv, OneInDoubt, ReportExact
  <1>11. ASSUME ~ChangesInRun PROVE SentAsPlanned'
    <2>1. SentAsPlanned /\ pending \subseteq reached
      BY <1>3, <1>11 DEF IndInv, TypeOK
    <2>2. \A r \in pending : r[3] \in Units
      BY <2>1, ReachedEntry, RequestParts
    <2> QED BY <1>1, <1>2, <1>7, <1>11, <2>1, <2>2 DEF SentAsPlanned
  <1>12. ASSUME ~ChangesInRun, NEW q \in Plans PROVE StillAsChecked(q)'
    <2> SUFFICES ASSUME lock = q, NEW j \in Ips
                 PROVE  LET f == plan[q].entry[j] IN
                        /\ step[q][j] \in {"identity-read"} \cup Submitting => at[j] = f.unit
                        /\ step[q][j] \in Submitting => cookie = f.unit
                        /\ step[q][j] = "name-shown" => device'[f.unit].rest = f.before.rest
      BY <1>2 DEF StillAsChecked
    <2>1. StillAsChecked(q) /\ PlanOK(q)
      BY <1>12 DEF IndInv
    <2>2. step[q][j] = "name-shown" => plan[q].entry[j].unit \in Units
      BY <2>1, EntrySettings DEF PlanOK
    <2> QED BY <1>7, <1>12, <2>1, <2>2 DEF StillAsChecked
  <1> QED BY <1>7, <1>8, <1>9, <1>10, <1>11, <1>12 DEF IndInv

--------------------------------------------------------------------------------
(* The invariant                                                               *)

LEMMA InitInductive == Init => IndInv
  <1> SUFFICES ASSUME Init PROVE IndInv
    OBVIOUS
  <1>1. TypeOK
    <2>1. inventory \in [Ips -> CacheRecord]
      BY DEF Init, Unread, CacheRecord
    <2>2. plan \in [Plans -> [pc : {"new", "built", "executing", "ended"},
                             entry : [Ips -> Entry \cup {None}]]]
      BY DEF Init
    <2>3. step \in [Plans -> [Ips -> Steps]]
      BY DEF Init, Steps
    <2>4. scan \in [Scans -> [Ips -> ScanRecord] \cup {None}]
      BY DEF Init
    <2>5. at \in [Ips -> Units] /\ device \in [Units -> Settings]
      BY FleetAssumption DEF Init
    <2>6. /\ reads \in 0..(MaxReads - 1) /\ moves \in 0..MaxMoves /\ changes \in 0..MaxChanges
          /\ crashes \in 0..MaxCrashes /\ scans \in 0..MaxScans
      BY ReadsAssumption, BoundsAssumption DEF Init
    <2>7. /\ pending \subseteq reached /\ reached \subseteq Requests
          /\ scanRequired \in BOOLEAN
          /\ lock \in Plans \cup {None} /\ cookie \in Units \cup {None}
      BY DEF Init
    <2> QED BY <2>1, <2>2, <2>3, <2>4, <2>5, <2>6, <2>7 DEF TypeOK
  <1>2. \A p \in Plans : PlanOK(p)
    BY MarkerAssumption DEF Init, PlanOK
  <1>3. (\A s \in Scans : ScanOK(s)) /\ OneInDoubt /\ ReportExact /\ SentAsPlanned
    BY DEF Init, ScanOK, OneInDoubt, ReportExact, SentAsPlanned
  <1>4. \A p \in Plans : StillAsChecked(p)
    BY MarkerAssumption DEF Init, StillAsChecked
  <1> QED BY <1>1, <1>2, <1>3, <1>4 DEF IndInv

LEMMA RunStepInductive ==
    ASSUME IndInv, NEW p \in Plans, RunStep(p)
    PROVE  IndInv'
  <1>1. CASE FinishRename(p)
    BY <1>1, FinishStep
  <1>2. ASSUME NEW i \in Ips,
               \/ ReadLive(p, i) \/ ReadIdentity(p, i) \/ LogIn(p, i)
               \/ NameAnswered(p, i) \/ ReadName(p, i)
               \/ ImportAnswered(p, i) \/ ReadImport(p, i)
        PROVE  IndInv'
    BY <1>2, ReadLiveStep, ReadIdentityStep, LogInStep, NameAnsweredStep, ReadNameStep,
       ImportAnsweredStep, ReadImportStep
  <1>3. ASSUME NEW i \in Ips, SubmitName(p, i) PROVE IndInv'
    BY <1>3, SubmitStep DEF SubmitName
  <1>4. ASSUME NEW i \in Ips, SubmitImport(p, i) PROVE IndInv'
    BY <1>4, SubmitStep DEF SubmitImport
  <1> QED BY <1>1, <1>2, <1>3, <1>4 DEF RunStep

LEMMA NextInductive == IndInv /\ [Next]_vars => IndInv'
  <1> SUFFICES ASSUME IndInv, [Next]_vars PROVE IndInv'
    OBVIOUS
  <1>1. ASSUME NEW s \in Scans, ScanNext(s) PROVE IndInv'
    BY <1>1, ScanStep
  <1>2. ASSUME NEW p \in Plans, PlanNext(p) PROVE IndInv'
    BY <1>2, BuildStep, ExecuteStep, RunStepInductive DEF PlanNext
  <1>3. ASSUME NEW p \in Plans, NEW i \in Ips, NEW u \in Units,
               NEW m \in {"set-name", "import-settings"}, Apply(p, i, u, m)
        PROVE  IndInv'
    BY <1>3, ApplyStep
  <1>4. ASSUME NEW u \in Units, ChangeElsewhere(u) PROVE IndInv'
    BY <1>4, ElsewhereStep
  <1>5. ASSUME NEW i \in Ips, NEW j \in Ips, AddressesMove(i, j) PROVE IndInv'
    BY <1>5, MoveStep
  <1>6. CASE Crash
    BY <1>6, CrashStep
  <1>7. CASE UNCHANGED vars
    <2>1. UNCHANGED <<inventory, scan, scanRequired, plan, step, lock, cookie, reads, at, device,
                      pending, reached, moves, changes, crashes, scans>>
      BY <1>7 DEF vars, backend, world, bounds
    <2>2. TypeOK' /\ \A x \in Scans : ScanOK(x)'
      BY <2>1 DEF IndInv, TypeOK, ScanOK
    <2> QED BY <2>1, <2>2, Frame
  <1> QED BY <1>1, <1>2, <1>3, <1>4, <1>5, <1>6, <1>7 DEF Next

\* What a plan, its run and what was sent have to do with each other holds in
\* every state.
THEOREM RenameInductive == Spec => []IndInv
  <1> QED BY InitInductive, NextInductive, PTL DEF Spec

\* The state has its type.
THEOREM RenameTypeCorrect == Spec => []TypeOK
  <1>1. IndInv => TypeOK
    BY DEF IndInv
  <1> QED BY <1>1, RenameInductive, PTL

\* rename_execute leaves at most one device in doubt, whatever fails and
\* whenever the backend dies.
THEOREM AtMostOneInDoubt == Spec => []OneInDoubt
  <1>1. IndInv => OneInDoubt
    BY DEF IndInv
  <1> QED BY <1>1, RenameInductive, PTL

\* Its results admit every submission that reached a unit.
THEOREM ReportsAreExact == Spec => []ReportExact
  <1>1. IndInv => ReportExact
    BY DEF IndInv
  <1> QED BY <1>1, RenameInductive, PTL

\* While addresses stay put under a run, a unit is only sent names with its own
\* fleet number.
THEOREM NamesFollowJournal ==
    ASSUME ~ChangesInRun
    PROVE  Spec => []NamedByJournal
  <1>1. IndInv => NamedByJournal
    <2> SUFFICES ASSUME IndInv, NEW r \in reached
                 PROVE  /\ r[3] \in Journaled
                        /\ plan[r[1]].entry[r[2]].newName \in NamesFor[r[3]]
      BY DEF NamedByJournal
    <2>1. /\ r[1] \in Plans /\ r[2] \in Ips
          /\ plan[r[1]].entry[r[2]] \in Entry /\ step[r[1]][r[2]] # "no-target"
      BY ReachedEntry, RequestParts
    <2>2. PlanOK(r[1]) /\ r[3] = plan[r[1]].entry[r[2]].unit
      BY <2>1 DEF IndInv, SentAsPlanned
    <2> QED BY <2>1, <2>2, EntrySettings DEF PlanOK
  <1> QED BY <1>1, RenameInductive, PTL

\* Of all steps only a read-back makes an entry verified.
LEMMA VerifiedByRead ==
    ASSUME IndInv, Next, NEW p \in Plans, NEW i \in Ips,
           step[p][i] # "renamed-and-verified", step'[p][i] = "renamed-and-verified"
    PROVE  ReadName(p, i) \/ ReadImport(p, i)
  <1>1. step \in [Plans -> [Ips -> Steps]] /\ step' # step
    BY DEF IndInv, TypeOK
  <1>2. ASSUME NEW q \in Plans, PlanNext(q) PROVE ReadName(p, i) \/ ReadImport(p, i)
    <2>1. CASE \E T \in SUBSET Ips \ {{}} : \E new \in [T -> Names] : BuildRenamePlan(q, T, new)
      <3>1. PICK T \in SUBSET Ips \ {{}} : \E new \in [T -> Names] : BuildRenamePlan(q, T, new)
        BY <2>1
      <3>2. step' = [step EXCEPT ![q] = [j \in Ips |-> IF j \in T THEN "due" ELSE "no-target"]]
        BY <3>1 DEF BuildRenamePlan
      <3> QED BY <1>1, <3>2
    <2>2. CASE RenameExecute(q)
      BY <1>1, <2>2 DEF RenameExecute
    <2>3. CASE FinishRename(q)
      BY <1>1, <2>3 DEF FinishRename
    <2>4. ASSUME NEW j \in Ips, NEW t, GoTo(q, j, t), t # "renamed-and-verified" PROVE FALSE
      BY <1>1, <2>4 DEF GoTo
    <2>5. ASSUME NEW j \in Ips,
                 \/ ReadLive(q, j) \/ ReadIdentity(q, j) \/ LogIn(q, j) \/ SubmitName(q, j)
                 \/ NameAnswered(q, j) \/ SubmitImport(q, j) \/ ImportAnswered(q, j)
          PROVE  FALSE
      BY <2>4, <2>5 DEF ReadLive, ReadIdentity, LogIn, SubmitName, NameAnswered, SubmitImport,
                        ImportAnswered, Submit
    <2>6. ASSUME NEW j \in Ips, ReadName(q, j) \/ ReadImport(q, j) PROVE q = p /\ j = i
      <3>1. PICK t : step' = [step EXCEPT ![q][j] = t]
        <4>1. ASSUME UNCHANGED step PROVE FALSE
          BY <1>1, <4>1
        <4> QED BY <2>6, <4>1 DEF ReadName, ReadImport, ReadStage, GoTo
      <3> QED BY <1>1, <3>1
    <2> QED BY <1>2, <2>1, <2>2, <2>3, <2>5, <2>6 DEF PlanNext, RunStep
  <1>3. ASSUME NEW s \in Scans, ScanNext(s) PROVE FALSE
    BY <1>1, <1>3 DEF ScanNext, DiscoverStart, DiscoverFinish, DiscoverReport, DiscoverIdentity
  <1>4. ASSUME NEW q \in Plans, NEW j \in Ips, NEW u \in Units, NEW m, Apply(q, j, u, m)
        PROVE  FALSE
    BY <1>1, <1>4 DEF Apply, backend
  <1>5. ASSUME NEW u \in Units, ChangeElsewhere(u) PROVE FALSE
    BY <1>1, <1>5 DEF ChangeElsewhere, backend
  <1>6. ASSUME NEW j \in Ips, NEW k \in Ips, AddressesMove(j, k) PROVE FALSE
    BY <1>1, <1>6 DEF AddressesMove, backend
  <1>7. CASE Crash
    BY <1>1, <1>7 DEF Crash
  <1> QED BY <1>2, <1>3, <1>4, <1>5, <1>6, <1>7 DEF Next

\* An import changes nothing but names: with no other writer under the run, the
\* rest it replays is still the unit's.
THEOREM RestIsKept ==
    ASSUME ~ChangesInRun
    PROVE  Spec => ImportKeepsRest
  <1>1. ASSUME IndInv, NEW p \in Plans, NEW i \in Ips, NEW u \in Units,
               Apply(p, i, u, "import-settings")
        PROVE  device'[u].rest = device[u].rest
    BY <1>1, ApplyStep
  <1>2. IndInv =>
           [\A p \in Plans, i \in Ips, u \in Units :
               Apply(p, i, u, "import-settings") => device'[u].rest = device[u].rest]_vars
    BY <1>1
  <1> QED BY <1>2, RenameInductive, PTL DEF ImportKeepsRest

\* Only the two read-backs call an entry verified, and each has just read the
\* approved settings from the planned unit.
THEOREM VerifiedIsPlanned ==
    ASSUME ~ChangesInRun
    PROVE  Spec => VerifiedAsPlanned
  <1> DEFINE Becomes(p, i) ==
                step[p][i] # "renamed-and-verified" /\ step'[p][i] = "renamed-and-verified"
             Right(p, i) == device[plan[p].entry[i].unit] = Payload(plan[p].entry[i])
  <1>1. ASSUME IndInv, Next, NEW p \in Plans, NEW i \in Ips, Becomes(p, i)
        PROVE  ReadName(p, i) \/ ReadImport(p, i)
    BY <1>1, VerifiedByRead
  <1>2. ASSUME IndInv, NEW p \in Plans, NEW i \in Ips, Becomes(p, i), ReadName(p, i)
        PROVE  Right(p, i)
    <2> DEFINE e == plan[p].entry[i]
    <2>1. At(p, i, "name-accepted") /\ at[i] = e.unit
      BY <1>2, KnownEntry DEF ReadName
    <2>2. ReadStage(p, i, AfterName(e),
                    IF RecordingChanges(e) THEN "name-shown" ELSE "renamed-and-verified",
                    "stopped-after-display-name-submission")
      BY <1>2 DEF ReadName
    <2>3. step \in [Plans -> [Ips -> Steps]]
      BY <1>2 DEF IndInv, TypeOK
    <2>4. device[at[i]] = AfterName(e) /\ ~RecordingChanges(e)
      BY <1>2, <2>2, <2>3 DEF ReadStage, GoTo
    <2> QED BY <2>1, <2>4 DEF RecordingChanges
  <1>3. ASSUME IndInv, NEW p \in Plans, NEW i \in Ips, Becomes(p, i), ReadImport(p, i)
        PROVE  Right(p, i)
    <2>1. At(p, i, "import-accepted") /\ at[i] = plan[p].entry[i].unit
      BY <1>3, KnownEntry DEF ReadImport
    <2>2. step \in [Plans -> [Ips -> Steps]]
      BY <1>3 DEF IndInv, TypeOK
    <2>3. device[at[i]] = Payload(plan[p].entry[i])
      BY <1>3, <2>2 DEF ReadImport, ReadStage, GoTo
    <2> QED BY <2>1, <2>3
  <1>4. IndInv /\ [Next]_vars => [\A p \in Plans, i \in Ips : Becomes(p, i) => Right(p, i)]_vars
    <2> HIDE DEF Becomes, Right
    <2> QED BY <1>1, <1>2, <1>3
  <1> QED BY <1>4, RenameInductive, PTL DEF Spec, VerifiedAsPlanned
================================================================================
