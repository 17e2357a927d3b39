------------------------ MODULE CredentialRotationProofs -----------------------
(***************************************************************************)
(* Theorems about CredentialRotation, for any number of devices, requests  *)
(* and overlapping inventories: what is called new is new, one request at  *)
(* a time is under way, and a change in doubt bars a second one.           *)
(***************************************************************************)
EXTENDS CredentialRotation, TLAPS

LEMMA InitIndInv == Init => IndInv
  <1> SUFFICES ASSUME Init PROVE IndInv
    OBVIOUS
  <1> USE DEF Init, NewRun
  <1>1. TypeOK
    BY CrashesAssumption DEF TypeOK, Found, Pcs
  <1>2. LockHeld
    BY NoneAssumption DEF LockHeld, Submitted, Checking
  <1>3. DoubtBarred
    BY DEF DoubtBarred, Checking
  <1>4. NewIsNew
    BY DEF NewIsNew
  <1> QED BY <1>1, <1>2, <1>3, <1>4 DEF IndInv

--------------------------------------------------------------------------------
(* One lemma per kind of step                                                  *)

LEMMA ApplyStep ==
    ASSUME IndInv, NEW r \in Rotations, Apply(r)
    PROVE  IndInv'
  <1> USE DEF IndInv, Apply, backend, history
  <1>1. TypeOK'
    BY DEF TypeOK, Found, Pcs, Checking, Results
  <1>2. LockHeld'
    BY DEF TypeOK, LockHeld, Submitted, Checking, Results
  <1>3. DoubtBarred'
    BY DEF TypeOK, DoubtBarred, LockHeld, Submitted, Checking, Results
  <1>4. NewIsNew'
    BY DEF TypeOK, NewIsNew
  <1> QED BY <1>1, <1>2, <1>3, <1>4

LEMMA InventoryStarts ==
    ASSUME IndInv, NEW s \in Inventories, InventoryStart(s)
    PROVE  IndInv'
  <1> USE DEF IndInv, InventoryStart, history
  <1>1. TypeOK'
    BY DEF TypeOK, Found, Pcs, Checking, Results
  <1>2. LockHeld'
    BY DEF TypeOK, LockHeld, Submitted, Checking, Results
  <1>3. DoubtBarred'
    BY DEF TypeOK, DoubtBarred, LockHeld, Submitted, Checking, Results
  <1>4. NewIsNew'
    BY DEF TypeOK, NewIsNew
  <1> QED BY <1>1, <1>2, <1>3, <1>4

LEMMA AskNewStep ==
    ASSUME IndInv, NEW s \in Inventories, NEW d \in Devices, AskNew(s, d)
    PROVE  IndInv'
  <1> USE DEF IndInv, AskNew, Find, history
  <1>1. TypeOK'
    BY DEF TypeOK, Found, Pcs, Checking, Results
  <1>2. LockHeld'
    BY DEF TypeOK, LockHeld, Submitted, Checking, Results
  <1>3. DoubtBarred'
    BY DEF TypeOK, DoubtBarred, LockHeld, Submitted, Checking, Results
  <1>4. NewIsNew'
    BY DEF TypeOK, NewIsNew
  <1> QED BY <1>1, <1>2, <1>3, <1>4

LEMMA AskOldStep ==
    ASSUME IndInv, NEW s \in Inventories, NEW d \in Devices, AskOld(s, d)
    PROVE  IndInv'
  <1> USE DEF IndInv, AskOld, Find, history
  <1>1. TypeOK'
    BY DEF TypeOK, Found, Pcs, Checking, Results
  <1>2. LockHeld'
    BY DEF TypeOK, LockHeld, Submitted, Checking, Results
  <1>3. DoubtBarred'
    BY DEF TypeOK, DoubtBarred, LockHeld, Submitted, Checking, Results
  <1>4. NewIsNew'
    BY DEF TypeOK, NewIsNew
  <1> QED BY <1>1, <1>2, <1>3, <1>4

\* The doubts an inventory leaves are those of the request that is submitted.
LEMMA InventoryEnds ==
    ASSUME IndInv, NEW s \in Inventories, InventoryFinish(s)
    PROVE  IndInv'
  <1> USE DEF IndInv, InventoryFinish, Settle, Submitted
  <1>1. TypeOK'
    <2>1. inventory[s] \in [Devices -> Found]
      BY DEF TypeOK
    <2>2. run' \in [Rotations -> [pc : Pcs, ip : Devices \cup {None}, current : BOOLEAN]]
      BY DEF TypeOK
    <2>3. \A r \in Rotations : run'[r].pc = run[r].pc /\ run'[r].ip = run[r].ip
      BY DEF TypeOK
    <2>4. doubt' \subseteq Devices
      BY DEF TypeOK
    <2> QED BY <2>1, <2>2, <2>3, <2>4 DEF TypeOK
  <1>2. LockHeld'
    BY DEF TypeOK, LockHeld, Submitted, Checking, Results
  <1>3. DoubtBarred'
    BY DEF TypeOK, DoubtBarred, LockHeld, Submitted, Checking, Results
  <1>4. NewIsNew'
    BY DEF TypeOK, NewIsNew
  <1> QED BY <1>1, <1>2, <1>3, <1>4

\* A request starts on a device that is listed and known: one not in doubt.
LEMMA RotationStarts ==
    ASSUME IndInv, NEW r \in Rotations, NEW d \in Devices, RotateCredential(r, d)
    PROVE  IndInv'
  <1> USE DEF IndInv, RotateCredential, Begun, history
  <1>1. TypeOK'
    BY NoneAssumption DEF TypeOK, Found, Pcs, Checking, Results
  <1>2. LockHeld'
    BY NoneAssumption DEF TypeOK, LockHeld, Submitted, Checking, Results
  <1>3. DoubtBarred'
    BY NoneAssumption DEF TypeOK, DoubtBarred, LockHeld, Submitted, Checking, Results
  <1>4. NewIsNew'
    BY NoneAssumption DEF TypeOK, NewIsNew
  <1> QED BY <1>1, <1>2, <1>3, <1>4

\* What going on with a request does to the requests.
LEMMA Moved ==
    ASSUME TypeOK, NEW r \in Rotations, NEW pc \in Pcs, run[r].pc # "idle", GoTo(r, pc)
    PROVE  /\ run' \in [Rotations -> [pc : Pcs, ip : Devices \cup {None}, current : BOOLEAN]]
           /\ \A q \in Rotations : run'[q].pc # "idle" => run'[q].ip \in Devices
           /\ run'[r].pc = pc
           /\ \A q \in Rotations : run'[q].ip = run[q].ip
           /\ \A q \in Rotations : q # r => run'[q] = run[q]
  BY DEF TypeOK, GoTo

\* A request that goes on without a trace on the devices or in the lists.
LEMMA Proceeds ==
    ASSUME IndInv, NEW r \in Rotations, NEW pc \in Pcs \ {"idle", "lost"}, lock = r,
           GoTo(r, pc),
           UNCHANGED <<password, pending, listed, unknown, inventory, lock, history, crashes>>,
           pc \in Checking => run[r].pc \in Checking,
           Submitted(r) => pc \in {"reached", "missed", "accepted"},
           pc \in {"already-rotated", "rotated-and-verified"} => password[run[r].ip] = "new"
    PROVE  IndInv'
  <1> USE DEF IndInv, history
  <1>1. TypeOK /\ run[r].pc # "idle"
    BY DEF LockHeld
  <1>2. /\ run' \in [Rotations -> [pc : Pcs, ip : Devices \cup {None}, current : BOOLEAN]]
        /\ \A q \in Rotations : run'[q].pc # "idle" => run'[q].ip \in Devices
        /\ run'[r].pc = pc
        /\ \A q \in Rotations : run'[q].ip = run[q].ip
        /\ \A q \in Rotations : q # r => run'[q] = run[q]
    BY <1>1, Moved
  <1>3. TypeOK'
    BY <1>1, <1>2 DEF TypeOK
  <1>4. LockHeld'
    BY <1>2 DEF LockHeld, Submitted
  <1>5. DoubtBarred'
    <2>1. \A q \in Rotations : Submitted(q) => Submitted(q)'
      BY <1>2 DEF Submitted
    <2>2. \A q \in Rotations : run'[q].pc \in Checking => run[q].pc \in Checking
      BY <1>2
    <2> QED BY <1>2, <2>1, <2>2 DEF DoubtBarred
  <1>6. NewIsNew'
    BY <1>2 DEF NewIsNew
  <1> QED BY <1>3, <1>4, <1>5, <1>6

LEMMA Confirms ==
    ASSUME IndInv, NEW r \in Rotations, ConfirmRotated(r)
    PROVE  IndInv'
  <1> USE DEF ConfirmRotated, At, Pcs, Results, Checking, Submitted
  <1>1. CASE password[run[r].ip] = "new" /\ GoTo(r, "already-rotated")
    BY <1>1, Proceeds
  <1>2. CASE GoTo(r, "stopped")
    BY <1>2, Proceeds
  <1> QED BY <1>1, <1>2

LEMMA ChecksOld ==
    ASSUME IndInv, NEW r \in Rotations, CheckOld(r)
    PROVE  IndInv'
  <1> USE DEF CheckOld, At, Pcs, Results, Checking, Submitted
  <1>1. PICK pc \in {"login", "listing", "stopped"} : GoTo(r, pc)
    OBVIOUS
  <1> QED BY <1>1, Proceeds

LEMMA ListsUsers ==
    ASSUME IndInv, NEW r \in Rotations, GetUsers(r)
    PROVE  IndInv'
  <1> USE DEF GetUsers, At, Pcs, Results, Checking, Submitted
  <1>1. PICK pc \in {"setting", "stopped"} : GoTo(r, pc)
    OBVIOUS
  <1> QED BY <1>1, Proceeds

\* The device comes into doubt; its change is now the one under way.
LEMMA SetsPassword ==
    ASSUME IndInv, NEW r \in Rotations, SetPassword(r)
    PROVE  IndInv'
  <1> USE DEF IndInv
  <1>1. lock = r /\ run[r].pc = "setting" /\ TypeOK
    BY DEF SetPassword, At
  <1>2. PICK pc \in {"reached", "missed"} : GoTo(r, pc)
    BY DEF SetPassword
  <1>3. /\ run' \in [Rotations -> [pc : Pcs, ip : Devices \cup {None}, current : BOOLEAN]]
        /\ \A q \in Rotations : run'[q].pc # "idle" => run'[q].ip \in Devices
        /\ run'[r].pc = pc
        /\ \A q \in Rotations : run'[q].ip = run[q].ip
        /\ \A q \in Rotations : q # r => run'[q] = run[q]
    BY <1>1, <1>2, Moved DEF Pcs
  <1>4. run[r].ip \in Devices
    BY <1>1 DEF TypeOK
  <1>5. TypeOK'
    BY <1>1, <1>3, <1>4 DEF TypeOK, SetPassword
  <1>6. LockHeld'
    BY <1>1, <1>3 DEF LockHeld, Submitted, Checking, SetPassword
  <1>7. DoubtBarred'
    <2>1. \A q \in Rotations : run'[q].pc \notin Checking
      BY <1>1, <1>3 DEF LockHeld, Checking
    <2>2. Submitted(r)' /\ \A q \in Rotations : Submitted(q) => Submitted(q)'
      BY <1>1, <1>3 DEF Submitted
    <2> QED BY <1>3, <2>1, <2>2 DEF DoubtBarred, SetPassword
  <1>8. NewIsNew'
    BY <1>3 DEF NewIsNew, SetPassword
  <1> QED BY <1>5, <1>6, <1>7, <1>8

\* The end of the request under way leaves its device unknown, and a doubt that no
\* inventory has been misled about.
LEMMA LeavesUncertain ==
    ASSUME IndInv, NEW r \in Rotations, lock = r, Submitted(r), Uncertain(r)
    PROVE  IndInv'
  <1> USE DEF IndInv
  <1>1. TypeOK /\ run[r].pc # "idle"
    BY DEF Submitted
  <1>2. /\ run' \in [Rotations -> [pc : Pcs, ip : Devices \cup {None}, current : BOOLEAN]]
        /\ \A q \in Rotations : run'[q].pc # "idle" => run'[q].ip \in Devices
        /\ run'[r].pc = "uncertain"
        /\ \A q \in Rotations : run'[q].ip = run[q].ip
        /\ \A q \in Rotations : q # r => run'[q] = run[q]
    BY <1>1, Moved DEF Pcs, Results, Uncertain
  <1>3. run[r].ip \in Devices
    BY <1>1 DEF TypeOK
  <1>4. TypeOK'
    <2>1. overtaken' \in [Inventories -> SUBSET Devices]
      BY <1>1, <1>3 DEF TypeOK, Uncertain
    <2> QED BY <1>1, <1>2, <1>3, <2>1 DEF TypeOK, Uncertain
  <1>5. LockHeld'
    BY <1>2 DEF LockHeld, Submitted, Checking, Uncertain
  <1>6. DoubtBarred'
    <2>1. \A q \in Rotations : run'[q].pc \notin Checking
      BY <1>2 DEF LockHeld, Submitted, Checking
    <2>2. \A d \in doubt' \ misled' : d = run[r].ip \/ d \in doubt \ misled
      BY DEF Uncertain
    <2>3. \A q \in Rotations : Submitted(q) => q = r
      BY DEF LockHeld
    <2> QED BY <2>1, <2>2, <2>3 DEF DoubtBarred, Uncertain
  <1>7. NewIsNew'
    BY <1>2 DEF NewIsNew, Uncertain
  <1> QED BY <1>4, <1>5, <1>6, <1>7

LEMMA Answered ==
    ASSUME IndInv, NEW r \in Rotations, PasswordAnswered(r)
    PROVE  IndInv'
  <1>1. CASE Accepted(r)
    BY <1>1, Proceeds DEF Accepted, At, Pcs, Results, Checking, Submitted
  <1>2. CASE (At(r, "reached") \/ At(r, "missed")) /\ Uncertain(r)
    BY <1>2, LeavesUncertain DEF At, Submitted
  <1> QED BY <1>1, <1>2 DEF PasswordAnswered

\* A confirmed change is no longer in doubt, and what is marked as new is new.
LEMMA VerifiesNew ==
    ASSUME IndInv, NEW r \in Rotations, VerifyNew(r)
    PROVE  IndInv'
  <1> USE DEF IndInv
  <1>1. TypeOK /\ lock = r /\ run[r].pc = "accepted" /\ Submitted(r)
    BY DEF VerifyNew, At, Submitted
  <1>2. CASE Uncertain(r)
    BY <1>1, <1>2, LeavesUncertain
  <1>3. CASE password[run[r].ip] = "new" /\ Rotated(r)
    <2>1. /\ run' \in [Rotations -> [pc : Pcs, ip : Devices \cup {None}, current : BOOLEAN]]
          /\ \A q \in Rotations : run'[q].pc # "idle" => run'[q].ip \in Devices
          /\ run'[r].pc = "rotated-and-verified"
          /\ \A q \in Rotations : run'[q].ip = run[q].ip
          /\ \A q \in Rotations : q # r => run'[q] = run[q]
      BY <1>1, <1>3, Moved DEF Pcs, Results, Rotated
    <2>2. /\ listed' \in [Devices -> Found]
          /\ \A d \in Devices : d # run[r].ip => listed'[d] = listed[d]
          /\ \A d \in Devices : listed'[d] = "new" => d = run[r].ip \/ listed[d] = "new"
      BY <1>1, <1>3 DEF TypeOK, Found, Rotated
    <2>3. TypeOK'
      BY <1>1, <1>3, <2>1, <2>2 DEF TypeOK, Rotated
    <2>4. LockHeld'
      BY <1>1, <1>3, <2>1 DEF LockHeld, Submitted, Checking, Rotated
    <2>5. DoubtBarred'
      <3>1. \A q \in Rotations : run'[q].pc \notin Checking
        BY <1>1, <2>1 DEF LockHeld, Checking
      <3>2. \A d \in doubt' \ misled' : d # run[r].ip /\ d \in doubt \ misled /\ d \in Devices
        BY <1>1, <1>3 DEF Rotated, TypeOK
      <3>3. \A q \in Rotations : Submitted(q) => q = r
        BY <1>1 DEF LockHeld
      <3> QED BY <1>3, <2>2, <3>1, <3>2, <3>3 DEF DoubtBarred, Rotated
    <2>6. NewIsNew'
      BY <1>3, <2>1, <2>2 DEF NewIsNew, Rotated
    <2> QED BY <2>3, <2>4, <2>5, <2>6
  <1> QED BY <1>2, <1>3 DEF VerifyNew

LEMMA Replies ==
    ASSUME IndInv, NEW r \in Rotations, Reply(r)
    PROVE  IndInv'
  <1> USE DEF IndInv, Reply, history
  <1>1. /\ run' \in [Rotations -> [pc : Pcs, ip : Devices \cup {None}, current : BOOLEAN]]
        /\ \A q \in Rotations : run'[q].pc = run[q].pc /\ run'[q].ip = run[q].ip
    BY DEF TypeOK
  <1>2. TypeOK'
    BY <1>1 DEF TypeOK
  <1>3. LockHeld'
    BY <1>1, NoneAssumption DEF LockHeld, Submitted, Checking, Results
  <1>4. DoubtBarred'
    BY <1>1 DEF DoubtBarred, Submitted
  <1>5. NewIsNew'
    BY <1>1 DEF NewIsNew
  <1> QED BY <1>2, <1>3, <1>4, <1>5

LEMMA Crashes ==
    ASSUME IndInv, Crash
    PROVE  IndInv'
  <1> USE DEF IndInv
  <1>1. /\ run' \in [Rotations -> [pc : Pcs, ip : Devices \cup {None}, current : BOOLEAN]]
        /\ \A q \in Rotations : run'[q].ip = run[q].ip
        /\ \A q \in Rotations : lock = q => run'[q].pc = "lost"
        /\ \A q \in Rotations : lock # q => run'[q] = run[q]
    BY DEF TypeOK, Crash, Pcs
  <1>2. TypeOK'
    <2>1. crashes' \in 0..MaxCrashes
      <3>1. crashes \in 0..MaxCrashes /\ crashes < MaxCrashes /\ crashes' = crashes + 1
        BY DEF TypeOK, Crash
      <3> QED BY <3>1, CrashesAssumption
    <2>2. \A r \in Rotations : run'[r].pc # "idle" => run'[r].ip \in Devices
      BY <1>1 DEF TypeOK, LockHeld
    <2> QED BY <1>1, <2>1, <2>2 DEF TypeOK, Found, Crash
  <1>3. \A r \in Rotations : run'[r].pc \notin Checking /\ ~Submitted(r)'
    BY <1>1 DEF LockHeld, Submitted, Checking
  <1>4. LockHeld'
    BY <1>3, NoneAssumption DEF LockHeld, Crash
  <1>5. DoubtBarred'
    <2>1. \A d \in Devices : listed'[d] = "none"
      BY DEF Crash
    <2> QED BY <1>2, <1>3, <2>1 DEF TypeOK, DoubtBarred
  <1>6. NewIsNew'
    BY <1>1, NoneAssumption DEF NewIsNew, Crash
  <1> QED BY <1>2, <1>4, <1>5, <1>6

LEMMA Stutters ==
    ASSUME IndInv, UNCHANGED vars
    PROVE  IndInv'
  BY DEF IndInv, vars, backend, history, TypeOK, LockHeld, DoubtBarred, NewIsNew, Submitted

LEMMA NextIndInv == IndInv /\ [Next]_vars => IndInv'
  <1> SUFFICES ASSUME IndInv, [Next]_vars PROVE IndInv'
    OBVIOUS
  <1>1. CASE Crash
    BY <1>1, Crashes
  <1>2. CASE \E s \in Inventories : InventoryStep(s)
    BY <1>2, InventoryStarts, AskNewStep, AskOldStep, InventoryEnds DEF InventoryStep
  <1>3. CASE \E r \in Rotations : Apply(r) \/ \E d \in Devices : RotateCredential(r, d)
    BY <1>3, ApplyStep, RotationStarts
  <1>4. CASE \E r \in Rotations : RunStep(r)
    BY <1>4, Confirms, ChecksOld, ListsUsers, SetsPassword, Answered, VerifiesNew,
       Replies DEF RunStep
  <1>5. CASE UNCHANGED vars
    BY <1>5, Stutters
  <1> QED BY <1>1, <1>2, <1>3, <1>4, <1>5 DEF Next

--------------------------------------------------------------------------------
(* Theorems                                                                    *)

LEMMA Inductive == Spec => []IndInv
  BY InitIndInv, NextIndInv, PTL DEF Spec

\* Every variable keeps its type, and the list never shows an inventory's
\* unfinished findings.
THEOREM TypeCorrect == Spec => []TypeOK
  BY Inductive, PTL DEF IndInv

\* A rotate-credential request is under way only while it holds the mutation lock.
THEOREM OneAtATime == Spec => []LockHeld
  BY Inductive, PTL DEF IndInv

\* What the list, an inventory or a result calls new takes the new password.
THEOREM NewCredentialsTrue == Spec => []NewIsNew
  BY Inductive, PTL DEF IndInv

\* A device whose last change is in doubt is unknown, not listed, or the one being
\* changed; no request that has yet to send its change is on such a device.
THEOREM DoubtIsBarred == Spec => []DoubtBarred
  BY Inductive, PTL DEF IndInv

\* No second set-passwd goes to a device in doubt before a fresh inventory has listed a
\* password for it, unless one begun before the doubt was taken for fresh.
THEOREM DoubtBlocksRetry == Spec => NoRetryInDoubt
  <1> DEFINE Barred == \A r \in Rotations : Sends(r) => run[r].ip \notin doubt \ misled
  <1>1. IndInv => Barred
    BY DEF IndInv, DoubtBarred, Checking, Sends
  <1>2. IndInv /\ [Next]_vars => [Barred]_vars
    BY <1>1
  <1>3. Spec => [][Barred]_vars
    BY <1>2, Inductive, PTL DEF Spec
  <1> QED BY <1>3 DEF NoRetryInDoubt

--------------------------------------------------------------------------------
(* Inventories and changes that take turns                                     *)

\* No inventory has been overtaken and nobody misled.
TookTurns == misled = {} /\ \A s \in Inventories : overtaken[s] = {}

LEMMA TurnsKept ==
    ASSUME IndInv, TookTurns, [Next]_vars, [NoneOvertaken]_vars
    PROVE  TookTurns'
  <1> USE DEF IndInv, TookTurns
  <1>1. CASE Crash
    BY <1>1 DEF Crash
  <1>2. CASE \E s \in Inventories : InventoryFinish(s)
    BY <1>2 DEF InventoryFinish, Settle, TypeOK
  <1>3. CASE \E r \in Rotations : lock = r /\ Submitted(r) /\ Uncertain(r)
    <2>1. PICK r \in Rotations : lock = r /\ Submitted(r) /\ Uncertain(r)
      BY <1>3
    <2>2. run'[r].pc = "uncertain" /\ run[r].pc # "uncertain"
      BY <2>1 DEF Uncertain, GoTo, TypeOK, Submitted
    <2>3. \A s \in Inventories : inventory[s] = None
      BY <2>2 DEF NoneOvertaken, vars, backend
    <2> QED BY <2>1, <2>3 DEF Uncertain
  <1>4. CASE \E r \in Rotations : Rotated(r)
    BY <1>4 DEF Rotated
  <1>5. CASE UNCHANGED <<overtaken, misled>>
    BY <1>5
  <1>6. ASSUME NEW s \in Inventories, InventoryStep(s)
        PROVE  InventoryFinish(s) \/ UNCHANGED <<overtaken, misled>>
    BY <1>6 DEF InventoryStep, InventoryStart, AskNew, AskOld, Find, history
  <1>7. ASSUME NEW r \in Rotations, NEW d \in Devices, RotateCredential(r, d)
        PROVE  UNCHANGED <<overtaken, misled>>
    BY <1>7 DEF RotateCredential, history
  <1>8. ASSUME NEW r \in Rotations, RunStep(r)
        PROVE  \/ lock = r /\ Submitted(r) /\ Uncertain(r)
               \/ Rotated(r)
               \/ UNCHANGED <<overtaken, misled>>
    <2>1. CASE PasswordAnswered(r)
      BY <2>1 DEF PasswordAnswered, Accepted, At, Submitted, history
    <2>2. CASE VerifyNew(r)
      BY <2>2 DEF VerifyNew, At, Submitted
    <2>3. CASE ConfirmRotated(r) \/ CheckOld(r) \/ GetUsers(r)
      BY <2>3 DEF ConfirmRotated, CheckOld, GetUsers, history
    <2>4. CASE SetPassword(r) \/ Reply(r)
      BY <2>4 DEF SetPassword, Reply, history
    <2> QED BY <1>8, <2>1, <2>2, <2>3, <2>4 DEF RunStep
  <1>9. ASSUME NEW r \in Rotations, Apply(r)
        PROVE  UNCHANGED <<overtaken, misled>>
    BY <1>9 DEF Apply, history
  <1>10. CASE UNCHANGED vars
    BY <1>10 DEF vars, history
  <1> QED BY <1>1, <1>2, <1>3, <1>4, <1>5, <1>6, <1>7, <1>8, <1>9, <1>10 DEF Next

\* If no change comes into doubt while an inventory is running, the README's sentence
\* holds as it stands: only an inventory begun since lifts the bar.
THEOREM FreshIfInTurn == Spec /\ [][NoneOvertaken]_vars => FreshBeforeRetry
  <1> DEFINE Fresh == \A r \in Rotations : Sends(r) => run[r].ip \notin doubt
  <1>1. Init => TookTurns
    BY DEF Init, TookTurns
  <1>2. Spec /\ [][NoneOvertaken]_vars => []TookTurns
    BY <1>1, TurnsKept, Inductive, PTL DEF Spec
  <1>3. IndInv /\ TookTurns => Fresh
    BY DEF IndInv, TookTurns, DoubtBarred, Checking, Sends
  <1>4. IndInv /\ TookTurns /\ [Next]_vars => [Fresh]_vars
    BY <1>3
  <1>5. Spec /\ [][NoneOvertaken]_vars => [][Fresh]_vars
    BY <1>2, <1>4, Inductive, PTL DEF Spec
  <1> QED BY <1>5 DEF FreshBeforeRetry
================================================================================
