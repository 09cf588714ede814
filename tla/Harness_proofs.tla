---------------------------- MODULE Harness_proofs ----------------------------
(* The two programs on the harness's side: the access transition, for      *)
(* every cadence and every limit, and the acceptance job with its cleanup, *)
(* for every number of processes.                                          *)
EXTENDS AccessTransition, AcceptanceRun, TLAPS

-----------------------------------------------------------------------------
(* The access transition. *)

(* No transition is under way, or its exercise has begun. *)
Settled == driver \in {"idle", "exercising"} \/ (driver = "ending" /\ outcome = "succeeded")

(* Which mode is where, in each phase of the driver. *)
ModesInPlace ==
  /\ driver \in {"reserving", "reserved"} =>
       /\ held = previous
       /\ config = previous
       /\ beat # None /\ beat.step = "answered" => beat.mode = previous
  /\ driver = "adopting" =>
       /\ held = None
       /\ beat # None /\ config = accessMode => beat.mode = accessMode
  /\ Settled =>
       /\ held = None
       /\ config = accessMode
       /\ beat # None => beat.mode = accessMode
  /\ driver = "reserving" \/ driver = "reserved" => previous # accessMode
  /\ driver = "stopped" => held = None

(* The clocks, for a node that keeps its cadence: the hold outlasts the    *)
(* wait for the reservation, and the wait for the adoption outlasts the    *)
(* heartbeat that brings the new mode.                                     *)
ClocksInTime ==
  /\ beat # None => sinceBeat <= timing.latency
  /\ driver = "reserving" => left < holdLeft
  /\ held # None => holdLeft > 0
  /\ driver = "adopting" /\ config # accessMode =>
       IF beat # None /\ beat.mode = accessMode
       THEN timing.latency < sinceBeat + left
       ELSE timing.interval + timing.latency < sinceBeat + left
  /\ outcome \notin {"adoption_timeout", "wrong_order"}

(* What a timing is made of. *)
LEMMA TimingTyped ==
  ASSUME timing \in Timings
  PROVE  /\ timing.interval \in Nat \ {0}
         /\ timing.latency \in Nat
         /\ timing.command \in Nat
         /\ timing.adoption \in Nat
         /\ timing.hold \in Nat
         /\ timing.latency <= timing.interval
<1>1. timing \in Timing
  BY TransitionAssumption
<1> QED BY <1>1, TransitionAssumption DEF Timing

LEMMA TimingIsRigid == ASSUME [Next]_vars PROVE timing' = timing
BY DEF Next, Driver, Heartbeat, Begin, Reserved, ReservationTimeout, Release, Adopted,
       AdoptionTimeout, Exercised, Expired, End, Report, SnapshotExpired, Snapshot, Adopt,
       Tick, vars

THEOREM TransitionTypeCorrect == Spec => []TransitionTypeOK
<1> USE DEF TransitionTypeOK, Modes, Beat, Phases, Outcomes
<1>1. Init => TransitionTypeOK
  BY TimingTyped DEF Init
<1>2. TransitionTypeOK /\ [Next]_vars => TransitionTypeOK'
  <2> SUFFICES ASSUME TransitionTypeOK, [Next]_vars PROVE TransitionTypeOK'
    OBVIOUS
  <2> USE TimingTyped, TimingIsRigid
  <2>1. ASSUME NEW mode \in Modes, Begin(mode) PROVE TransitionTypeOK'
    BY <2>1 DEF Begin, node
  <2>2. CASE Driver
    BY <2>2 DEF Driver, Reserved, ReservationTimeout, Release, Adopted, AdoptionTimeout,
                Exercised, Expired, End, plane, node
  <2>3. CASE Report
    BY <2>3 DEF Report, plane, acceptance
  <2>4. CASE SnapshotExpired
    BY <2>4 DEF SnapshotExpired, plane, acceptance
  <2>5. CASE Snapshot
    <3>1. Reported \in Modes
      BY <2>5 DEF Snapshot, Reported
    <3> QED BY <2>5, <3>1 DEF Snapshot, plane, acceptance
  <2>6. CASE Adopt
    BY <2>6 DEF Adopt, plane, acceptance
  <2>7. CASE Tick
    BY <2>7 DEF Tick, Less
  <2>8. CASE UNCHANGED vars
    BY <2>8 DEF vars
  <2> QED BY <2>1, <2>2, <2>3, <2>4, <2>5, <2>6, <2>7, <2>8 DEF Next, Heartbeat
<1> QED BY <1>1, <1>2, PTL DEF Spec

(* No step puts a mode where it should not be, whatever the cadence. *)
LEMMA ModesStayInPlace ==
  ASSUME TransitionTypeOK, ModesInPlace, [Next]_vars
  PROVE  ModesInPlace'
<1> USE TransitionAssumption, TimingIsRigid DEF TransitionTypeOK, ModesInPlace, Settled
<1>1. ASSUME NEW mode \in Modes, Begin(mode) PROVE ModesInPlace'
  BY <1>1 DEF Begin, node, Beat
<1>2. CASE Reserved
  BY <1>2 DEF Reserved, plane, node
<1>3. CASE ReservationTimeout \/ AdoptionTimeout \/ Expired
  BY <1>3 DEF ReservationTimeout, AdoptionTimeout, Expired, plane, node
<1>4. CASE Release
  BY <1>4 DEF Release, node
<1>5. CASE Adopted \/ Exercised
  BY <1>5 DEF Adopted, Exercised, plane, node
<1>6. CASE End
  BY <1>6 DEF End, node
<1>7. CASE Report
  BY <1>7 DEF Report, plane, acceptance, Beat
<1>8. CASE SnapshotExpired
  BY <1>8 DEF SnapshotExpired, plane, acceptance
<1>9. CASE Snapshot
  BY <1>9 DEF Snapshot, Reported, plane, acceptance, Beat
<1>10. CASE Adopt
  BY <1>10 DEF Adopt, plane, acceptance, Beat
<1>11. CASE Tick
  BY <1>11 DEF Tick
<1>12. CASE UNCHANGED vars
  BY <1>12 DEF vars
<1> QED BY <1>1, <1>2, <1>3, <1>4, <1>5, <1>6, <1>7, <1>8, <1>9, <1>10, <1>11, <1>12
        DEF Next, Driver, Heartbeat

(* No heartbeat tells the node of the new mode before the reservation.     *)
THEOREM ReservationComesFirst == Spec => []ReservedUnderPriorMode
<1>1. Init => ModesInPlace
  BY TransitionAssumption DEF Init, ModesInPlace, Settled
<1>2. TransitionTypeOK /\ ModesInPlace /\ [Next]_vars => ModesInPlace'
  BY ModesStayInPlace
<1>3. ModesInPlace => ReservedUnderPriorMode
  BY DEF ModesInPlace, ReservedUnderPriorMode
<1> QED BY <1>1, <1>2, <1>3, TransitionTypeCorrect, PTL DEF Spec

LEMMA ClocksStayInTime ==
  ASSUME KeepsCadence, TransitionTypeOK, ModesInPlace, ClocksInTime, [Next]_vars
  PROVE  ClocksInTime'
<1> USE TransitionAssumption, TimingTyped, TimingIsRigid DEF TransitionTypeOK, ClocksInTime
<1>1. ASSUME NEW mode \in Modes, Begin(mode) PROVE ClocksInTime'
  BY <1>1 DEF Begin, node, KeepsCadence
<1>2. CASE Reserved
  BY <1>2 DEF Reserved, plane, node, ModesInPlace
<1>3. CASE ReservationTimeout \/ Expired
  BY <1>3 DEF ReservationTimeout, Expired, plane, node
<1>4. CASE AdoptionTimeout
  BY <1>4 DEF AdoptionTimeout, plane, node
<1>5. CASE Release
  BY <1>5 DEF Release, node, KeepsCadence
<1>6. CASE Adopted \/ Exercised
  BY <1>6 DEF Adopted, Exercised, plane, node
<1>7. CASE End
  BY <1>7 DEF End, node
<1>8. CASE Report
  BY <1>8 DEF Report, plane, acceptance, Beat
<1>9. CASE SnapshotExpired
  BY <1>9 DEF SnapshotExpired, plane, acceptance
<1>10. CASE Snapshot
  BY <1>10 DEF Snapshot, Reported, plane, acceptance, Beat, ModesInPlace
<1>11. CASE Adopt
  BY <1>11 DEF Adopt, plane, acceptance, Beat, ModesInPlace
<1>12. CASE Tick
  <2>1. DriverWaits /\ UNCHANGED <<accessMode, held, config, beat, driver, outcome>>
    BY <1>12 DEF Tick
  <2>2. left' = IF left = 0 THEN 0 ELSE left - 1
    BY <1>12 DEF Tick, Less
  <2>3. holdLeft' = IF holdLeft = 0 THEN 0 ELSE holdLeft - 1
    BY <1>12 DEF Tick, Less
  <2>4. sinceBeat' = sinceBeat + 1 /\ (beat # None => sinceBeat < timing.latency)
    BY <1>12 DEF Tick
  <2>5. held # None => driver = "reserving"
    BY <2>1 DEF DriverWaits, ModesInPlace, Settled
  <2>6. driver = "reserving" => left > 0
    BY <2>1 DEF DriverWaits
  <2>7. driver = "adopting" => left > 0
    BY <2>1 DEF DriverWaits
  <2> QED BY <2>1, <2>2, <2>3, <2>4, <2>5, <2>6, <2>7
<1>13. CASE UNCHANGED vars
  BY <1>13 DEF vars
<1> QED BY <1>1, <1>2, <1>3, <1>4, <1>5, <1>6, <1>7, <1>8, <1>9, <1>10, <1>11, <1>12, <1>13
        DEF Next, Driver, Heartbeat

(* The allowances of the driver are enough for every node that keeps its   *)
(* cadence.                                                                *)
THEOREM AllowancesAreEnough == Spec => []AllowancesSuffice
<1> DEFINE InTime == ModesInPlace /\ (KeepsCadence => ClocksInTime)
<1>1. Init => InTime
  BY TransitionAssumption DEF Init, ModesInPlace, Settled, ClocksInTime
<1>2. TransitionTypeOK /\ InTime /\ [Next]_vars => InTime'
  <2>1. [Next]_vars => (KeepsCadence' <=> KeepsCadence)
    BY TimingIsRigid DEF KeepsCadence
  <2> QED BY <2>1, ModesStayInPlace, ClocksStayInTime
<1>3. InTime => AllowancesSuffice
  BY DEF ClocksInTime, AllowancesSuffice
<1> HIDE DEF InTime
<1> QED BY <1>1, <1>2, <1>3, TransitionTypeCorrect, PTL DEF Spec

-----------------------------------------------------------------------------
(* The acceptance job. *)

RunInv == UnclaimedIsSpared /\ NothingOvertaken /\ EachStepMadeSure /\ CleanupIsHonest

(* Without a registered service, the account only loses things.            *)
LEMMA NodeOnlyAddsWhileRunning ==
  ASSUME NodeStep, "running" \notin home
  PROVE  home' \subseteq home
  BY DEF NodeStep

(* Processes, the mount and the canary are no part of an installation.     *)
LEMMA NodeSparesInstallation ==
  ASSUME NodeStep
  PROVE  home' \cap Installation = home \cap Installation
  BY PidsAssumption DEF NodeStep, Installation

LEMMA NodeStepKeepsRunInv ==
  ASSUME RunInv, NodeStep
  PROVE  RunInv'
  <1>1. UNCHANGED <<at, by, before, marker, remembered, commanded, passed, found, receipt, cleaned, exit>>
    BY DEF NodeStep, documents
  <1>2. home' \cap Installation = home \cap Installation
    BY NodeSparesInstallation
  <1>3. UnclaimedIsSpared' /\ NothingOvertaken'
    BY <1>1, <1>2 DEF RunInv, UnclaimedIsSpared, NothingOvertaken, Installation, Trying
  <1>4. EachStepMadeSure'
    <2>1. "registered" \notin home => home' \subseteq home
      BY NodeOnlyAddsWhileRunning DEF RunInv, NothingOvertaken
    <2>2. Left = {} => home' \subseteq home
      BY NodeOnlyAddsWhileRunning DEF Left
    <2>3. QED
      BY <1>1, <2>1, <2>2 DEF RunInv, EachStepMadeSure, FoundNothing, Left
  <1>5. CleanupIsHonest'
    <2>1. Left = {} => home' \subseteq home
      BY NodeOnlyAddsWhileRunning DEF Left
    <2>2. QED
      BY <1>1, <1>2, <2>1 DEF RunInv, CleanupIsHonest, Left
  <1>6. QED
    BY <1>3, <1>4, <1>5 DEF RunInv

(* What Without takes away, and what it keeps.                             *)
LEMMA WithoutShrinks ==
  ASSUME NEW gone, NothingOvertaken
  PROVE  /\ Without(gone) \subseteq home
         /\ "running" \in Without(gone) => "registered" \in Without(gone)
  BY DEF Without, NothingOvertaken

(* The statements up to the finally clause: no document has passed yet.    *)
LEMMA RunKeepsRunInv ==
  ASSUME RunInv, Run
  PROVE  RunInv'
  <1> USE DEF RunInv, UnclaimedIsSpared, NothingOvertaken, EachStepMadeSure, FoundNothing,
              CleanupIsHonest, Trying, account, documents
  <1>1. CASE Preflight
    BY <1>1 DEF Preflight
  <1>2. CASE Claim
    BY <1>2 DEF Claim
  <1>3. CASE Installed
    BY <1>3 DEF Installed
  <1>4. CASE Remember
    BY <1>4 DEF Remember
  <1>5. CASE Command
    BY <1>5 DEF Command
  <1>6. CASE Pass
    BY <1>6 DEF Pass, Installation
  <1>7. CASE Fail
    <2>1. CASE at = "installing"
      <3>1. PICK gone \in SUBSET home : home' = Without(gone)
        BY <1>7, <2>1 DEF Fail
      <3>2. "running" \in home' => "registered" \in home'
        BY <3>1, WithoutShrinks
      <3>3. QED
        BY <1>7, <2>1, <3>2 DEF Fail
    <2>2. CASE at # "installing"
      BY <1>7, <2>2 DEF Fail
    <2>3. QED
      BY <2>1, <2>2
  <1>8. QED
    BY <1>1, <1>2, <1>3, <1>4, <1>5, <1>6, <1>7 DEF Run

(* The installer works before any document has passed, and only on an      *)
(* account that was claimed.                                               *)
LEMMA InstallerKeepsRunInv ==
  ASSUME RunInv, InstallerStep
  PROVE  RunInv'
  <1>1. UNCHANGED <<at, by, before, marker, remembered, commanded, passed, found, receipt, cleaned, exit>>
    BY DEF InstallerStep, documents
  <1>2. "running" \in home' => "registered" \in home'
    BY DEF InstallerStep, Needs, Installation, RunInv, NothingOvertaken
  <1>3. QED
    BY <1>1, <1>2 DEF InstallerStep, RunInv, UnclaimedIsSpared, NothingOvertaken,
                      EachStepMadeSure, FoundNothing, CleanupIsHonest, Trying

(* A command of cleanup only takes things away.                            *)
LEMMA ServiceKeepsRunInv ==
  ASSUME RunInv, NEW action, NEW next \in {"uninstall", "look"}, NEW ends,
         action \in {"stop", "uninstall"}, Service(action, next, ends)
  PROVE  RunInv'
  <1>1. /\ at = action
        /\ at' = next
        /\ UNCHANGED <<by, before, marker, remembered, commanded, passed, receipt, cleaned, exit>>
    BY DEF Service, documents
  <1>2. home' \subseteq home /\ ("running" \in home' => "registered" \in home')
    BY WithoutShrinks DEF Service, RunInv
  <1>3. marker = "ours"
    BY <1>1 DEF RunInv, UnclaimedIsSpared
  <1>4. QED
    BY <1>1, <1>2, <1>3 DEF RunInv, UnclaimedIsSpared, NothingOvertaken, EachStepMadeSure,
                            FoundNothing, CleanupIsHonest, Trying, Left

LEMMA CleanupKeepsRunInv ==
  ASSUME RunInv, Cleanup
  PROVE  RunInv'
  <1>1. CASE Stop
    <2>1. Service("stop", "uninstall", {"running"})
      BY <1>1 DEF Stop
    <2>2. QED
      BY <2>1, ServiceKeepsRunInv
  <1>2. CASE Uninstall
    <2>1. Service("uninstall", "look", {})
      BY <1>2 DEF Uninstall
    <2>2. QED
      BY <2>1, ServiceKeepsRunInv
  <1> USE DEF RunInv, UnclaimedIsSpared, NothingOvertaken, EachStepMadeSure, FoundNothing,
              CleanupIsHonest, Trying, account, documents
  <1>3. CASE BeginCleanup
    BY <1>3 DEF BeginCleanup, Left
  <1>4. CASE Always
    BY <1>4 DEF Always, Left
  <1>5. CASE Raise
    <2>1. /\ UNCHANGED <<home, before, marker, remembered, commanded, found, receipt>>
          /\ cleaned' \in {cleaned, "failed"}
          /\ Left' = Left
      BY <1>5 DEF Raise, Left
    <2>2. CASE by = "run"
      <3>1. at' = "closing" /\ ~ passed' /\ exit' = exit
        BY <1>5, <2>2 DEF Raise, Concludes
      <3>2. QED
        BY <2>1, <3>1
    <2>3. CASE by # "run"
      <3>1. at' = "over" /\ exit' = "failed"
        BY <1>5, <2>3 DEF Raise, Concludes, Verdict
      <3>2. QED
        BY <2>1, <3>1
    <2>4. QED
      BY <2>2, <2>3
  <1>6. CASE NotRequired
    <2>1. UNCHANGED <<home, before, marker, remembered, commanded, found, receipt, cleaned>>
      BY <1>6 DEF NotRequired
    <2>2. marker # "ours" /\ at' \in {"closing", "over"}
      BY <1>6 DEF NotRequired, Concludes
    <2>3. QED
      BY <2>1, <2>2
  <1>7. CASE Validate
    BY <1>7 DEF Validate, FirstStep, Left
  <1>8. CASE Look
    BY <1>8 DEF Look, Left
  <1>9. CASE Unlink
    BY <1>9 DEF Unlink, Left
  <1>10. CASE Identities
    BY <1>10 DEF Identities, Left
  <1>11. CASE Write
    <2>1. marker = "ours"
      BY <1>11 DEF Write
    <2>2. found \cup (home \cap {"unit"}) = {} => Left = {}
      BY <1>11, <2>1 DEF Write, Left
    <2>3. Left' = Left
      BY <1>11 DEF Write, Left
    <2>4. QED
      BY <1>11, <2>1, <2>2, <2>3 DEF Write, Concludes, Verdict
  <1>12. CASE Close
    BY <1>12 DEF Close, Verdict, Left
  <1>13. QED
    BY <1>1, <1>2, <1>3, <1>4, <1>5, <1>6, <1>7, <1>8, <1>9, <1>10, <1>11, <1>12 DEF Cleanup

LEMMA KilledKeepsRunInv ==
  ASSUME RunInv, Killed
  PROVE  RunInv'
  BY DEF Killed, RunInv, UnclaimedIsSpared, NothingOvertaken, EachStepMadeSure, FoundNothing,
         CleanupIsHonest, Trying, Left, account

(* However a job ends, a receipt, a cleanup document or an always-run step *)
(* of acceptance.py that passed means that nothing of the run is left on   *)
(* the account, and an account that was never claimed keeps its            *)
(* installation, for any number of native processes.                       *)
THEOREM CleanupTellsTheTruth == RunSpec => []CleanupIsHonest
  <1>1. RunInit => RunInv
    BY DEF RunInit, RunInv, UnclaimedIsSpared, NothingOvertaken, EachStepMadeSure,
           FoundNothing, CleanupIsHonest, Installation
  <1>2. RunInv /\ [RunNext]_job => RunInv'
    <2> SUFFICES ASSUME RunInv, [RunNext]_job
                 PROVE  RunInv'
      OBVIOUS
    <2>1. CASE Run
      BY <2>1, RunKeepsRunInv
    <2>2. CASE Cleanup
      BY <2>2, CleanupKeepsRunInv
    <2>3. CASE Killed
      BY <2>3, KilledKeepsRunInv
    <2>4. CASE InstallerStep
      BY <2>4, InstallerKeepsRunInv
    <2>5. CASE NodeStep
      BY <2>5, NodeStepKeepsRunInv
    <2>6. CASE UNCHANGED job
      BY <2>6 DEF job, RunInv, UnclaimedIsSpared, NothingOvertaken, EachStepMadeSure,
                  FoundNothing, CleanupIsHonest, Left
    <2>7. QED
      BY <2>1, <2>2, <2>3, <2>4, <2>5, <2>6 DEF RunNext
  <1>3. RunInv => CleanupIsHonest
    BY DEF RunInv
  <1>4. QED
    BY <1>1, <1>2, <1>3, PTL DEF RunSpec
=============================================================================
