--------------------------- MODULE AccessTransition ---------------------------
(***************************************************************************)
(* The access transition of the acceptance: the owner changes the access   *)
(* mode while the heartbeats still report the one before, so that the node *)
(* reserves an app under the new mode before it hears of it                *)
(* (AccessTransitionPlane in fixture_plane.py; exercise_access_transition  *)
(* in native_delta_acceptance.py).                                         *)
(*                                                                         *)
(* Time is counted in ticks.  The driver acts within the tick in which it  *)
(* can; the node is external and known by its cadence: it starts a         *)
(* heartbeat within an interval of the one before and has its answer       *)
(* within a latency.  A heartbeat computes its answer, then passes it      *)
(* through _heartbeat_snapshot under another hold of the lock, then        *)
(* reaches the node: three steps.                                          *)
(*                                                                         *)
(* Abstracted: the app exercise after the adoption, and its result.        *)
(***************************************************************************)
EXTENDS Naturals

CONSTANTS
  None,           \* Python's None
  Timings         \* the cadences of a node and the limits of a driver that are considered

VARIABLES
  timing,         \* the cadence and the limits of this acceptance
  accessMode,     \* access_mode: the owner's choice
  held,           \* _heartbeat_access: the mode reported instead, or None
  holdLeft,       \* time left until _heartbeat_access_deadline
  config,         \* the mode in the node's configuration
  beat,           \* the heartbeat under way: its answer so far, or None
  sinceBeat,      \* time since the last heartbeat began
  driver,         \* what the driver is doing
  previous,       \* the mode the driver found in the configuration
  left,           \* time left for the wait of the driver
  outcome         \* how the last transition ended

plane == <<accessMode, held, holdLeft>>
node == <<config, beat, sinceBeat>>
acceptance == <<driver, previous, left, outcome>>
vars == <<timing, accessMode, held, holdLeft, config, beat, sinceBeat, driver, previous, left, outcome>>

Modes == {"files", "limited", "full"}

(* "computed": before _heartbeat_snapshot; "answered": after it.           *)
Beat == [step : {"computed", "answered"}, mode : Modes]

(* "ending" is the finally clause; "stopped" is an acceptance that failed. *)
Phases == {"idle", "reserving", "reserved", "adopting", "exercising", "ending", "stopped"}

Outcomes == {"succeeded", "reservation_timeout", "wrong_order", "adoption_timeout", "expired"}

(* interval: the node's heartbeat cadence (30 s); latency: from the start   *)
(* of a heartbeat to its answer; command: how long the driver waits for    *)
(* the reservation (35 s); adoption: ACCESS_ADOPTION_SECONDS (40 s); hold: *)
(* how long the prior mode is reported (45 s).                             *)
Timing == [interval : Nat \ {0}, latency : Nat, command : Nat, adoption : Nat, hold : Nat]

ASSUME TransitionAssumption ==
  /\ None \notin Modes
  /\ None \notin Beat
  /\ Timings \subseteq Timing
  /\ \A t \in Timings : t.latency <= t.interval

(* What the limits of the kit rest on: the native cadence of thirty        *)
(* seconds, and answers that come soon.                                    *)
KeepsCadence ==
  /\ timing.command < timing.hold
  /\ timing.interval + timing.latency < timing.adoption

-----------------------------------------------------------------------------
(* The driver. *)

(* exercise_access_transition up to begin_access_transition. *)
Begin(mode) ==
  /\ driver = "idle"
  /\ config \in {"full", "limited"}
  /\ config # mode
  /\ mode # accessMode
  /\ held = None
  /\ accessMode' = mode
  /\ held' = accessMode
  /\ holdLeft' = timing.hold
  /\ previous' = config
  /\ driver' = "reserving"
  /\ left' = timing.command
  /\ UNCHANGED <<timing, node, outcome>>

(* The node has claimed the reservation under the new mode and completed   *)
(* it; after_reserve then looks at the configuration.                      *)
Reserved ==
  /\ driver = "reserving"
  /\ driver' = IF config = previous THEN "reserved" ELSE "ending"
  /\ outcome' = IF config = previous THEN outcome ELSE "wrong_order"
  /\ UNCHANGED <<timing, plane, node, previous, left>>

ReservationTimeout ==
  /\ driver = "reserving"
  /\ left = 0
  /\ driver' = "ending"
  /\ outcome' = "reservation_timeout"
  /\ UNCHANGED <<timing, plane, node, previous, left>>

(* Variant with a fault: the prior mode is reported until the end.         *)
Release_Later ==
  /\ driver = "reserved"
  /\ driver' = "adopting"
  /\ left' = timing.adoption
  /\ UNCHANGED <<timing, plane, node, previous, outcome>>

(* release_access_heartbeat in after_reserve, and the wait it begins.      *)
Release ==
  /\ driver = "reserved"
  /\ held' = None
  /\ holdLeft' = 0
  /\ driver' = "adopting"
  /\ left' = timing.adoption
  /\ UNCHANGED <<timing, accessMode, node, previous, outcome>>

Adopted ==
  /\ driver = "adopting"
  /\ config = accessMode
  /\ driver' = "exercising"
  /\ UNCHANGED <<timing, plane, node, previous, left, outcome>>

AdoptionTimeout ==
  /\ driver = "adopting"
  /\ config # accessMode
  /\ left = 0
  /\ driver' = "ending"
  /\ outcome' = "adoption_timeout"
  /\ UNCHANGED <<timing, plane, node, previous, left>>

Exercised ==
  /\ driver = "exercising"
  /\ driver' = "ending"
  /\ outcome' = "succeeded"
  /\ UNCHANGED <<timing, plane, node, previous, left>>

(* SIGALRM or SIGTERM: raised wherever the driver is. *)
Expired ==
  /\ driver \in {"reserving", "reserved", "adopting", "exercising"}
  /\ driver' = "ending"
  /\ outcome' = "expired"
  /\ UNCHANGED <<timing, plane, node, previous, left>>

(* Variant with a fault: the prior mode is released in after_reserve only. *)
End_HoldsOn ==
  /\ driver = "ending"
  /\ driver' = IF outcome = "succeeded" THEN "idle" ELSE "stopped"
  /\ UNCHANGED <<timing, plane, node, previous, left, outcome>>

(* The finally clause. *)
End ==
  /\ driver = "ending"
  /\ held' = None
  /\ holdLeft' = 0
  /\ driver' = IF outcome = "succeeded" THEN "idle" ELSE "stopped"
  /\ UNCHANGED <<timing, accessMode, node, previous, left, outcome>>

-----------------------------------------------------------------------------
(* A heartbeat. *)

(* FakeControlPlane's answer: the owner's choice. *)
Report ==
  /\ beat = None
  /\ beat' = [step |-> "computed", mode |-> accessMode]
  /\ sinceBeat' = 0
  /\ UNCHANGED <<timing, plane, config, acceptance>>

(* FIXTURE_HEARTBEAT_SNAPSHOT_EXPIRED: the node hears nothing.             *)
SnapshotExpired ==
  /\ beat # None
  /\ beat.step = "computed"
  /\ held # None
  /\ holdLeft = 0
  /\ beat' = None
  /\ UNCHANGED <<timing, plane, config, sinceBeat, acceptance>>

(* Variant with a fault: the answer computed is sent as it is.             *)
Reported_AsComputed == beat.mode

(* The mode that _heartbeat_snapshot lets through. *)
Reported == IF held = None THEN beat.mode ELSE held

Snapshot ==
  /\ beat # None
  /\ beat.step = "computed"
  /\ held # None => holdLeft > 0
  /\ beat' = [step |-> "answered", mode |-> Reported]
  /\ UNCHANGED <<timing, plane, config, sinceBeat, acceptance>>

Adopt ==
  /\ beat # None
  /\ beat.step = "answered"
  /\ config' = beat.mode
  /\ beat' = None
  /\ UNCHANGED <<timing, plane, sinceBeat, acceptance>>

-----------------------------------------------------------------------------
(* Time. *)

Less(n) == IF n = 0 THEN 0 ELSE n - 1

(* The driver waits, or is busy with something that takes time. *)
DriverWaits ==
  \/ driver \in {"idle", "exercising", "stopped"}
  \/ driver = "reserving" /\ left > 0
  \/ driver = "adopting" /\ left > 0 /\ config # accessMode

Tick ==
  /\ DriverWaits
  /\ IF beat = None THEN sinceBeat < timing.interval ELSE sinceBeat < timing.latency
  /\ sinceBeat' = sinceBeat + 1
  /\ holdLeft' = Less(holdLeft)
  /\ left' = Less(left)
  /\ UNCHANGED <<timing, accessMode, held, config, beat, driver, previous, outcome>>

-----------------------------------------------------------------------------
Init ==
  /\ timing \in Timings
  /\ accessMode = "full"
  /\ held = None
  /\ holdLeft = 0
  /\ config = "full"
  /\ beat = None
  /\ sinceBeat = 0
  /\ driver = "idle"
  /\ previous = "full"
  /\ left = 0
  /\ outcome = "succeeded"

Driver ==
  \/ Reserved
  \/ ReservationTimeout
  \/ Release
  \/ Adopted
  \/ AdoptionTimeout
  \/ Exercised
  \/ Expired
  \/ End

Heartbeat ==
  \/ Report
  \/ SnapshotExpired
  \/ Snapshot
  \/ Adopt

Next ==
  \/ \E mode \in Modes : Begin(mode)
  \/ Driver
  \/ Heartbeat
  \/ Tick

Spec == Init /\ [][Next]_vars

(* The driver and the clock go on, the node keeps its cadence; a           *)
(* transition is never owed, and neither are the reservation, the end of   *)
(* the exercise and the alarm.                                             *)
FairSpec ==
  /\ Spec
  /\ WF_vars(ReservationTimeout \/ Release \/ Adopted \/ AdoptionTimeout \/ End)
  /\ WF_vars(Tick)
  /\ WF_vars(Heartbeat)

-----------------------------------------------------------------------------
(* Properties. *)

TransitionTypeOK ==
  /\ timing \in Timings
  /\ accessMode \in Modes
  /\ held \in Modes \cup {None}
  /\ holdLeft \in 0..timing.hold
  /\ config \in Modes
  /\ beat \in Beat \cup {None}
  /\ sinceBeat \in 0..timing.interval
  /\ driver \in Phases
  /\ previous \in Modes
  /\ left \in Nat
  /\ outcome \in Outcomes

(* The reservation comes first: until the driver releases the report, no   *)
(* heartbeat, neither one begun before the transition nor one computed     *)
(* during it, tells the node of the new mode.                              *)
ReservedUnderPriorMode ==
  driver \in {"reserving", "reserved"} => config = previous

(* The allowances of the driver are enough: when the node keeps its        *)
(* cadence, the new mode is adopted within ACCESS_ADOPTION_SECONDS of the  *)
(* release, and no heartbeat meets the deadline of the hold.               *)
AllowancesSuffice ==
  KeepsCadence =>
  /\ outcome \notin {"adoption_timeout", "wrong_order"}
  /\ held # None => holdLeft > 0

(* The report of the prior mode ends, however the transition ends.         *)
HoldIsReleased == held # None ~> held = None
=============================================================================
