---------------------------- MODULE AcceptanceRun ----------------------------
(***************************************************************************)
(* The job of macos-acceptance.yml: `acceptance.py run`, which claims a    *)
(* fresh account, installs the node, exercises it and cleans up, then the  *)
(* always-run step `acceptance.py cleanup`, in a process of its own.       *)
(*                                                                         *)
(* Any phase may fail, the alarm or a SIGTERM may strike between any two   *)
(* statements, and the runner may kill the process.  The installer, the    *)
(* installed node and its `service` commands are external: a command that  *)
(* reports success may have left things behind, which is why cleanup looks *)
(* for them itself.                                                        *)
(*                                                                         *)
(* Abstracted: the exercises of the mounted workspace, whose only traces   *)
(* are processes, the mount and the personal canary; both canary names are *)
(* one; the snapshot of the status and the contents of the receipts beyond *)
(* "passed".                                                               *)
(***************************************************************************)
CONSTANT Pids    \* identities of native processes: a dead one does not return

ASSUME PidsAssumption == Pids \cap {"cli", "unit", "registered", "running", "mount", "canary"} = {}

VARIABLES
  at,           \* where the process is
  by,           \* which process: "run", or the "always" step after it
  home,         \* what the account holds
  before,       \* what it held before the job
  marker,       \* owned.json: of nobody, of this run, or of another
  remembered,   \* owned-processes.json
  commanded,    \* whether the command that writes the canary has been enqueued
  passed,       \* receipt["passed"], in memory
  found,        \* what cleanup has to complain of so far
  receipt,      \* receipt.json
  cleaned,      \* cleanup.json
  exit          \* how the always-run step ended

account == <<home, before>>
documents == <<receipt, cleaned, exit>>
job == <<at, by, home, before, marker, remembered, commanded, passed, found, receipt, cleaned, exit>>

(* What an installation consists of, in the order in which it appears.  A  *)
(* running service is a registered one.                                    *)
Installation == {"cli", "unit", "registered", "running"}

Needs(thing) == CASE thing = "unit" -> {"cli"}
                  [] thing = "registered" -> {"unit"}
                  [] thing = "running" -> {"registered"}
                  [] OTHER -> {}

(* The statements of the try clause of acceptance, and of cleanup.         *)
Trying == {"claiming", "installing", "exercising", "commanding"}
Cleaning == {"validate", "stop", "uninstall", "look", "unlink", "identities", "write"}

Verdict(ok) == IF ok THEN "passed" ELSE "failed"

(* The account without some things: a service that is not registered does  *)
(* not run.                                                                *)
Without(gone) ==
  home \ (gone \cup IF "registered" \in gone THEN {"running"} ELSE {})

-----------------------------------------------------------------------------
(* acceptance, up to its finally clause *)

(* fresh_account refuses an account with anything of Meshia on it; main    *)
(* then leaves a receipt that says so.                                     *)
Preflight ==
  /\ at = "preflight"
  /\ IF home = {}
     THEN at' = "claiming" /\ UNCHANGED receipt
     ELSE at' = "ended" /\ receipt' = "failed"
  /\ UNCHANGED <<by, account, marker, remembered, commanded, passed, found, cleaned, exit>>

(* record("fresh_host"), then the marker, then the installer.              *)
Claim ==
  /\ at = "claiming"
  /\ at' = "installing"
  /\ marker' = "ours"
  /\ receipt' = "failed"
  /\ UNCHANGED <<by, account, remembered, commanded, passed, found, cleaned, exit>>

InstallerStep ==
  /\ at = "installing"
  /\ \E thing \in Installation \ home :
       Needs(thing) \subseteq home /\ home' = home \cup {thing}
  /\ UNCHANGED <<at, by, before, marker, remembered, commanded, passed, found, documents>>

Installed ==
  /\ at = "installing"
  /\ "running" \in home
  /\ at' = "exercising"
  /\ UNCHANGED <<by, account, marker, remembered, commanded, passed, found, documents>>

(* The service mounts, and its processes come and go; a command of the     *)
(* driver writes the canary, as long as the service runs, whatever the     *)
(* driver is doing by then.                                                *)
NodeStep ==
  /\ \/ /\ "running" \in home
        /\ \/ home' = home \cup {"mount"}
           \/ \E pid \in Pids \ remembered : home' = home \cup {pid}
           \/ commanded /\ home' = home \cup {"canary"}
     \/ \E pid \in home \cap Pids : home' = home \ {pid}
  /\ UNCHANGED <<at, by, before, marker, remembered, commanded, passed, found, documents>>

Remember ==
  /\ at \in {"exercising", "commanding"}
  /\ \E pid \in home \cap Pids : remembered' = remembered \cup {pid}
  /\ UNCHANGED <<at, by, account, marker, commanded, passed, found, documents>>

(* The command outlives a driver that gives up waiting for it.             *)
Command ==
  /\ at = "exercising"
  /\ "canary" \notin home
  /\ at' = "commanding"
  /\ commanded' = TRUE
  /\ UNCHANGED <<by, account, marker, remembered, passed, found, documents>>

(* private.unlink(), then receipt["passed"] = True.                        *)
Pass ==
  /\ at = "commanding"
  /\ "canary" \in home
  /\ home' = home \ {"canary"}
  /\ passed' = TRUE
  /\ at' = "finally"
  /\ UNCHANGED <<by, before, marker, remembered, commanded, found, documents>>

(* A statement fails, times out or is interrupted by the alarm or SIGTERM. *)
(* run has ended the installer by then, in the midst of its rollback.      *)
Fail ==
  /\ at \in Trying
  /\ at' = "finally"
  /\ IF at = "installing"
     THEN \E gone \in SUBSET home : home' = Without(gone)
     ELSE UNCHANGED home
  /\ UNCHANGED <<by, before, marker, remembered, commanded, passed, found, documents>>

-----------------------------------------------------------------------------
(* cleanup, in the finally clause and in the step after it *)

BeginCleanup ==
  /\ at = "finally"
  /\ at' = "validate"
  /\ found' = {}
  /\ UNCHANGED <<by, account, marker, remembered, commanded, passed, documents>>

(* main, run again: the always-run step.                                   *)
Always ==
  /\ at = "ended"
  /\ by' = "always"
  /\ at' = "validate"
  /\ found' = {}
  /\ UNCHANGED <<account, marker, remembered, commanded, passed, documents>>

(* What cleanup returned or raised: an exception in the always-run step    *)
(* leaves a cleanup.json if there is none.                                 *)
Concludes(ok) ==
  IF by = "run"
  THEN /\ passed' = (passed /\ ok)
       /\ at' = "closing"
       /\ UNCHANGED <<by, exit>>
  ELSE /\ exit' = Verdict(ok)
       /\ at' = "over"
       /\ UNCHANGED <<by, passed>>

Raise ==
  /\ at \in Cleaning
  /\ Concludes(FALSE)
  /\ cleaned' = IF by = "always" /\ cleaned = "none" THEN "failed" ELSE cleaned
  /\ UNCHANGED <<account, marker, remembered, commanded, found, receipt>>

NotRequired ==
  /\ at = "validate"
  /\ marker = "none"
  /\ Concludes(TRUE)
  /\ UNCHANGED <<account, marker, remembered, commanded, found, receipt, cleaned>>

(* Variant with a fault: without a CLI there is nothing to look for.       *)
FirstStep_SkipsLook == IF "cli" \in home THEN "stop" ELSE "unlink"

FirstStep == IF "cli" \in home THEN "stop" ELSE "look"

(* validate_owned: a marker of another run raises.                         *)
Validate ==
  /\ at = "validate"
  /\ marker = "ours"
  /\ at' = FirstStep
  /\ UNCHANGED <<by, account, marker, remembered, commanded, passed, found, documents>>

(* service stop, service uninstall.  Either may leave anything behind and  *)
(* is only known, when stop succeeds, to have ended the service.           *)
Service(action, next, ends) ==
  /\ at = action
  /\ at' = next
  /\ \E gone \in SUBSET (home \ {"cli", "canary"}) :
       /\ home' = Without(gone)
       /\ \/ ends \cap home \subseteq gone /\ UNCHANGED found
          \/ found' = found \cup {action}
  /\ UNCHANGED <<by, before, marker, remembered, commanded, passed, documents>>

Stop == Service("stop", "uninstall", {"running"})
Uninstall == Service("uninstall", "look", {})

Look ==
  /\ at = "look"
  /\ at' = "unlink"
  /\ found' = found \cup (home \cap {"registered", "mount"})
  /\ UNCHANGED <<by, account, marker, remembered, commanded, passed, documents>>

Unlink ==
  /\ at = "unlink"
  /\ at' = "identities"
  /\ home' = home \ {"canary"}
  /\ UNCHANGED <<by, before, marker, remembered, commanded, passed, found, documents>>

Identities ==
  /\ at = "identities"
  /\ at' = "write"
  /\ found' = found \cup (home \cap remembered)
  /\ UNCHANGED <<by, account, marker, remembered, commanded, passed, documents>>

Write ==
  /\ at = "write"
  /\ LET ok == found \cup (home \cap {"unit"}) = {}
     IN  Concludes(ok) /\ cleaned' = Verdict(ok)
  /\ UNCHANGED <<account, marker, remembered, commanded, found, receipt>>

Close ==
  /\ at = "closing"
  /\ receipt' = Verdict(passed)
  /\ at' = "ended"
  /\ UNCHANGED <<by, account, marker, remembered, commanded, passed, found, cleaned, exit>>

(* A signal outside the clauses that catch it ends the process, and so may *)
(* the runner, though not before the installer has been ended.  In the     *)
(* first case main leaves a receipt if there is none.                      *)
Killed ==
  /\ at \notin {"installing", "ended", "over"}
  /\ IF by = "run"
     THEN /\ at' = "ended"
          /\ receipt' \in {receipt} \cup (IF receipt = "none" THEN {"failed"} ELSE {})
          /\ UNCHANGED exit
     ELSE at' = "over" /\ exit' = "failed" /\ UNCHANGED receipt
  /\ UNCHANGED <<by, account, marker, remembered, commanded, passed, found, cleaned>>

-----------------------------------------------------------------------------
(* The account may hold an installation of its owner, and the directory    *)
(* the marker of another run.                                              *)
RunInit ==
  /\ at = "preflight" /\ by = "run"
  /\ before \in {{}, Installation} /\ home = before
  /\ marker \in {"none", "foreign"}
  /\ remembered = {} /\ found = {} /\ commanded = FALSE /\ passed = FALSE
  /\ receipt = "none" /\ cleaned = "none" /\ exit = "none"

Run == Preflight \/ Claim \/ Installed \/ Remember \/ Command \/ Pass \/ Fail

Cleanup ==
  \/ BeginCleanup \/ Always \/ Raise \/ NotRequired \/ Validate \/ Stop \/ Uninstall
  \/ Look \/ Unlink \/ Identities \/ Write \/ Close

RunNext == Run \/ Cleanup \/ Killed \/ InstallerStep \/ NodeStep

RunSpec == RunInit /\ [][RunNext]_job

-----------------------------------------------------------------------------
(* What a run of this kit must not leave behind.                           *)
Left == home \cap ({"unit", "registered", "running", "mount", "canary"} \cup remembered)

(* acceptance.py:465-500, 976-991: whichever phase failed and however the  *)
(* process was stopped, a receipt, a cleanup document or an always-run     *)
(* step that passed means that nothing of the run is left, then and ever   *)
(* after; and an account that was never claimed is as it was found.        *)
CleanupIsHonest ==
  IF marker = "ours"
  THEN "passed" \in {receipt, cleaned, exit} => Left = {}
  ELSE home \cap Installation = before \cap Installation

(* What makes CleanupIsHonest inductive.  An account that was never claimed *)
(* sees neither the installer nor the statements of cleanup that follow the *)
(* marker; and once cleanup has found nothing to complain of, each of its  *)
(* statements has made sure of its part, which only a running service      *)
(* could undo.                                                             *)
UnclaimedIsSpared ==
  marker # "ours" =>
    /\ at \in {"preflight", "claiming", "finally", "validate", "closing", "ended", "over"}
    /\ home \cap Installation = before \cap Installation

NothingOvertaken ==
  /\ "running" \in home => "registered" \in home
  /\ at \in Trying \cup {"preflight"} => "passed" \notin {receipt, cleaned, exit}

FoundNothing(steps) == marker = "ours" /\ at \in steps /\ found = {}

EachStepMadeSure ==
  /\ FoundNothing({"unlink", "identities", "write"}) => {"registered", "mount"} \cap home = {}
  /\ FoundNothing({"identities", "write"}) => "canary" \notin home
  /\ FoundNothing({"write"}) => remembered \cap home = {}
  /\ marker = "ours" /\ at = "closing" /\ passed => Left = {}
=============================================================================
