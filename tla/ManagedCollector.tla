--------------------------- MODULE ManagedCollector ---------------------------
(***************************************************************************)
(* Installing and removing the collector at its stable path on Linux       *)
(* (managed_collector.py): the old executable is moved aside, the new one  *)
(* put in its place and the user service switched on; whatever fails is    *)
(* rolled back.  One command runs at a time and may be killed between any  *)
(* two steps.  Temporary copies, which no path leads to, are left out, and *)
(* nobody exchanges the directories or files under a command.              *)
(***************************************************************************)

CONSTANTS
    Versions,  \* executables that install themselves
    Nowhere

ASSUME NowhereAssumption == Nowhere \notin Versions

VARIABLES
    stable,     \* the executable at the stable path, or Nowhere
    leftovers,  \* those under .previous- names no command knows
    unit,       \* the user service
    lifecycle,  \* the command that runs: where it stands, what it installs,
                \* what it found and what it moved aside
    ended,      \* how the last command ended, and what it had found
    faults      \* history: a command was killed or could not roll back, or the service
                \* manager did not take back what it had switched on

installVars == <<stable, leftovers, unit, lifecycle, ended, faults>>

NoCommand == [at |-> "rest", version |-> Nowhere, found |-> Nowhere, backup |-> Nowhere]

InstallInit ==
    /\ stable = Nowhere
    /\ leftovers = {}
    /\ unit = "absent"
    /\ lifecycle = NoCommand
    /\ ended = [result |-> "none", found |-> Nowhere]
    /\ faults = {}

Proceed(at) == lifecycle' = [lifecycle EXCEPT !.at = at]

Ends(result) ==
    /\ lifecycle' = NoCommand
    /\ ended' = [result |-> result, found |-> lifecycle.found]

\* What was moved aside stays there.
LeavesBackup == leftovers' = leftovers \cup ({lifecycle.backup} \ {Nowhere})

(***************************************************************************)
(* install_managed_collector.                                              *)
(***************************************************************************)
\* The directories are opened and the running executable is copied beside the
\* stable path.
BeginInstall(v) ==
    /\ lifecycle.at = "rest"
    /\ lifecycle' = [at |-> "copied", version |-> v, found |-> stable, backup |-> Nowhere]
    /\ UNCHANGED <<stable, leftovers, unit, ended, faults>>

\* Mutant: the old executable is removed at once.
RemoveOld ==
    /\ lifecycle.at = "copied" /\ lifecycle.found # Nowhere
    /\ stable' = Nowhere
    /\ lifecycle' = [lifecycle EXCEPT !.at = "aside"]
    /\ UNCHANGED <<leftovers, unit, ended, faults>>

MoveAside ==
    /\ lifecycle.at = "copied" /\ lifecycle.found # Nowhere
    /\ stable' = Nowhere
    /\ lifecycle' = [lifecycle EXCEPT !.at = "aside", !.backup = stable]
    /\ UNCHANGED <<leftovers, unit, ended, faults>>

\* A first install links, any other replaces what is not there any more.
PutInPlace ==
    /\ \/ lifecycle.at = "aside"
       \/ lifecycle.at = "copied" /\ lifecycle.found = Nowhere
    /\ stable' = lifecycle.version
    /\ Proceed("placed")
    /\ UNCHANGED <<leftovers, unit, ended, faults>>

\* Before anything was put in place there is at most a backup to restore.
PlaceFails ==
    /\ \/ lifecycle.at = "copied" /\ Ends("failed")
       \/ lifecycle.at = "aside" /\ Proceed("restoring") /\ UNCHANGED ended
    /\ UNCHANGED <<stable, leftovers, unit, faults>>

\* The copy and its source are compared.
Verify ==
    /\ lifecycle.at = "placed"
    /\ Proceed("verified") \/ Proceed("removing")
    /\ UNCHANGED <<stable, leftovers, unit, ended, faults>>

\* platform_services.install_service.
Activate ==
    /\ lifecycle.at = "verified"
    /\ unit' = "enabled"
    /\ Proceed("active")
    /\ UNCHANGED <<stable, leftovers, ended, faults>>

\* It fails before the unit was written, or undoes what it did, as far as the
\* service manager lets it.
ActivateFails ==
    /\ lifecycle.at = "verified"
    /\ unit' \in {unit, "absent", "disabled", "enabled"}
    /\ faults' = IF unit # "enabled" /\ unit' = "enabled" THEN faults \cup {"service"} ELSE faults
    /\ Proceed("removing")
    /\ UNCHANGED <<stable, leftovers, ended>>

\* The directory cannot be opened once more: the service is taken back, as far
\* as the service manager lets it.
NotConfirmed ==
    /\ lifecycle.at = "active"
    /\ unit' \in {"absent", "disabled", "enabled"}
    /\ faults' = IF unit' = "enabled" THEN faults \cup {"service"} ELSE faults
    /\ Proceed("removing")
    /\ UNCHANGED <<stable, leftovers, ended>>

DropBackup ==
    /\ lifecycle.at = "active"
    /\ \/ Ends("installed")
       \/ /\ lifecycle.backup # Nowhere
          /\ Proceed("removing")
          /\ UNCHANGED ended
    /\ UNCHANGED <<stable, leftovers, unit, faults>>

(***************************************************************************)
(* _rollback_install: whatever of it fails is the end of it.               *)
(***************************************************************************)
RemoveNew ==
    /\ lifecycle.at = "removing"
    /\ stable' = Nowhere
    /\ IF lifecycle.backup = Nowhere THEN Ends("failed")
       ELSE Proceed("restoring") /\ UNCHANGED ended
    /\ UNCHANGED <<leftovers, unit, faults>>

RestoreBackup ==
    /\ lifecycle.at = "restoring"
    /\ stable' = lifecycle.backup
    /\ Ends("failed")
    /\ UNCHANGED <<leftovers, unit, faults>>

RollbackFails ==
    /\ lifecycle.at \in {"removing", "restoring"}
    /\ Ends("broken")
    /\ LeavesBackup
    /\ faults' = faults \cup {"interrupted"}
    /\ UNCHANGED <<stable, unit>>

(***************************************************************************)
(* uninstall_managed_collector.                                            *)
(***************************************************************************)
BeginUninstall ==
    /\ lifecycle.at = "rest"
    /\ lifecycle' = [NoCommand EXCEPT !.at = "installed", !.found = stable]
    /\ UNCHANGED <<stable, leftovers, unit, ended, faults>>

Deactivate ==
    /\ lifecycle.at = "installed"
    /\ unit' = "absent"
    /\ Proceed("inactive")
    /\ UNCHANGED <<stable, leftovers, ended, faults>>

DeactivateFails ==
    /\ lifecycle.at = "installed"
    /\ unit' \in {unit, "absent"} \cup (IF unit = "absent" THEN {} ELSE {"disabled"})
    /\ Ends("unremoved")
    /\ UNCHANGED <<stable, leftovers, faults>>

RemoveStable ==
    /\ lifecycle.at = "inactive"
    /\ \/ stable' = Nowhere /\ Proceed("unlinked") /\ UNCHANGED ended
       \/ Ends("unremoved") /\ UNCHANGED stable
    /\ UNCHANGED <<leftovers, unit, faults>>

\* _remove_empty_runtime: nothing is put back when it fails.
RemoveRuntime ==
    /\ lifecycle.at = "unlinked"
    /\ Ends("removed") \/ Ends("unremoved")
    /\ UNCHANGED <<stable, leftovers, unit, faults>>

CommandKilled ==
    /\ lifecycle.at # "rest"
    /\ Ends("killed")
    /\ LeavesBackup
    /\ faults' = faults \cup {"interrupted"}
    /\ UNCHANGED <<stable, unit>>

InstallNext ==
    \/ \E v \in Versions : BeginInstall(v)
    \/ MoveAside \/ PutInPlace \/ PlaceFails \/ Verify \/ Activate \/ ActivateFails
    \/ NotConfirmed \/ DropBackup
    \/ RemoveNew \/ RestoreBackup \/ RollbackFails
    \/ BeginUninstall \/ Deactivate \/ DeactivateFails \/ RemoveStable \/ RemoveRuntime
    \/ CommandKilled

InstallSpec == InstallInit /\ [][InstallNext]_installVars

(***************************************************************************)
(* Properties.                                                             *)
(***************************************************************************)

\* The command is somewhere in its code, and files are executables.
InstallTypeOK ==
    /\ stable \in Versions \cup {Nowhere}
    /\ leftovers \subseteq Versions
    /\ unit \in {"absent", "disabled", "enabled"}
    /\ lifecycle \in [at : {"rest", "copied", "aside", "placed", "verified", "active", "removing",
                            "restoring", "installed", "inactive", "unlinked"},
                      version : Versions \cup {Nowhere}, found : Versions \cup {Nowhere},
                      backup : Versions \cup {Nowhere}]
    /\ faults \subseteq {"service", "interrupted"}

\* No executable of a service that is switched on is lost: an install that
\* fails leaves what it found, and so does a removal, unless it fails at the
\* empty directory, when service and executable are gone; between commands the
\* service has its executable unless one was killed or could not roll back, or
\* a service manager did not take back what it had switched on; and even after
\* a kill or a broken rollback the executable is somewhere in the directory.
ExecutableSurvives ==
    /\ lifecycle.at = "rest" =>
          /\ ended.result = "failed" => stable = ended.found
          /\ ended.result = "unremoved" =>
                stable = ended.found \/ (stable = Nowhere /\ unit = "absent")
    /\ unit = "enabled" /\ lifecycle.at = "rest" /\ faults = {} => stable # Nowhere
    /\ unit = "enabled" /\ "service" \notin faults =>
          stable # Nowhere \/ leftovers # {} \/ lifecycle.backup # Nowhere
=============================================================================
