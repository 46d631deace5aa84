--------------------------- MODULE ServiceInstall ---------------------------
(***************************************************************************)
(* The installer, InstallDriver/main.cpp, run once or several times while  *)
(* the service of GuestService lives its life and its uninstaller works.   *)
(*                                                                         *)
(* They meet in the SCM's database: an entry that the uninstaller marked   *)
(* for deletion stays, and refuses to be changed, until the service has    *)
(* stopped and the last handle on it is closed; only then a new entry of   *)
(* the same name can be created.                                           *)
(***************************************************************************)
EXTENDS GuestService

CONSTANTS
  Installers,     \* runs of the installer
  InstallerFails  \* its calls that may fail for reasons of their own

ASSUME InstallerAssumption ==
  InstallerFails \subseteq {"manager", "open", "create", "update", "protect"}

VARIABLES
  installer,  \* where each run of the installer is
  protection  \* what the entry says about failures of the service

\* The two failure settings: restart the service, also when it did not crash.
FailureSettings == {"actions", "flag"}

installVars == <<vars, installer, protection>>
-----------------------------------------------------------------------------
InstallerGoto(i, label) == installer' = [installer EXCEPT ![i] = label]

\* The call fails: the entry is marked for deletion, or for another reason.
Refused(call) == entry = "marked" \/ call \in InstallerFails

\* OpenSCManagerA and OpenServiceA; any failure of the latter leads to
\* CreateServiceA.
OpenOrCreate(i) ==
  /\ installer[i] = "begin"
  /\ \/ entry # "absent" /\ InstallerGoto(i, "update")
     \/ /\ entry = "absent" \/ "open" \in InstallerFails
        /\ InstallerGoto(i, "create")
     \/ /\ "manager" \in InstallerFails
        /\ InstallerGoto(i, "done")
  /\ UNCHANGED <<vars, protection>>

\* CreateServiceA fails if there is an entry by now, also a marked one.
CreateService(i) ==
  /\ installer[i] = "create"
  /\ \/ /\ entry = "absent"
        /\ entry' = "present"
        /\ protection' = {}
        /\ InstallerGoto(i, "start")
     \/ /\ entry # "absent" \/ "create" \in InstallerFails
        /\ InstallerGoto(i, "done")
        /\ UNCHANGED <<entry, protection>>
  /\ UNCHANGED <<process, scmState, client, bounds>>

\* StartServiceA, whose result nobody looks at.
StartInstalled(i) ==
  /\ installer[i] = "start"
  /\ StartService \/ UNCHANGED vars
  /\ InstallerGoto(i, "describe")
  /\ UNCHANGED protection

\* ChangeServiceConfigA.
ChangeServiceConfig(i) ==
  /\ installer[i] = "update"
  /\ \/ /\ entry = "present"
        /\ InstallerGoto(i, "describe")
     \/ /\ Refused("update")
        /\ InstallerGoto(i, "close")
  /\ UNCHANGED <<vars, protection>>

\* A slip: a failure to set the description ends the run.
DescribeOrGiveUp(i) ==
  /\ installer[i] = "describe"
  /\ InstallerGoto(i, "actions") \/ InstallerGoto(i, "close")
  /\ UNCHANGED <<vars, protection>>

\* ChangeServiceConfig2A for the description; a failure is only printed.
Describe(i) ==
  /\ installer[i] = "describe"
  /\ InstallerGoto(i, "actions")
  /\ UNCHANGED <<vars, protection>>

\* ChangeServiceConfig2A for a failure setting; the run goes on if it fails.
Protect(i, setting, next) ==
  /\ installer[i] = setting
  /\ \/ entry = "present" /\ protection' = protection \cup {setting}
     \/ Refused("protect") /\ UNCHANGED protection
  /\ InstallerGoto(i, next)
  /\ UNCHANGED vars

\* CloseServiceHandle, and a result of 0 whatever happened.
CloseHandles(i) ==
  /\ installer[i] = "close"
  /\ InstallerGoto(i, "done")
  /\ UNCHANGED <<vars, protection>>
-----------------------------------------------------------------------------
\* The labels at which a run has a handle on the entry.
Holding == {"start", "update", "describe", "actions", "flag", "close"}

InstallInit ==
  /\ Init
  /\ installer = [i \in Installers |-> "begin"]
  /\ protection = IF entry = "present" THEN FailureSettings ELSE {}

Installer(i) ==
  \/ OpenOrCreate(i) \/ CreateService(i) \/ StartInstalled(i)
  \/ ChangeServiceConfig(i) \/ Describe(i)
  \/ Protect(i, "actions", "flag") \/ Protect(i, "flag", "close")
  \/ CloseHandles(i)

\* The others; the entry stays as long as an installer has a handle on it.
Others ==
  /\ \/ MainThread \/ ServiceThread \/ Uninstaller \/ Environment
     \/ RemoveEntry /\ \A i \in Installers : installer[i] \notin Holding
  /\ UNCHANGED <<installer, protection>>

InstallNext == Others \/ \E i \in Installers : Installer(i)

InstallSpec == InstallInit /\ [][InstallNext]_installVars

\* The threads, the uninstaller and the SCM are as fair as in GuestService; no installer
\* has to be run or to go on.
InstallFairness ==
  /\ WF_installVars(MainThread /\ UNCHANGED <<installer, protection>>)
  /\ WF_installVars(ServiceThread /\ UNCHANGED <<installer, protection>>)
  /\ SF_installVars(ControlService /\ UNCHANGED <<installer, protection>>)
  /\ WF_installVars(UninstallerProceeds /\ UNCHANGED <<installer, protection>>)

FairInstallSpec == InstallSpec /\ InstallFairness
-----------------------------------------------------------------------------
\* An entry that can be started lacks a failure setting only while a run of the
\* installer is on its way to set it, as long as that call does not fail: no
\* interleaving of installers and an uninstaller leaves behind a service that
\* the SCM will not restart (main.cpp of InstallDriver, 93-181).
ProtectedUnlessInstalling ==
  entry = "present" /\ protection # FailureSettings =>
    \E i \in Installers : installer[i] \in {"start", "describe", "actions", "flag"}
=============================================================================
