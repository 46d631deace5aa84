----------------------------- MODULE MCService ------------------------------
(***************************************************************************)
(* The processes of the guest: the service with its uninstaller and        *)
(* installers, and a process that uses the crash dump DLL. They share      *)
(* nothing: a behaviour is one of the service or of the DLL.               *)
(***************************************************************************)
EXTENDS ServiceInstall, Minidump

VARIABLE part

processVars == <<part, installVars, dumpVars>>

ProcessInit ==
  /\ part \in {"service", "dumps"}
  /\ InstallInit /\ DumpInit
  /\ part = "service" => starters = {}
  /\ part = "dumps" => entry = "absent"

InstalledNext == part = "service" /\ InstallNext /\ UNCHANGED <<part, dumpVars>>
DumpingNext == part = "dumps" /\ DumpNext /\ UNCHANGED <<part, installVars>>
ProcessNext == InstalledNext \/ DumpingNext

FairProcessSpec == ProcessInit /\ [][ProcessNext]_processVars /\ InstallFairness
=============================================================================
