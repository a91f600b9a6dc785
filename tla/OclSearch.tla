------------------------------- MODULE OclSearch -------------------------------
(***************************************************************************)
(* oclvanitygen with several devices from its start (oclvanitygen.c, main): *)
(* the process Main opens them (DeviceStart), beside other processes, and   *)
(* then has their threads search (OclDevices).  A search is followed when   *)
(* all devices are open and the other processes have not begun: they share  *)
(* nothing with it.                                                         *)
(***************************************************************************)
EXTENDS OclDevices

CONSTANTS Processes, Names, Hash, NoBinaries, Blocks, NoFile,   \* see DeviceStart
          Main

VARIABLES file, binary, at, nth, fromsource, kfp, offset, vc_threads, opened, objects, lost, died

Start == INSTANCE DeviceStart

ASSUME SearchAssumption == /\ Start!StartAssumption
                           /\ Main \in Processes /\ Devices = DOMAIN Hash[Main]

startvars == <<file, binary, at, nth, fromsource, kfp, offset, vc_threads, opened, objects, lost,
               died>>

SystemInit == Init /\ Start!Init

\* vg_context_start_threads has made the threads.
Searching == /\ at[Main] = "search" /\ opened[Main] = Devices
             /\ \A p \in Processes \ {Main} : at[p] = "open" /\ nth[p] = 1

Opening == ~Searching /\ Start!Next /\ UNCHANGED vars

Search == Searching /\ Next /\ UNCHANGED startvars

SystemNext == Opening \/ Search

systemvars == <<vars, startvars>>

SystemSpec == SystemInit /\ [][SystemNext]_systemvars

\* As FairSpec of OclDevices; nothing says that a start goes on.
DeviceStep(d) == Searching /\ Step(d) /\ UNCHANGED startvars
DeviceResume(d) == Searching /\ Resume(d) /\ UNCHANGED startvars

FairSystem == SystemSpec /\ \A d \in Devices : /\ WF_systemvars(DeviceStep(d))
                                              /\ SF_systemvars(DeviceResume(d))

-------------------------------------------------------------------------------

\* Devices are opened from whole binaries, and what was not opened is not searched with.
StartsRight == Start!StartsRight
===============================================================================
