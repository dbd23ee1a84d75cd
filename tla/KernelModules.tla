--------------------------- MODULE KernelModules ---------------------------
(***************************************************************************)
(* The loadable modules of hw1, project2 and project5.  They share nothing *)
(* but the kernel that loads them, so a behaviour is about one family of   *)
(* them: its module is loaded, used by its programs, removed and loaded    *)
(* again, with new memory.  What a LED driver leaves behind in the kernel  *)
(* (timers, LEDs) is there when the next one is loaded.                    *)
(***************************************************************************)
EXTENDS LinkedList, Hw1Driver, ProcMon, LedDrivers

VARIABLE family   \* which of the modules this machine loads

allVars == <<family, listVars, hwVars, pmVars, ledVars>>

KernelInit ==
    /\ family \in {"linkedlist", "hw1_driver", "procmon", "leds"}
    /\ ListInit /\ HwInit /\ PmInit /\ LedInit

InList == family = "linkedlist" /\ UNCHANGED <<family, hwVars, pmVars, ledVars>>
InHw   == family = "hw1_driver" /\ UNCHANGED <<family, listVars, pmVars, ledVars>>
InPm   == family = "procmon" /\ UNCHANGED <<family, listVars, hwVars, ledVars>>
InLeds == family = "leds" /\ UNCHANGED <<family, listVars, hwVars, pmVars>>

\* The machine has stopped.
Halted == ledPc = "dead" /\ UNCHANGED ledVars

KernelNext ==
    \/ InList /\ (ListNext \/ dummy_exit)
    \/ InHw /\ (HwNext \/ hw1_exit)
    \/ InPm /\ (PmNext \/ exit_procmon)
    \/ InLeds /\ (LedNext \/ LedLoad \/ Halted)

KernelSpec == KernelInit /\ [][KernelNext]_allVars
=============================================================================
