--------------------------- MODULE SmallPrograms ---------------------------
(***************************************************************************)
(* The small programs of the repository, those made of system calls and    *)
(* those that work on memory only.  A behaviour starts one of them and     *)
(* follows it, while the others have not been started: they share nothing. *)
(***************************************************************************)
EXTENDS SystemPrograms, LabPrograms

programsVars == <<systemVars, labVars>>

ProgramsInit == SystemInit /\ LabInit

ProgramsNext == \/ LabInit /\ SystemNext /\ UNCHANGED labVars
                \/ SystemInit /\ LabNext /\ UNCHANGED systemVars

(* Nothing but the first step of a program is enabled before it starts, so *)
(* the fairness of one asks nothing of the others.                         *)
ProgramsSpec == /\ ProgramsInit /\ [][ProgramsNext]_programsVars
                /\ SystemFairness /\ LabFairness
=============================================================================
