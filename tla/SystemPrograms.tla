--------------------------- MODULE SystemPrograms ---------------------------
(***************************************************************************)
(* The programs made of system calls side by side: the file copy, the      *)
(* functions that execute a program, the pipeline, and the directory       *)
(* listing.  A behaviour starts one of them and follows it, while the      *)
(* others have not been started.                                           *)
(***************************************************************************)
EXTENDS FileCopy, ChildProcesses, Pipeline, DirectoryListing

systemVars == <<copyVars, execVars, pipelineVars, listVars>>

SystemInit == CopyInit /\ ExecInit /\ PipelineInit /\ ListInit

SystemNext ==
    \/ /\ ExecInit /\ PipelineInit /\ ListInit
       /\ CopyNext /\ UNCHANGED <<execVars, pipelineVars, listVars>>
    \/ /\ CopyInit /\ PipelineInit /\ ListInit
       /\ ExecNext /\ UNCHANGED <<copyVars, pipelineVars, listVars>>
    \/ /\ CopyInit /\ ExecInit /\ ListInit
       /\ PipelineNext /\ UNCHANGED <<copyVars, execVars, listVars>>
    \/ /\ CopyInit /\ ExecInit /\ PipelineInit
       /\ ListNext /\ UNCHANGED <<copyVars, execVars, pipelineVars>>

SystemFairness == CopyFairness /\ ExecFairness /\ PipelineFairness /\ ListFairness

-----------------------------------------------------------------------------
(* None of the programs goes on for ever: waiting for the end of a file or *)
(* of a directory, for a pipe that somebody holds open, or for a process   *)
(* that waits for it.  None is started twice, so that one which always is  *)
(* at rest again has ended.                                                *)
SystemProgramsEnd == []<>(/\ CopyAtRest
                          /\ CallsAtRest
                          /\ PipelineAtRest
                          /\ ListAtRest)
=============================================================================
