--------------------------- MODULE ChildProcesses ---------------------------
(***************************************************************************)
(* The two functions execute: that of assignment 8 (p1/pipe.c), where the  *)
(* child reports a failed execvp through a pipe, and that of assignment 2  *)
(* (p2/execute.c), where it exits with ERROR_CODE.  They are called by the *)
(* threads of one program, which share its table of open files; a fork     *)
(* copies the table, so a child also gets the pipes of the other threads'  *)
(* calls.  A step is a system call.                                        *)
(***************************************************************************)
EXTENDS Integers

CONSTANTS Callers,   \* the threads; each makes one call
          Functions, \* the functions they call: "pipe.c" and "execute.c"
          Programs   \* what they may be asked to run

(* A program is the error of its execvp, 0 if none, and the exit status or *)
(* how it ends instead.  NoProgram is a NULL argument.                     *)
Killed     == -1
Forever    == -2
NoProgram  == [error |-> -1, exit |-> 0]
ECANCELED  == 125
ERROR_CODE == 127

ASSUME ExecAssumption ==
    /\ Functions \subseteq {"pipe.c", "execute.c"}
    /\ Programs \subseteq [error : Nat, exit : {Killed, Forever} \cup 0 .. 255]

VARIABLES
    table, \* the ends of pipes the program holds: pairs of caller and end
    call,  \* the call of each thread
    child, \* the child of each call
    pipe   \* the error written to the pipe of a call, 0 if none

execVars == <<table, call, child, pipe>>

Ends(c) == {<<c, "read">>, <<c, "write">>}

(* status is what waitpid gave; created and failed are history.            *)
NoCall == [pc |-> "idle", function |-> "pipe.c", program |-> NoProgram,
           status |-> 0, result |-> 0, errno |-> 0,
           created |-> FALSE, failed |-> FALSE]

ExecInit == /\ table = {}
            /\ call = [c \in Callers |-> NoCall]
            /\ child = [c \in Callers |-> [pc |-> "none", ends |-> {}, status |-> 0]]
            /\ pipe = [c \in Callers |-> 0]

CallAt(c, label)  == call[c].pc = label
ChildAt(c, label) == child[c].pc = label
ByPipe(c)         == call[c].function = "pipe.c"
SetChild(c, r)    == child' = [child EXCEPT ![c] = r]

(* What the two functions return on an error.                              *)
Fail(c, errno) == [call[c] EXCEPT !.pc = "done", !.errno = errno, !.failed = TRUE,
                                  !.result = IF ByPipe(c) THEN -1 ELSE ERROR_CODE]

(* A thread calls execute; a NULL argument is refused.                     *)
CallExecute(c, function, program) ==
    /\ CallAt(c, "idle")
    /\ call' = [call EXCEPT ![c] =
          IF program = NoProgram
            THEN [@ EXCEPT !.pc = "done", !.failed = TRUE, !.function = function,
                           !.result = IF function = "pipe.c" THEN -1 ELSE ERROR_CODE]
            ELSE [@ EXCEPT !.pc = IF function = "pipe.c" THEN "pipe" ELSE "fork",
                           !.function = function, !.program = program]]
    /\ UNCHANGED <<table, child, pipe>>

(* pipe2 with O_CLOEXEC.                                                   *)
OpenPipe(c) ==
    /\ CallAt(c, "pipe")
    /\ \/ /\ table' = table \cup Ends(c)
          /\ call' = [call EXCEPT ![c].pc = "fork"]
       \/ /\ call' = [call EXCEPT ![c] = Fail(c, 0)]
          /\ UNCHANGED table
    /\ UNCHANGED <<child, pipe>>

(* fork.  When it fails, pipe.c returns with both ends of its pipe open.   *)
Fork(c) ==
    /\ CallAt(c, "fork")
    /\ \/ /\ SetChild(c, [pc |-> IF ByPipe(c) THEN "close" ELSE "arguments",
                          ends |-> table, status |-> 0])
          /\ call' = [call EXCEPT ![c].pc = IF ByPipe(c) THEN "close" ELSE "wait",
                                  ![c].created = TRUE]
       \/ /\ call' = [call EXCEPT ![c] = Fail(c, 0)]
          /\ UNCHANGED child
    /\ UNCHANGED <<table, pipe>>

(* The child closes the read end.                                          *)
ChildClose(c) ==
    /\ ChildAt(c, "close")
    /\ SetChild(c, [child[c] EXCEPT !.pc = "exec", !.ends = @ \ {<<c, "read">>}])
    /\ UNCHANGED <<table, call, pipe>>

(* execute.c copies the arguments; a malloc that fails there kills it.     *)
ChildArguments(c) ==
    /\ ChildAt(c, "arguments")
    /\ \/ SetChild(c, [child[c] EXCEPT !.pc = "exec"])
       \/ SetChild(c, [child[c] EXCEPT !.pc = "ended", !.ends = {}, !.status = Killed])
    /\ UNCHANGED <<table, call, pipe>>

(* Mutated: the pipe is made without O_CLOEXEC.                            *)
ExecKeepingEnds(c) ==
    /\ ChildAt(c, "exec")
    /\ IF call[c].program.error = 0
         THEN SetChild(c, [child[c] EXCEPT !.pc = "running"])
         ELSE SetChild(c, [child[c] EXCEPT !.pc = IF ByPipe(c) THEN "write" ELSE "exit"])
    /\ UNCHANGED <<table, call, pipe>>

(* execvp: the program starts without the ends of any pipe, or it fails.   *)
Exec(c) ==
    /\ ChildAt(c, "exec")
    /\ IF call[c].program.error = 0
         THEN SetChild(c, [child[c] EXCEPT !.pc = "running", !.ends = {}])
         ELSE SetChild(c, [child[c] EXCEPT !.pc = IF ByPipe(c) THEN "write" ELSE "exit"])
    /\ UNCHANGED <<table, call, pipe>>

(* The program that runs comes to its end, unless it is a server.          *)
ProgramEnds(c) ==
    /\ ChildAt(c, "running") /\ call[c].program.exit # Forever
    /\ SetChild(c, [child[c] EXCEPT !.pc = "ended", !.status = call[c].program.exit])
    /\ UNCHANGED <<table, call, pipe>>

Held(c, end) == \/ <<c, end>> \in table
                \/ \E d \in Callers : <<c, end>> \in child[d].ends

(* The child writes its errno, or is killed when nobody can read it.       *)
WriteError(c) ==
    /\ ChildAt(c, "write")
    /\ IF Held(c, "read")
         THEN /\ pipe' = [pipe EXCEPT ![c] = call[c].program.error]
              /\ SetChild(c, [child[c] EXCEPT !.pc = "exit"])
         ELSE /\ SetChild(c, [child[c] EXCEPT !.pc = "ended", !.ends = {},
                                              !.status = Killed])
              /\ UNCHANGED pipe
    /\ UNCHANGED <<table, call>>

(* The child closes the pipe and exits.                                    *)
ChildExit(c) ==
    /\ ChildAt(c, "exit")
    /\ SetChild(c, [child[c] EXCEPT !.pc = "ended", !.ends = {},
                                    !.status = IF ByPipe(c) THEN 0 ELSE ERROR_CODE])
    /\ UNCHANGED <<table, call, pipe>>

(* The parent closes the write end.                                        *)
CloseWrite(c) ==
    /\ CallAt(c, "close")
    /\ table' = table \ {<<c, "write">>}
    /\ call' = [call EXCEPT ![c].pc = "wait"]
    /\ UNCHANGED <<child, pipe>>

(* waitpid: the status of the child, or an error of the call itself.       *)
Wait(c) ==
    /\ CallAt(c, "wait") /\ ByPipe(c)
    /\ ChildAt(c, "ended")
    /\ call' = [call EXCEPT ![c] =
          IF child[c].status = Killed
            THEN [Fail(c, ECANCELED) EXCEPT !.pc = "close read", !.failed = FALSE]
            ELSE [@ EXCEPT !.pc = "read", !.status = child[c].status]]
    /\ UNCHANGED <<table, child, pipe>>

WaitFails(c) ==
    /\ CallAt(c, "wait")
    /\ call' = [call EXCEPT ![c] =
          [Fail(c, 0) EXCEPT !.pc = IF ByPipe(c) THEN "close read" ELSE "done"]]
    /\ UNCHANGED <<table, child, pipe>>

(* execute.c returns the exit status, or ERROR_CODE.                       *)
WaitAndReturn(c) ==
    /\ CallAt(c, "wait") /\ ~ByPipe(c)
    /\ ChildAt(c, "ended")
    /\ call' = [call EXCEPT ![c] =
          [@ EXCEPT !.pc = "done", !.result = IF child[c].status = Killed
                                                THEN ERROR_CODE ELSE child[c].status]]
    /\ UNCHANGED <<table, child, pipe>>

(* Mutated: what is read of an empty pipe counts as an error.              *)
ReadAnyError(c) ==
    /\ CallAt(c, "read")
    /\ pipe[c] # 0 \/ ~Held(c, "write")
    /\ call' = [call EXCEPT ![c] = [Fail(c, pipe[c]) EXCEPT !.pc = "close read",
                                                            !.failed = FALSE]]
    /\ UNCHANGED <<table, child, pipe>>

(* read waits as long as the pipe is empty and somebody can write to it.   *)
ReadError(c) ==
    /\ CallAt(c, "read")
    /\ \/ /\ pipe[c] # 0
          /\ call' = [call EXCEPT ![c] = [Fail(c, pipe[c]) EXCEPT !.pc = "close read",
                                                                  !.failed = FALSE]]
       \/ /\ pipe[c] = 0 /\ ~Held(c, "write")
          /\ call' = [call EXCEPT ![c].pc = "close read", ![c].result = call[c].status]
    /\ UNCHANGED <<table, child, pipe>>

ReadFails(c) ==
    /\ CallAt(c, "read")
    /\ call' = [call EXCEPT ![c] = [Fail(c, ECANCELED) EXCEPT !.pc = "close read"]]
    /\ UNCHANGED <<table, child, pipe>>

CloseRead(c) ==
    /\ CallAt(c, "close read")
    /\ table' = table \ {<<c, "read">>}
    /\ call' = [call EXCEPT ![c].pc = "done"]
    /\ UNCHANGED <<child, pipe>>

CallerStep(c) == \/ OpenPipe(c) \/ Fork(c) \/ CloseWrite(c) \/ Wait(c)
                 \/ WaitAndReturn(c) \/ ReadError(c) \/ CloseRead(c)
ChildStep(c)  == \/ ChildClose(c) \/ ChildArguments(c) \/ Exec(c) \/ ProgramEnds(c)
                 \/ WriteError(c) \/ ChildExit(c)

ExecNext == \E c \in Callers :
               \/ \E f \in Functions, p \in Programs \cup {NoProgram} :
                     CallExecute(c, f, p)
               \/ CallerStep(c) \/ WaitFails(c) \/ ReadFails(c) \/ ChildStep(c)

(* Threads and processes are scheduled fairly; that waitpid or read fails  *)
(* is nothing to count on.                                                 *)
ExecFairness == \A c \in Callers : /\ WF_execVars(CallerStep(c))
                                   /\ WF_execVars(ChildStep(c))

ExecSpec == ExecInit /\ [][ExecNext]_execVars /\ ExecFairness

-----------------------------------------------------------------------------
(* The types of the table, the calls and the children.                     *)
ExecTypeOK ==
    /\ table \subseteq UNION {Ends(c) : c \in Callers}
    /\ \A c \in Callers :
          /\ call[c].pc \in {"idle", "pipe", "fork", "close", "wait", "read",
                             "close read", "done"}
          /\ child[c].pc \in {"none", "close", "arguments", "exec", "running",
                              "write", "exit", "ended"}
          /\ child[c].ends \subseteq UNION {Ends(d) : d \in Callers}
          /\ call[c].result \in -1 .. 255
          /\ pipe[c] \in {0} \cup {p.error : p \in Programs}

(* A call whose own system calls went well returns what became of the      *)
(* program: its exit status, or that it was killed; in pipe.c also why it  *)
(* could not be started.  In execute.c, ERROR_CODE is the exit status of   *)
(* some programs and of all that could not be run.                         *)
ReturnsTruth ==
    \A c \in Callers :
        LET r == call[c]
            p == r.program
        IN
        CallAt(c, "done") /\ ~r.failed =>
            IF ByPipe(c)
              THEN IF p.error # 0 THEN r.result = -1 /\ r.errno = p.error
                   ELSE IF p.exit = Killed THEN r.result = -1 /\ r.errno = ECANCELED
                   ELSE r.result = p.exit
              ELSE r.result = IF p.error # 0 \/ child[c].status = Killed
                                THEN ERROR_CODE ELSE p.exit

(* The program is left with the ends of no pipe but those of calls whose   *)
(* fork failed.                                                            *)
EndsClosed ==
    \A c \in Callers :
        CallAt(c, "done") /\ Ends(c) \cap table # {} =>
            call[c].failed /\ ~call[c].created

(* A call of execute tells what became of its own program, not of that of  *)
(* another thread, and closes its pipe.                                    *)
ExecRight == /\ ExecTypeOK
             /\ ReturnsTruth
             /\ EndsClosed

(* Every call has returned, but those whose program runs for ever: what    *)
(* the programs of other calls do makes no difference, as nobody else      *)
(* keeps the pipe open for long.                                           *)
CallsAtRest ==
    \A c \in Callers :
        \/ CallAt(c, "idle") \/ CallAt(c, "done")
        \/ call[c].program.error = 0 /\ call[c].program.exit = Forever
=============================================================================
