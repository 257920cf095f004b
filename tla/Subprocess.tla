----------------------------- MODULE Subprocess -----------------------------
(***************************************************************************)
(* A child process of the remesh debug app and the thread that reads its   *)
(* output (debug/subprocess_win.{h,cc}).  The object is used again for one *)
(* job after another; its jobs are numbered in the order of their start(). *)
(* A child prints lines; a line reaches the pipe in two halves, so that    *)
(* reads and the death of the child may cut it.                            *)
(***************************************************************************)
EXTENDS Integers, Sequences

CONSTANTS
  MaxJobs,   \* bound: how many children are ever started
  LastLine   \* how many lines a child prints that runs to its end

ASSUME JobAssumption == MaxJobs \in Nat /\ LastLine \in Nat \ {0}

VARIABLES
  spawned,    \* the number of children started; the last one is the current
  alive,      \* alive[j]: child j is running
  code,       \* code[j]: its exit code
  printed,    \* half lines the current child has written
  stdout,     \* its end of the pipe is open
  taken,      \* half lines readerLoop() has read
  pushed,     \* lines readerLoop() has put into lines_
  lines,      \* lines_
  reader,     \* the place readerLoop() is at
  proc,       \* proc_ and readPipe_ are open
  childRunning, \* running_
  exitCode    \* exitCode_

childVars  == <<alive, code, printed, stdout>>
readerVars == <<taken, pushed, reader, exitCode>>
procVars   == <<spawned, childVars, readerVars, lines, proc, childRunning>>

Job == 1 .. MaxJobs

\* Lines the current child has printed: a last half line counts, the reader
\* delivers it as the partial line it is.
Lines(halves) == (halves + 1) \div 2

ProcTypeOK == /\ spawned \in 0 .. MaxJobs
              /\ alive \in [Job -> BOOLEAN]
              /\ code \in [Job -> {-1, 0, 1}]
              /\ printed \in 0 .. 2 * LastLine
              /\ stdout \in BOOLEAN
              /\ taken \in 0 .. printed
              /\ pushed \in 0 .. Lines(taken)
              /\ lines \in Seq(Job \X (1 .. LastLine))
              /\ reader \in {"off", "read", "push", "tail", "wait", "clear"}
              /\ proc \in BOOLEAN
              /\ childRunning \in BOOLEAN
              /\ exitCode \in {-1, 0, 1}

ProcInit == /\ spawned = 0
            /\ alive = [j \in Job |-> FALSE]
            /\ code = [j \in Job |-> -1]
            /\ printed = 0
            /\ stdout = FALSE
            /\ taken = 0
            /\ pushed = 0
            /\ lines = <<>>
            /\ reader = "off"
            /\ proc = FALSE
            /\ childRunning = FALSE
            /\ exitCode = -1

-----------------------------------------------------------------------------
\* The child, any program.
WriteHalf == /\ stdout
             /\ printed < 2 * LastLine
             /\ printed' = printed + 1
             /\ UNCHANGED <<spawned, alive, code, stdout, readerVars, lines, proc, childRunning>>

\* It may close its output before it ends ...
CloseOutput == /\ stdout
               /\ stdout' = FALSE
               /\ UNCHANGED <<spawned, alive, code, printed, readerVars, lines, proc, childRunning>>

\* ... ends well when it has printed everything, and may fail at any time.
Exit == /\ spawned > 0 /\ alive[spawned]
        /\ alive' = [alive EXCEPT ![spawned] = FALSE]
        /\ \/ printed = 2 * LastLine /\ code' = [code EXCEPT ![spawned] = 0]
           \/ code' = [code EXCEPT ![spawned] = 1]
        /\ stdout' = FALSE
        /\ UNCHANGED <<spawned, printed, readerVars, lines, proc, childRunning>>

-----------------------------------------------------------------------------
\* readerLoop().

\* ReadFile blocks until there is something to read or no writer is left.
ReadPipe == /\ reader = "read"
            /\ \/ \E n \in taken + 1 .. printed : /\ taken' = n
                                                  /\ reader' = "push"
               \/ /\ taken = printed
                  /\ ~stdout
                  /\ reader' = "tail"
                  /\ UNCHANGED taken
            /\ UNCHANGED <<spawned, childVars, pushed, exitCode, lines, proc, childRunning>>

\* Every line that is complete, each under the lock.
PushLine == /\ reader = "push"
            /\ \/ /\ pushed < taken \div 2
                  /\ lines' = Append(lines, <<spawned, pushed + 1>>)
                  /\ pushed' = pushed + 1
                  /\ UNCHANGED reader
               \/ /\ pushed = taken \div 2
                  /\ reader' = "read"
                  /\ UNCHANGED <<lines, pushed>>
            /\ UNCHANGED <<spawned, childVars, taken, exitCode, proc, childRunning>>

\* if (!partial.empty())
PushTail == /\ reader = "tail"
            /\ \/ /\ taken % 2 = 1
                  /\ lines' = Append(lines, <<spawned, pushed + 1>>)
                  /\ pushed' = pushed + 1
               \/ /\ taken % 2 = 0
                  /\ UNCHANGED <<lines, pushed>>
            /\ reader' = "wait"
            /\ UNCHANGED <<spawned, childVars, taken, exitCode, proc, childRunning>>

\* Mutant: the end of the output is taken for the end of the process.
ReapUnwaited == /\ reader = "wait"
                /\ exitCode' = code[spawned]
                /\ reader' = "clear"
                /\ UNCHANGED <<spawned, childVars, taken, pushed, lines, proc, childRunning>>

\* WaitForSingleObject, GetExitCodeProcess.
ReapChild == /\ reader = "wait"
             /\ ~alive[spawned]
             /\ exitCode' = code[spawned]
             /\ reader' = "clear"
             /\ UNCHANGED <<spawned, childVars, taken, pushed, lines, proc, childRunning>>

\* Mutant: the thread ends with running_ set.
ReaderLeaves == /\ reader = "clear"
                /\ reader' = "off"
                /\ UNCHANGED <<spawned, childVars, taken, pushed, exitCode, lines, proc, childRunning>>

ClearRunning == /\ reader = "clear"
                /\ childRunning' = FALSE
                /\ reader' = "off"
                /\ UNCHANGED <<spawned, childVars, taken, pushed, exitCode, lines, proc>>

ReaderStep == ReadPipe \/ PushLine \/ PushTail \/ ReapChild \/ ClearRunning

-----------------------------------------------------------------------------
\* What the main thread calls.

\* Mutant: kill() only joins.
TerminateNothing == UNCHANGED <<alive, code, stdout>>

\* TerminateProcess, when there is a child and it is believed to run.
Terminate == /\ IF proc /\ childRunning /\ alive[spawned]
                  THEN /\ alive' = [alive EXCEPT ![spawned] = FALSE]
                       /\ code' = [code EXCEPT ![spawned] = 1]
                       /\ stdout' = FALSE
                  ELSE UNCHANGED <<alive, code, stdout>>

\* joinReader() returns when the thread has ended.
Joined == reader = "off"

\* start() after a kill(): CreatePipe or CreateProcess may fail, and then
\* nothing has changed.
StartFails == /\ proc' = FALSE
              /\ UNCHANGED <<spawned, childVars, readerVars, childRunning>>

StartChild == /\ spawned < MaxJobs
              /\ spawned' = spawned + 1
              /\ alive' = [alive EXCEPT ![spawned'] = TRUE]
              /\ printed' = 0
              /\ stdout' = TRUE
              /\ taken' = 0
              /\ pushed' = 0
              /\ proc' = TRUE
              /\ childRunning' = TRUE
              /\ exitCode' = -1
              /\ reader' = "read"
              /\ UNCHANGED code
=============================================================================
