----------------------------- MODULE RemeshApp ------------------------------
(***************************************************************************)
(* The remesh debug app's asynchronous jobs (debug/remesh_app.{h,cc},      *)
(* debug/remesh_debug_app.cc): the frame loop executes the commands of the *)
(* pipe, drains the output of the child process and settles the job, and   *)
(* the panel starts jobs too.  It composes PipeServer (accept thread,      *)
(* clients, main thread) with Subprocess (child, reader thread).           *)
(***************************************************************************)
EXTENDS PipeServer, Subprocess

CONSTANT Commands   \* what a client may ask for: "run" (run_remesh, meshy_gen)
                    \* or "state" (get_state)

ASSUME CommandAssumption == Commands \in [Clients -> (SUBSET {"run", "state"}) \ {{}}]

VARIABLES
  step,      \* where the main thread is within a frame or a startJob()
  job,       \* job_ is not Job::None
  handled,   \* every line handleLine() was given, with the job it was taken for
  settled    \* settled[j]: the exit code update() took for job j

appVars == <<step, job, handled, settled>>
allVars == <<vars, procVars, appVars>>

Open == 2   \* settled[j] of a job that update() has not settled

\* The type invariant.
AppTypeOK == /\ TypeOK /\ ProcTypeOK
             /\ step \in {"rest", "start", "update", "check", "finish", "panel", "gone"}
             /\ job \in BOOLEAN
             /\ handled \in Seq([line : Job \X (1 .. LastLine), as : 0 .. MaxJobs])
             /\ settled \in [Job -> {-1, 0, 1, Open}]

AppInit == /\ Init /\ ProcInit
           /\ step = "rest"
           /\ job = FALSE
           /\ handled = <<>>
           /\ settled = [j \in Job |-> Open]

-----------------------------------------------------------------------------
\* busy() of remesh_app.h.
Busy == job /\ childRunning

\* handleLine() on the lines it is given, for the job that is open.
HandleLines(ls) ==
    handled' = handled \o [i \in DOMAIN ls |-> [line |-> ls[i], as |-> IF job THEN spawned ELSE 0]]

\* Mutant: only the first line of lines_ is given on.
DrainFirst == /\ HandleLines(IF lines = <<>> THEN <<>> ELSE <<Head(lines)>>)
              /\ lines' = <<>>
              /\ UNCHANGED <<spawned, childVars, readerVars, proc, childRunning>>

\* proc_.drain(lines) and its loop.
DrainLines == /\ HandleLines(lines)
              /\ lines' = <<>>
              /\ UNCHANGED <<spawned, childVars, readerVars, proc, childRunning>>

-----------------------------------------------------------------------------
\* startJob(): kill() the previous job's process, then start() the next.

\* The part of kill() before the join.
KillOld == /\ Terminate
           /\ UNCHANGED <<spawned, printed, readerVars, lines, proc, childRunning>>

\* The join is over: the child is started, or not.
StartJob == /\ step = "start"
            /\ Joined
            /\ step' = "rest"
            /\ \/ StartChild /\ job' = TRUE
               \/ StartFails /\ job' = FALSE
            /\ UNCHANGED <<lines, handled, settled>>

\* The panel, once per frame after update(): its buttons are disabled while
\* busy().
PanelRun == /\ step = "panel"
            /\ ~Busy
            /\ KillOld
            /\ step' = "start"
            /\ UNCHANGED <<vars, job, handled, settled>>

PanelIdle == /\ step = "panel"
             /\ step' = "rest"
             /\ UNCHANGED <<vars, procVars, job, handled, settled>>

PanelStart == /\ main = "frame"
              /\ StartJob
              /\ UNCHANGED vars

-----------------------------------------------------------------------------
\* handleCommand() on the main thread.

\* "a job is already running"
RunRefused == /\ step = "rest"
              /\ main = "handle" /\ "run" \in Commands[popped]
              /\ Busy
              /\ HandleCommand
              /\ UNCHANGED <<procVars, appVars>>

RunBegins == /\ step = "rest"
             /\ main = "handle" /\ "run" \in Commands[popped]
             /\ ~Busy
             /\ KillOld
             /\ step' = "start"
             /\ UNCHANGED <<vars, job, handled, settled>>

RunStarts == /\ main = "handle"
             /\ StartJob
             /\ HandleCommand

\* get_state only reads.
GetState == /\ step = "rest"
            /\ main = "handle" /\ "state" \in Commands[popped]
            /\ HandleCommand
            /\ UNCHANGED <<procVars, appVars>>

-----------------------------------------------------------------------------
\* The rest of a frame: update().

FrameDrained == /\ Drained
                /\ step' = "update"
                /\ UNCHANGED <<procVars, job, handled, settled>>

UpdateLines == /\ step = "update"
               /\ DrainLines
               /\ step' = "check"
               /\ UNCHANGED <<vars, job, settled>>

\* if (job_ != Job::None && !proc_.running())
UpdateCheck == /\ step = "check"
               /\ step' = IF job /\ ~childRunning THEN "finish" ELSE "panel"
               /\ UNCHANGED <<vars, procVars, job, handled, settled>>

\* Mutant: the job is settled without a second drain().
FinishUndrained == /\ step = "finish"
                   /\ settled' = [settled EXCEPT ![spawned] = exitCode]
                   /\ job' = FALSE
                   /\ step' = "panel"
                   /\ UNCHANGED <<vars, procVars, handled>>

\* "Catch any lines pushed just before the reader observed child exit", then
\* take the exit code and settle the job.
UpdateFinish == /\ step = "finish"
                /\ DrainLines
                /\ settled' = [settled EXCEPT ![spawned] = exitCode]
                /\ job' = FALSE
                /\ step' = "panel"
                /\ UNCHANGED vars

AppFrame == /\ step = "rest"
            /\ NextFrame
            /\ UNCHANGED <<procVars, appVars>>

\* ~RemeshApp() after stop(): ~Subprocess() kills the child and joins.
Destroy == /\ main = "gone"
           /\ \/ /\ step = "rest"
                 /\ KillOld
                 /\ step' = "start"
              \/ /\ step = "start"
                 /\ Joined
                 /\ step' = "gone"
                 /\ proc' = FALSE
                 /\ UNCHANGED <<spawned, childVars, readerVars, lines, childRunning>>
           /\ UNCHANGED <<vars, job, handled, settled>>

AppStop == /\ step = "rest"
           /\ Stop \/ Purge \/ WakeAccept \/ Join
           /\ UNCHANGED <<procVars, appVars>>

-----------------------------------------------------------------------------
MainThread == \/ RunRefused \/ RunBegins \/ RunStarts \/ GetState
              \/ FrameDrained \/ UpdateLines \/ UpdateCheck \/ UpdateFinish
              \/ AppFrame
              \/ /\ PopCommand
                 /\ UNCHANGED <<procVars, appVars>>

AppNext == \/ /\ ClientStep \/ AcceptStep
              /\ UNCHANGED <<procVars, appVars>>
           \/ /\ WriteHalf \/ CloseOutput \/ Exit \/ ReaderStep
              /\ UNCHANGED <<vars, appVars>>
           \/ MainThread
           \/ PanelRun \/ PanelStart \/ PanelIdle
           \/ AppStop
           \/ Destroy

\* The threads of the app run, and while the window is open a child ends sooner
\* or later; the user need not press a button or close the window.
AppFairness ==
    /\ WF_allVars(AcceptStep /\ UNCHANGED <<procVars, appVars>>)
    /\ SF_allVars(CreatePipe /\ UNCHANGED <<procVars, appVars>>)
    /\ WF_allVars(ReaderStep /\ UNCHANGED <<vars, appVars>>)
    /\ WF_allVars(Exit /\ running /\ UNCHANGED <<vars, appVars>>)
    /\ WF_allVars(MainThread \/ PanelStart \/ PanelIdle)
    /\ WF_allVars((Purge \/ WakeAccept \/ Join) /\ UNCHANGED <<procVars, appVars>>)
    /\ WF_allVars(Destroy)
    /\ \A c \in Clients \ Rude :
         WF_allVars((WriteLine(c) \/ TakeReply(c)) /\ UNCHANGED <<procVars, appVars>>)

AppSpec == AppInit /\ [][AppNext]_allVars /\ AppFairness

-----------------------------------------------------------------------------
\* Properties.

\* One child at a time: a job is started only when the process of the last one
\* has ended, whether the pipe or the panel asks for it.
OneChild == \A i, j \in Job : alive[i] /\ alive[j] => i = j

\* Lines as they were handled and, behind them, those still in lines_.
Received == [i \in DOMAIN handled |-> handled[i].line] \o lines

InOrder == \A i \in DOMAIN Received :
             LET j == Received[i][1]
                 n == Received[i][2]
             IN  \/ i > 1 /\ Received[i - 1] = <<j, n - 1>>
                 \/ n = 1 /\ \A k \in 1 .. i - 1 : Received[k][1] < j

\* What the app has handled and what is still in lines_ is what the children
\* printed, in order: no line is lost, repeated or overtaken, and everything
\* the reader has delivered of the current job is there.
LinesIntact ==
    /\ InOrder
    /\ \A n \in 1 .. pushed : \E i \in DOMAIN Received : Received[i] = <<spawned, n>>

\* update() settles a job only when its process has ended, with that process's
\* exit code and all of its output handled: running() is read before the second
\* drain(), and the reader clears it last.
SettledIsComplete ==
    [][\A j \in Job : settled[j] = Open /\ settled'[j] # Open =>
         /\ ~alive[j]
         /\ settled'[j] = code[j]
         /\ \A n \in 1 .. Lines(printed) :
              \E i \in DOMAIN handled' : handled'[i] = [line |-> <<j, n>>, as |-> j]]_allVars

\* A job does not stay open: it is settled, a later startJob() replaces it, or
\* the window is closed.
JobsSettle == \A j \in Job :
                spawned = j /\ job ~> ~job \/ spawned > j \/ ~running

\* Once stop() has returned the app goes away, whether or not its last job
\* would ever have ended: kill() gives the reader its end of file.
AppCloses == main = "gone" ~> step = "gone"
=============================================================================
