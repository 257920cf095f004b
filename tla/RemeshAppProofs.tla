--------------------------- MODULE RemeshAppProofs ---------------------------
(***************************************************************************)
(* Proofs about PipeServer for any set of clients, polite or rude: its     *)
(* state is typed, a waiting accept thread's command can be found, every   *)
(* client reads its own reply, and the server implements the safety part   *)
(* of its CommandChannel.                                                  *)
(*                                                                         *)
(* Proofs about RemeshApp for any set of clients, any number of jobs and   *)
(* any length of their output: the application keeps the pipe server's     *)
(* invariant, runs one child at a time, handles its lines in order and     *)
(* settles a job with its own exit code and all of its lines.              *)
(*                                                                         *)
(* The argument: the reader thread lives from the start of a child until   *)
(* after its end, and running_ is up exactly as long (ReaderInv); the      *)
(* place it is at says how much of the output has reached lines_           *)
(* (DeliveryInv); what was handled and what waits in lines_ is one         *)
(* sequence, whose last line is the last one delivered (LastInv).          *)
(***************************************************************************)
EXTENDS RemeshApp, SequenceTheorems, TLAPS

-----------------------------------------------------------------------------
(* The control pipe.                                                       *)

\* The reply a client of the pipe instance is owed: none before its command is
\* queued, pending while the accept thread waits for it.
Before == {"connect", "test", "read", "push"}
Serving == {"test", "read", "push", "wait", "flush"}

\* The pipe instance follows the accept thread.
PipeInv == /\ instance = "connected" <=> peer # None
           /\ accept \in {"loop", "create", "exit"} => instance = "none"
           /\ accept = "connect" => instance # "none"
           /\ accept \in Serving => peer \in Clients
           /\ peer = Wake => ~running
           /\ peer \in Clients => client[peer] # "idle"
           /\ \A c \in Clients : Holding(c) => peer = c

\* The main thread's place tells whether it runs and whether it has a command.
MainInv == /\ running <=> main \in {"frame", "drain", "handle"}
           /\ popped = None <=> main # "handle"

\* A promise is made at the push and settled while the accept thread waits.
PromiseInv == /\ \A c \in Clients : client[c] = "idle" => promise[c] = "none"
              /\ accept \in Before /\ peer \in Clients => promise[peer] = "none"
              /\ accept = "wait" => promise[peer] # "none"
              /\ \/ accept = "wait" /\ promise[peer] = "pending"
                 \/ queue = <<>> /\ popped = None
              /\ out # "none" => accept = "flush" /\ (out = "blank" \/ out = promise[peer])

Inv == TypeOK /\ PipeInv /\ MainInv /\ PromiseInv /\ WaiterHasCommand /\ OwnReply

\* The invariant holds when start() returns.
LEMMA InitInv == Init => Inv
  BY ClientAssumption DEF Init, Inv, TypeOK, PipeInv, MainInv, PromiseInv, WaiterHasCommand,
     OwnReply, AcceptPlaces, MainPlaces, Texts, Replies, Before, Serving, Holding

\* No step of a client breaks it.
LEMMA ClientInv == Inv /\ ClientStep => Inv'
<1> SUFFICES ASSUME Inv, NEW c \in Clients,
                    Connect(c) \/ WritePart(c) \/ WriteLine(c) \/ TakeReply(c) \/ CloseHandle(c)
             PROVE  Inv'
  BY DEF ClientStep
<1> USE ClientAssumption DEF Inv, TypeOK, PipeInv, MainInv, PromiseInv, WaiterHasCommand, OwnReply, AcceptPlaces, MainPlaces, Texts, Replies, Before, Serving, Holding, acceptVars, pipeVars, queueVars, mainVars
<1>1. CASE Connect(c)
  BY <1>1 DEF Connect
<1>2. CASE WritePart(c)
  BY <1>2 DEF WritePart
<1>3. CASE WriteLine(c)
  BY <1>3 DEF WriteLine
<1>4. CASE TakeReply(c)
  BY <1>4 DEF TakeReply
<1>5. CASE CloseHandle(c)
  BY <1>5 DEF CloseHandle
<1>6. QED
  BY <1>1, <1>2, <1>3, <1>4, <1>5

\* No step of the accept thread breaks it.
LEMMA AcceptInv == Inv /\ AcceptStep => Inv'
<1> SUFFICES ASSUME Inv, AcceptStep PROVE Inv'
  OBVIOUS
<1> USE ClientAssumption DEF Inv, TypeOK, PipeInv, MainInv, PromiseInv, WaiterHasCommand, OwnReply, AcceptPlaces, MainPlaces, Texts, Replies, Before, Serving, Holding, acceptVars, pipeVars, queueVars, mainVars, PeerGone, Disconnect
<1>1. CASE LoopTest
  BY <1>1 DEF LoopTest
<1>2. CASE CreatePipe
  BY <1>2 DEF CreatePipe
<1>3. CASE CreateFails
  BY <1>3 DEF CreateFails
<1>4. CASE Accepted
  BY <1>4 DEF Accepted
<1>5. CASE ReadTest
  BY <1>5 DEF ReadTest
<1>6. CASE Read
  BY <1>6 DEF Read
<1>7. CASE PushCommand
  <2>1. queue = <<>> /\ popped = None /\ peer \in Clients /\ promise[peer] = "none"
    BY <1>7 DEF PushCommand
  <2>2. Append(queue, peer) = <<peer>> /\ <<peer>> \in Seq(Clients)
    BY <2>1
  <2>3. CASE in # "empty"
    <3>1. /\ queue' = <<peer>> /\ queue' \in Seq(Clients)
          /\ promise' = [promise EXCEPT ![peer] = "pending"]
          /\ accept' = "wait" /\ in' = "empty"
          /\ UNCHANGED <<instance, peer, wire, out, client, running, main, popped>>
      BY <1>7, <2>1, <2>2, <2>3 DEF PushCommand
    <3>2. TypeOK'
      BY <2>1, <3>1
    <3>6. PipeInv' /\ MainInv'
      BY <2>1, <3>1
    <3>3. PromiseInv' /\ OwnReply'
      BY <1>7, <2>1, <3>1 DEF PushCommand
    <3>4. WaiterHasCommand'
      <4>1. queue' = <<peer'>> /\ popped' = None
        BY <2>1, <3>1
      <4>2. \A c \in Clients : promise'[c] = "pending" => accept' = "wait" /\ peer' = c
        BY <1>7, <2>1, <3>1 DEF PushCommand
      <4>3. QED
        BY <4>1, <4>2
    <3>5. QED
      BY <3>2, <3>3, <3>4, <3>6
  <2>4. CASE in = "empty"
    BY <1>7, <2>1, <2>4 DEF PushCommand
  <2>5. QED
    BY <2>3, <2>4
<1>8. CASE GetReply
  BY <1>8 DEF GetReply
<1>9. CASE Flush
  BY <1>9 DEF Flush
<1>10. QED
  BY <1>1, <1>2, <1>3, <1>4, <1>5, <1>6, <1>7, <1>8, <1>9 DEF AcceptStep

\* The purge settles the one command that can be in the queue.
LEMMA PurgeEffect ==
  Inv /\ Purge =>
    \/ queue = <<>> /\ promise' = promise
    \/ /\ queue = <<peer>> /\ peer \in Clients /\ promise[peer] = "pending" /\ popped = None
       /\ promise' = [promise EXCEPT ![peer] = "shutdown"]
<1> SUFFICES ASSUME Inv, Purge
             PROVE  \/ queue = <<>> /\ promise' = promise
                    \/ /\ queue = <<peer>> /\ peer \in Clients /\ promise[peer] = "pending" /\ popped = None
                       /\ promise' = [promise EXCEPT ![peer] = "shutdown"]
  OBVIOUS
<1>1. CASE queue = <<>>
  BY <1>1 DEF Purge, Inv, TypeOK
<1>2. CASE queue # <<>>
  <2>1. queue = <<peer>> /\ popped = None /\ peer \in Clients /\ promise[peer] = "pending"
    BY <1>2 DEF Inv, TypeOK, PromiseInv, PipeInv, WaiterHasCommand, Serving
  <2>2. DOMAIN queue = {1} /\ queue[1] = peer
    BY <2>1
  <2>3. \A c \in Clients : (\E i \in DOMAIN queue : queue[i] = c) <=> c = peer
    BY <2>2
  <2>4. QED
    BY <2>1, <2>3 DEF Purge, Inv, TypeOK
<1>3. QED
  BY <1>1, <1>2

\* No step of the main thread breaks it.
LEMMA MainInvStep == Inv /\ MainStep => Inv'
<1> SUFFICES ASSUME Inv, MainStep PROVE Inv'
  OBVIOUS
<1> USE ClientAssumption DEF Inv, TypeOK, PipeInv, MainInv, PromiseInv, WaiterHasCommand, OwnReply, AcceptPlaces, MainPlaces, Texts, Replies, Before, Serving, Holding, acceptVars, pipeVars, queueVars, mainVars
<1>1. CASE NextFrame
  BY <1>1 DEF NextFrame
<1>2. CASE PopCommand
  <2>1. queue = <<peer>> /\ popped = None /\ peer \in Clients
    BY <1>2 DEF PopCommand
  <2>2. Head(queue) = peer /\ Tail(queue) = <<>>
    BY <2>1
  <2>3. /\ queue' = <<>> /\ popped' = peer /\ main' = "handle"
        /\ UNCHANGED <<running, promise, accept, in, instance, peer, wire, out, client>>
    BY <1>2, <2>1, <2>2 DEF PopCommand
  <2>4. TypeOK' /\ PipeInv' /\ MainInv' /\ OwnReply'
    BY <1>2, <2>1, <2>3 DEF PopCommand
  <2>5. PromiseInv' /\ WaiterHasCommand'
    <3>1. accept = "wait" /\ promise[peer] = "pending"
      BY <2>1
    <3>2. PromiseInv'
      <4>1. accept' = "wait" /\ promise'[peer'] = "pending"
        BY <2>3, <3>1
      <4>2. out' = "none"
        BY <2>3, <3>1
      <4>3. \A c \in Clients : client'[c] = "idle" => promise'[c] = "none"
        BY <2>3
      <4>4. QED
        BY <4>1, <4>2, <4>3
    <3>3. queue' = <<>> /\ popped' = peer'
      BY <2>1, <2>3
    <3>4. \A c \in Clients : promise'[c] = "pending" => accept' = "wait" /\ peer' = c
      BY <2>3
    <3>5. QED
      BY <3>2, <3>3, <3>4
  <2>6. QED
    BY <2>4, <2>5
<1>3. CASE HandleCommand
  BY <1>3 DEF HandleCommand
<1>4. CASE Drained
  BY <1>4 DEF Drained
<1>5. CASE Stop
  <2>1. /\ running' = FALSE /\ main = "frame" /\ main' = "purge"
        /\ UNCHANGED <<popped, accept, in, instance, peer, wire, out, client, queue, promise>>
    BY <1>5 DEF Stop
  <2>2. TypeOK' /\ PipeInv' /\ MainInv'
    <3>1. TypeOK'
      BY <2>1
    <3>2. PipeInv'
      BY <2>1
    <3>3. MainInv'
      BY <2>1
    <3> QED BY <3>1, <3>2, <3>3
  <2>3. PromiseInv' /\ WaiterHasCommand' /\ OwnReply'
    BY <2>1
  <2>4. QED
    BY <2>2, <2>3
<1>6. CASE Purge
  <2>1. \/ queue = <<>> /\ promise' = promise
        \/ /\ queue = <<peer>> /\ peer \in Clients /\ promise[peer] = "pending" /\ popped = None
           /\ promise' = [promise EXCEPT ![peer] = "shutdown"]
    BY <1>6, PurgeEffect
  <2>2. queue' = <<>> /\ ~running /\ main = "purge" /\ main' = "wake"
    BY <1>6 DEF Purge
  <2>3. UNCHANGED <<running, popped, accept, in, instance, peer, wire, out, client>>
    BY <1>6 DEF Purge
  <2>4. QED
    BY <2>1, <2>2, <2>3
<1>7. CASE WakeAccept
  BY <1>7 DEF WakeAccept
<1>8. CASE Join
  BY <1>8 DEF Join
<1>9. QED
  BY <1>1, <1>2, <1>3, <1>4, <1>5, <1>6, <1>7, <1>8 DEF MainStep

-----------------------------------------------------------------------------
\* The invariant is inductive.
LEMMA InvStep == Inv /\ [Next]_vars => Inv'
<1> SUFFICES ASSUME Inv, [Next]_vars PROVE Inv'
  OBVIOUS
<1>1. CASE ClientStep
  BY <1>1, ClientInv
<1>2. CASE AcceptStep
  BY <1>2, AcceptInv
<1>3. CASE MainStep
  BY <1>3, MainInvStep
<1>4. CASE UNCHANGED vars
  BY <1>4 DEF Inv, TypeOK, PipeInv, MainInv, PromiseInv, WaiterHasCommand, OwnReply, Holding,
     vars, acceptVars, pipeVars, queueVars, mainVars
<1>5. QED
  BY <1>1, <1>2, <1>3, <1>4 DEF Next

LEMMA Invariant == Safe => []Inv
<1>1. Inv /\ [Next]_vars => Inv'
  BY InvStep
<1>2. QED
  BY InitInv, <1>1, PTL DEF Safe

\* The state of the server stays typed (remesh_pipe_server.h:46-57).
THEOREM Typed == Spec => []TypeOK
  BY Invariant, PTL DEF Spec, Inv

\* While acceptLoop() waits for a reply its command is the only one pending and
\* is in the queue or in the hands of the main thread.
THEOREM WaitersAreServed == Spec => []WaiterHasCommand
  BY Invariant, PTL DEF Spec, Inv

\* No client is ever given the reply to another client's command.
THEOREM RepliesAreOwn == Spec => []OwnReply
  BY Invariant, PTL DEF Spec, Inv

-----------------------------------------------------------------------------
\* What a step does to the channel.

ChanMap == [c \in Clients |-> Phase(c)]

\* A command whose promise did not change and that was not popped or finished
\* is where it was.
LEMMA PhaseKept ==
  ASSUME NEW c \in Clients, promise'[c] = promise[c],
         promise[c] = "pending" => (popped' = c <=> popped = c)
  PROVE  Phase(c)' = Phase(c)
  BY DEF Phase

LEMMA ChannelKept ==
  ASSUME UNCHANGED <<running, promise, popped>>
  PROVE  UNCHANGED <<running, ChanMap>>
  BY DEF ChanMap, Phase

LEMMA InitRefines == Init => Channel!ChanInit
  BY DEF Init, Channel!ChanInit, Phase

\* Every step of the server is a step of the channel or leaves it alone.
LEMMA StepRefines == Inv /\ [Next]_vars => [Channel!ChanNext]_<<running, ChanMap>>
<1> SUFFICES ASSUME Inv, [Next]_vars PROVE [Channel!ChanNext]_<<running, ChanMap>>
  OBVIOUS
<1> USE ClientAssumption DEF Inv, TypeOK, PipeInv, MainInv, PromiseInv, WaiterHasCommand, Serving, Before
<1>1. CASE ClientStep
  BY <1>1, ChannelKept DEF ClientStep, Connect, WritePart, WriteLine, TakeReply, CloseHandle,
     queueVars, mainVars
<1>2. CASE LoopTest \/ CreatePipe \/ CreateFails \/ Accepted \/ ReadTest \/ Read \/ GetReply \/ Flush
  BY <1>2, ChannelKept DEF LoopTest, CreatePipe, CreateFails, Accepted, ReadTest, Read, GetReply,
     Flush, queueVars, mainVars
<1>3. CASE PushCommand
  <2>1. CASE in = "empty"
    BY <1>3, <2>1, ChannelKept DEF PushCommand, queueVars, mainVars
  <2>2. CASE in # "empty"
    <3>1. /\ peer \in Clients
          /\ promise[peer] = "none" /\ popped = None
          /\ promise' = [promise EXCEPT ![peer] = "pending"]
          /\ UNCHANGED <<running, popped>>
      BY <1>3, <2>2 DEF PushCommand, mainVars
    <3>2. \A c \in Clients : promise[c] # "pending"
      BY <1>3 DEF PushCommand
    <3>3. ChanMap' = [ChanMap EXCEPT ![peer] = "accepted"]
      BY <3>1, <3>2 DEF ChanMap, Phase
    <3>4. ChanMap[peer] = "none" /\ \A c \in Clients : ChanMap[c] \notin {"accepted", "executing"}
      BY <3>1, <3>2 DEF ChanMap, Phase
    <3>5. Channel!Accept(peer)
      BY <3>1, <3>3, <3>4 DEF Channel!Accept, Channel!Owed, ChanMap
    <3>6. QED
      BY <3>1, <3>5 DEF Channel!ChanNext
  <2>3. QED
    BY <2>1, <2>2
<1>4. CASE NextFrame \/ Drained \/ WakeAccept \/ Join
  BY <1>4, ChannelKept DEF NextFrame, Drained, WakeAccept, Join, queueVars
<1>5. CASE PopCommand
  <2>1. queue = <<peer>> /\ popped = None /\ peer \in Clients /\ promise[peer] = "pending" /\ running
    BY <1>5 DEF PopCommand
  <2>2. popped' = peer /\ UNCHANGED <<running, promise>>
    BY <1>5, <2>1 DEF PopCommand
  <2>3. ChanMap' = [ChanMap EXCEPT ![peer] = "executing"] /\ ChanMap[peer] = "accepted"
    BY <2>1, <2>2 DEF ChanMap, Phase
  <2>4. Channel!Execute(peer)
    BY <2>1, <2>2, <2>3 DEF Channel!Execute, ChanMap
  <2>5. QED
    BY <2>1, <2>4 DEF Channel!ChanNext
<1>6. CASE HandleCommand
  <2>1. popped \in Clients /\ running /\ promise[popped] = "pending"
    BY <1>6 DEF HandleCommand
  <2>2. /\ promise' = [promise EXCEPT ![popped] = "result"]
        /\ popped' = None
        /\ UNCHANGED running
    BY <1>6 DEF HandleCommand
  <2>3. ChanMap' = [ChanMap EXCEPT ![popped] = "answered"] /\ ChanMap[popped] = "executing"
    BY <2>1, <2>2 DEF ChanMap, Phase
  <2>4. Channel!Answer(popped)
    BY <2>1, <2>2, <2>3 DEF Channel!Answer, ChanMap
  <2>5. QED
    BY <2>1, <2>4 DEF Channel!ChanNext
<1>7. CASE Stop
  <2>1. popped = None /\ running /\ ~running' /\ UNCHANGED <<promise, popped>>
    BY <1>7 DEF Stop, queueVars
  <2>2. ChanMap' = ChanMap /\ \A c \in Clients : ChanMap[c] # "executing"
    BY <2>1 DEF ChanMap, Phase
  <2>3. Channel!Close
    BY <2>1, <2>2 DEF Channel!Close, ChanMap
  <2>4. QED
    BY <2>3 DEF Channel!ChanNext
<1>8. CASE Purge
  <2>1. ~running /\ UNCHANGED <<running, popped>>
    BY <1>8 DEF Purge
  <2>2. CASE queue = <<>> /\ promise' = promise
    BY <2>1, <2>2, ChannelKept
  <2>3. CASE /\ queue = <<peer>> /\ peer \in Clients /\ promise[peer] = "pending" /\ popped = None
             /\ promise' = [promise EXCEPT ![peer] = "shutdown"]
    <3>3. ChanMap' = [ChanMap EXCEPT ![peer] = "refused"] /\ ChanMap[peer] = "accepted"
      BY <2>1, <2>3 DEF ChanMap, Phase
    <3>4. Channel!Refuse(peer)
      BY <2>1, <2>3, <3>3 DEF Channel!Refuse, ChanMap
    <3>5. QED
      BY <2>3, <3>4 DEF Channel!ChanNext
  <2>4. QED
    BY <1>8, <2>2, <2>3, PurgeEffect
<1>9. CASE UNCHANGED vars
  BY <1>9, ChannelKept DEF vars, queueVars, mainVars
<1>10. QED
  BY <1>1, <1>2, <1>3, <1>4, <1>5, <1>6, <1>7, <1>8, <1>9 DEF Next, AcceptStep, MainStep

\* The server implements its channel: commands are executed one at a time, each
\* at most once, and refused only when stop() has been called.
THEOREM Implements == Spec => ChannelSafe
<1>1. Inv /\ [Next]_vars => [Channel!ChanNext]_Channel!chanVars
  BY StepRefines DEF Channel!chanVars, ChanMap
<1>2. QED
  BY InitRefines, Invariant, <1>1, PTL DEF Spec, Safe, ChannelSafe, Channel!ChanSafe

-----------------------------------------------------------------------------
(* The application and its jobs.                                           *)

\* The types, but for the two sequences of lines.
FlatTypeOK ==
  /\ spawned \in 0 .. MaxJobs
  /\ alive \in [Job -> BOOLEAN]
  /\ code \in [Job -> {-1, 0, 1}]
  /\ printed \in 0 .. 2 * LastLine
  /\ stdout \in BOOLEAN
  /\ taken \in 0 .. printed
  /\ pushed \in 0 .. Lines(taken)
  /\ reader \in {"off", "read", "push", "tail", "wait", "clear"}
  /\ proc \in BOOLEAN
  /\ childRunning \in BOOLEAN
  /\ exitCode \in {-1, 0, 1}
  /\ step \in {"rest", "start", "update", "check", "finish", "panel", "gone"}
  /\ job \in BOOLEAN
  /\ settled \in [Job -> {-1, 0, 1, Open}]

\* The reader thread outlives the child, and running_ lasts as long as it does.
ReaderInv ==
  /\ reader # "off" => spawned > 0
  /\ childRunning <=> reader # "off"
  /\ \A j \in Job : alive[j] => j = spawned /\ reader \in {"read", "push", "tail", "wait"}
  /\ stdout => spawned > 0 /\ alive[spawned]
  /\ reader \in {"off", "clear"} /\ spawned > 0 => exitCode = code[spawned]
  /\ job => spawned > 0
  /\ step = "finish" => job /\ reader = "off"

\* What of the output has been read, and what of that is in lines_.
DeliveryInv ==
  /\ reader \in {"tail", "wait", "clear", "off"} => taken = printed /\ ~stdout
  /\ reader \in {"read", "tail"} => pushed = taken \div 2
  /\ reader = "push" => pushed <= taken \div 2
  /\ reader \in {"wait", "clear", "off"} => pushed = Lines(taken)

FlatInv == FlatTypeOK /\ ReaderInv /\ DeliveryInv

\* The state of the child, its reader and the job.
jobVars == <<spawned, childVars, readerVars, proc, childRunning, job, settled>>

-----------------------------------------------------------------------------
(* What a step of the application does to the job.                         *)

LEMMA FlatInit == AppInit => FlatInv
<1> SUFFICES ASSUME AppInit PROVE FlatInv
  OBVIOUS
<1> USE JobAssumption DEF AppInit, ProcInit, Job
<1>1. Lines(0) = 0
  BY DEF Lines
<1>2. FlatTypeOK
  <2>1. /\ spawned \in 0 .. MaxJobs /\ printed \in 0 .. 2 * LastLine
        /\ taken \in 0 .. printed /\ pushed \in 0 .. Lines(taken)
    BY <1>1
  <2>2. alive \in [Job -> BOOLEAN] /\ code \in [Job -> {-1, 0, 1}]
    OBVIOUS
  <2>3. settled \in [Job -> {-1, 0, 1, Open}]
    OBVIOUS
  <2> QED
    BY <2>1, <2>2, <2>3 DEF FlatTypeOK
<1>3. ReaderInv
  BY DEF ReaderInv
<1>4. DeliveryInv
  BY <1>1 DEF DeliveryInv
<1> QED
  BY <1>2, <1>3, <1>4 DEF FlatInv

\* A step that leaves the job alone.
LEMMA FlatKept ==
  ASSUME FlatInv, UNCHANGED jobVars,
         step' \in {"rest", "start", "update", "check", "finish", "panel", "gone"},
         step' = "finish" => job /\ reader = "off"
  PROVE  FlatInv'
BY DEF jobVars, FlatInv, FlatTypeOK, ReaderInv, DeliveryInv, childVars, readerVars, Lines

LEMMA FlatChild ==
  ASSUME FlatInv, UNCHANGED appVars, WriteHalf \/ CloseOutput \/ Exit
  PROVE  FlatInv'
<1> USE JobAssumption
    DEF FlatInv, FlatTypeOK, ReaderInv, DeliveryInv, appVars, readerVars, Lines, Job
<1>1. CASE WriteHalf
  BY <1>1 DEF WriteHalf
<1>2. CASE CloseOutput
  BY <1>2 DEF CloseOutput
<1>3. CASE Exit
  <2>1. /\ spawned \in Job /\ alive' = [alive EXCEPT ![spawned] = FALSE]
        /\ code' = [code EXCEPT ![spawned] = 0] \/ code' = [code EXCEPT ![spawned] = 1]
        /\ alive[spawned] /\ ~stdout'
        /\ UNCHANGED <<spawned, printed, taken, pushed, reader, exitCode, proc, childRunning>>
    BY <1>3 DEF Exit
  <2>2. alive' \in [Job -> BOOLEAN] /\ code' \in [Job -> {-1, 0, 1}] /\ stdout' \in BOOLEAN
    BY <1>3, <2>1 DEF Exit
  <2>3. FlatTypeOK'
    BY <2>1, <2>2
  <2>4. ReaderInv'
    BY <2>1
  <2>5. DeliveryInv'
    BY <2>1
  <2> QED
    BY <2>3, <2>4, <2>5
<1> QED
  BY <1>1, <1>2, <1>3

LEMMA FlatReader ==
  ASSUME FlatInv, UNCHANGED appVars, ReaderStep
  PROVE  FlatInv'
<1> USE JobAssumption
    DEF FlatInv, FlatTypeOK, ReaderInv, DeliveryInv, appVars, childVars, Lines, Job
<1>1. CASE ReadPipe
  BY <1>1 DEF ReadPipe
<1>2. CASE PushLine
  BY <1>2 DEF PushLine
<1>3. CASE PushTail
  BY <1>3 DEF PushTail
<1>4. CASE ReapChild
  BY <1>4 DEF ReapChild
<1>5. CASE ClearRunning
  BY <1>5 DEF ClearRunning
<1> QED
  BY <1>1, <1>2, <1>3, <1>4, <1>5 DEF ReaderStep

\* kill() before its join.
LEMMA FlatKill ==
  ASSUME FlatInv, KillOld, step' = "start", UNCHANGED <<job, settled>>
  PROVE  FlatInv'
<1> USE JobAssumption
    DEF FlatInv, FlatTypeOK, ReaderInv, DeliveryInv, KillOld, readerVars, Lines, Job
<1>1. CASE UNCHANGED <<alive, code, stdout>>
  BY <1>1
<1>2. CASE /\ childRunning /\ alive[spawned]
           /\ alive' = [alive EXCEPT ![spawned] = FALSE]
           /\ code' = [code EXCEPT ![spawned] = 1]
           /\ stdout' = FALSE
  <2>1. spawned \in Job /\ reader \in {"read", "push", "tail", "wait"}
    BY <1>2
  <2>2. FlatTypeOK'
    BY <1>2, <2>1
  <2>3. ReaderInv'
    BY <1>2, <2>1
  <2>4. DeliveryInv'
    BY <1>2
  <2> QED
    BY <2>2, <2>3, <2>4
<1> QED
  BY <1>1, <1>2 DEF Terminate

\* The next child is started only when the reader of the last one has ended.
LEMMA FlatStart ==
  ASSUME FlatInv, StartJob
  PROVE  FlatInv'
<1> USE JobAssumption
    DEF FlatInv, FlatTypeOK, ReaderInv, DeliveryInv, StartJob, Joined, Lines, Job
<1>1. CASE StartChild /\ job' = TRUE
  <2>1. /\ spawned' = spawned + 1 /\ spawned' \in Job
        /\ alive' = [alive EXCEPT ![spawned'] = TRUE]
        /\ printed' = 0 /\ stdout' /\ taken' = 0 /\ pushed' = 0 /\ proc' /\ childRunning'
        /\ exitCode' = -1 /\ reader' = "read" /\ code' = code /\ settled' = settled
        /\ step' = "rest"
    BY <1>1 DEF StartChild
  <2>2. FlatTypeOK'
    BY <1>1, <2>1
  <2>3. \A j \in Job : ~alive[j]
    OBVIOUS
  <2>4. ReaderInv'
    BY <1>1, <2>1, <2>3
  <2>5. DeliveryInv'
    BY <2>1
  <2> QED
    BY <2>2, <2>4, <2>5
<1>2. CASE StartFails /\ job' = FALSE
  BY <1>2 DEF StartFails, childVars, readerVars
<1> QED
  BY <1>1, <1>2

LEMMA FlatFinish ==
  ASSUME FlatInv, UpdateFinish
  PROVE  FlatInv'
BY JobAssumption
   DEF FlatInv, FlatTypeOK, ReaderInv, DeliveryInv, UpdateFinish, DrainLines, childVars,
       readerVars, Lines, Job

\* The destructor's join is over.
LEMMA FlatDestroyed ==
  ASSUME FlatInv, proc' = FALSE, step' = "gone", step # "finish",
         UNCHANGED <<spawned, childVars, readerVars, childRunning, job, settled>>
  PROVE  FlatInv'
BY DEF FlatInv, FlatTypeOK, ReaderInv, DeliveryInv, childVars, readerVars, Lines

-----------------------------------------------------------------------------
(* The lines.                                                              *)

Line == Job \X (1 .. LastLine)
Handled == [line : Line, as : 0 .. MaxJobs]

SeqTypeOK == lines \in Seq(Line) /\ handled \in Seq(Handled)

\* The last line received is the last one delivered of the current job, or the
\* job has delivered none yet.
LastInv ==
  /\ \A i \in DOMAIN Received : Received[i][1] <= spawned
  /\ pushed = 0 => \A i \in DOMAIN Received : Received[i][1] < spawned
  /\ pushed > 0 => /\ Len(Received) > 0
                   /\ Received[Len(Received)] = <<spawned, pushed>>

\* While a job is open its lines are taken for it.
OwnInv == job => \A i \in DOMAIN handled :
                   handled[i].line[1] = spawned => handled[i].as = spawned

LineInv == SeqTypeOK /\ LastInv /\ OwnInv /\ LinesIntact

HandledLines == [i \in DOMAIN handled |-> handled[i].line]

LEMMA HandledIs ==
  ASSUME SeqTypeOK
  PROVE  HandledLines \in Seq(Line) /\ Len(HandledLines) = Len(handled)
<1>1. Len(handled) \in Nat /\ DOMAIN handled = 1 .. Len(handled)
      /\ \A i \in 1 .. Len(handled) : handled[i].line \in Line
  <2>1. handled \in Seq(Handled)
    BY DEF SeqTypeOK
  <2>2. \A i \in 1 .. Len(handled) : handled[i] \in Handled
    BY <2>1, ElementOfSeq
  <2> QED
    BY <2>1, <2>2, LenProperties DEF Handled
<1>2. HandledLines \in [1 .. Len(handled) -> Line]
  BY <1>1 DEF HandledLines
<1> QED
  BY <1>1, <1>2

LEMMA ReceivedIs ==
  ASSUME SeqTypeOK
  PROVE  /\ Received = HandledLines \o lines
         /\ Received \in Seq(Line)
         /\ Len(Received) = Len(handled) + Len(lines)
         /\ DOMAIN Received = 1 .. Len(Received)
         /\ \A i \in 1 .. Len(Received) :
              Received[i] = IF i <= Len(handled) THEN handled[i].line
                            ELSE lines[i - Len(handled)]
<1>1. Received = HandledLines \o lines
  BY DEF Received, HandledLines
<1>2. HandledLines \in Seq(Line) /\ Len(HandledLines) = Len(handled)
      /\ lines \in Seq(Line) /\ handled \in Seq(Handled)
  BY HandledIs DEF SeqTypeOK
<1>3. \A i \in 1 .. Len(handled) : HandledLines[i] = handled[i].line
  BY <1>2, LenProperties DEF HandledLines
<1>4. /\ HandledLines \o lines \in Seq(Line)
      /\ Len(HandledLines \o lines) = Len(handled) + Len(lines)
      /\ \A i \in 1 .. Len(handled) + Len(lines) :
           (HandledLines \o lines)[i] = IF i <= Len(handled) THEN HandledLines[i]
                                        ELSE lines[i - Len(handled)]
  <2>1. /\ HandledLines \o lines \in Seq(Line)
        /\ Len(HandledLines \o lines) = Len(HandledLines) + Len(lines)
        /\ \A i \in 1 .. Len(HandledLines) + Len(lines) :
             (HandledLines \o lines)[i] = IF i <= Len(HandledLines) THEN HandledLines[i]
                                          ELSE lines[i - Len(HandledLines)]
    BY <1>2, ConcatProperties, Zenon
  <2> QED
    BY <1>2, <2>1, Zenon
<1>5. Len(handled) \in Nat /\ Len(lines) \in Nat
  BY <1>2, LenProperties
<1>6. DOMAIN (HandledLines \o lines) = 1 .. Len(HandledLines \o lines)
  BY <1>4, LenProperties
<1> HIDE DEF HandledLines
<1> QED
  BY <1>1, <1>3, <1>4, <1>5, <1>6

LEMMA ReceivedIsNext ==
  SeqTypeOK' => /\ Received' \in Seq(Line)
                /\ Len(Received') = Len(handled') + Len(lines')
                /\ DOMAIN Received' = 1 .. Len(Received')
                /\ \A i \in 1 .. Len(Received') :
                     Received'[i] = IF i <= Len(handled') THEN handled'[i].line
                                    ELSE lines'[i - Len(handled')]
<1>1. SeqTypeOK => /\ Received \in Seq(Line)
                   /\ Len(Received) = Len(handled) + Len(lines)
                   /\ DOMAIN Received = 1 .. Len(Received)
                   /\ \A i \in 1 .. Len(Received) :
                        Received[i] = IF i <= Len(handled) THEN handled[i].line
                                      ELSE lines[i - Len(handled)]
  BY ReceivedIs
<1>2. (SeqTypeOK => /\ Received \in Seq(Line)
                    /\ Len(Received) = Len(handled) + Len(lines)
                    /\ DOMAIN Received = 1 .. Len(Received)
                    /\ \A i \in 1 .. Len(Received) :
                         Received[i] = IF i <= Len(handled) THEN handled[i].line
                                       ELSE lines[i - Len(handled)])'
  BY <1>1, PTL
<1> QED
  BY <1>2

LEMMA LineInit == AppInit => LineInv
<1> SUFFICES ASSUME AppInit PROVE LineInv
  OBVIOUS
<1>1. lines = <<>> /\ handled = <<>> /\ pushed = 0 /\ spawned = 0 /\ job = FALSE
  BY DEF AppInit, ProcInit
<1>2. SeqTypeOK
  BY <1>1 DEF SeqTypeOK
<1>3. DOMAIN Received = {}
  BY <1>1, <1>2, ReceivedIs
<1> QED
  BY <1>1, <1>2, <1>3 DEF LineInv, LastInv, OwnInv, LinesIntact, InOrder

\* A step that leaves the lines where they are.
LEMMA LineKept ==
  ASSUME LineInv, UNCHANGED <<lines, handled, pushed, spawned>>, job' => job
  PROVE  LineInv'
<1>1. Received' = Received
  BY DEF Received
<1> QED
  BY <1>1 DEF LineInv, SeqTypeOK, LastInv, OwnInv, LinesIntact, InOrder, Handled

\* The reader delivers the next line.
LEMMA LinePushed ==
  ASSUME FlatInv, LineInv, spawned > 0, pushed + 1 <= LastLine,
         lines' = Append(lines, <<spawned, pushed + 1>>), pushed' = pushed + 1,
         UNCHANGED <<handled, spawned, job>>
  PROVE  LineInv'
<1> DEFINE n == Len(Received)
           new == <<spawned, pushed + 1>>
<1>1. new \in Line /\ pushed \in Nat /\ spawned \in Nat
  BY JobAssumption DEF FlatInv, FlatTypeOK, Line, Job, Lines
<1>2. SeqTypeOK'
  BY <1>1 DEF LineInv, SeqTypeOK, Handled
<1>3. /\ n \in Nat /\ DOMAIN Received = 1 .. n /\ Len(Received') = n + 1
      /\ DOMAIN Received' = 1 .. n + 1
      /\ \A i \in 1 .. n : Received'[i] = Received[i]
      /\ Received'[n + 1] = new
  <2>1. lines \in Seq(Line) /\ handled \in Seq(Handled)
    BY DEF LineInv, SeqTypeOK
  <2>2. /\ Len(lines') = Len(lines) + 1
        /\ \A i \in 1 .. Len(lines) : lines'[i] = lines[i]
        /\ lines'[Len(lines) + 1] = new
    BY <1>1, <2>1
  <2> QED
    BY SMTT(20), <1>2, <2>1, <2>2, ReceivedIs, ReceivedIsNext DEF LineInv
<1>4. LastInv'
  BY <1>1, <1>3 DEF LineInv, LastInv
<1>5. OwnInv'
  BY DEF LineInv, OwnInv
<1>6. InOrder'
  <2> SUFFICES ASSUME NEW i \in 1 .. n + 1
               PROVE  \/ i > 1 /\ Received'[i - 1] = <<Received'[i][1], Received'[i][2] - 1>>
                      \/ /\ Received'[i][2] = 1
                         /\ \A k \in 1 .. i - 1 : Received'[k][1] < Received'[i][1]
    BY <1>3 DEF InOrder
  <2>1. CASE i \in 1 .. n
    <3>1. \A k \in 1 .. i : Received'[k] = Received[k]
      BY <1>3, <2>1
    <3>2. \/ i > 1 /\ Received[i - 1] = <<Received[i][1], Received[i][2] - 1>>
          \/ Received[i][2] = 1 /\ \A k \in 1 .. i - 1 : Received[k][1] < Received[i][1]
      BY <1>3, <2>1 DEF LineInv, LinesIntact, InOrder
    <3> QED
      BY <1>3, <2>1, <3>1, <3>2
  <2>2. CASE i = n + 1 /\ pushed > 0
    BY <1>1, <1>3, <2>2 DEF LineInv, LastInv
  <2>3. CASE i = n + 1 /\ pushed = 0
    BY <1>1, <1>3, <2>3 DEF LineInv, LastInv
  <2> QED
    BY <1>1, <1>3, <2>1, <2>2, <2>3
<1>7. \A m \in 1 .. pushed' : \E i \in DOMAIN Received' : Received'[i] = <<spawned', m>>
  <2> SUFFICES ASSUME NEW m \in 1 .. pushed + 1
               PROVE  \E i \in 1 .. n + 1 : Received'[i] = <<spawned, m>>
    BY <1>3
  <2>1. CASE m = pushed + 1
    BY <1>3, <2>1
  <2>2. CASE m \in 1 .. pushed
    <3>1. PICK i \in 1 .. n : Received[i] = <<spawned, m>>
      BY <1>3, <2>2 DEF LineInv, LinesIntact
    <3> QED
      BY <1>3, <3>1
  <2> QED
    BY <1>1, <2>1, <2>2
<1> QED
  BY <1>2, <1>4, <1>5, <1>6, <1>7 DEF LineInv, LinesIntact

\* The next child has printed nothing yet.
LEMMA LineStarted ==
  ASSUME FlatInv, LineInv, spawned' = spawned + 1, pushed' = 0, UNCHANGED <<lines, handled>>
  PROVE  LineInv'
<1>1. Received' = Received
  BY DEF Received
<1>2. spawned \in Nat /\ \A i \in DOMAIN Received : Received[i][1] \in Nat
  <2>1. spawned \in Nat
    BY DEF FlatInv, FlatTypeOK
  <2>2. Received \in Seq(Line) /\ DOMAIN Received = 1 .. Len(Received)
    BY ReceivedIs DEF LineInv
  <2>3. \A i \in DOMAIN Received : Received[i] \in Line
    BY <2>2, ElementOfSeq
  <2> QED
    BY <2>1, <2>3 DEF Line, Job
<1>3. LastInv'
  BY <1>1, <1>2 DEF LineInv, LastInv
<1>4. \A i \in DOMAIN handled : handled[i].line[1] <= spawned /\ handled[i].line[1] \in Nat
  <2>1. \A i \in DOMAIN handled : i \in DOMAIN Received /\ Received[i] = handled[i].line
    BY ReceivedIs DEF LineInv, SeqTypeOK
  <2> QED
    BY <1>2, <2>1 DEF LineInv, LastInv
<1>5. OwnInv'
  BY <1>2, <1>4 DEF OwnInv
<1> QED
  BY <1>1, <1>3, <1>5 DEF LineInv, SeqTypeOK, LinesIntact, InOrder, Handled

\* Draining hands every waiting line on, in order.
LEMMA LineDrained ==
  ASSUME FlatInv, LineInv, DrainLines, job' => job, UNCHANGED pushed
  PROVE  /\ LineInv' /\ lines' = <<>> /\ Received' = Received
         /\ \A i \in DOMAIN handled : i \in DOMAIN handled' /\ handled'[i] = handled[i]
         /\ \A i \in DOMAIN Received : i \in DOMAIN handled' /\ handled'[i].line = Received[i]
         /\ job => \A i \in DOMAIN handled' :
                     handled'[i].line[1] = spawned => handled'[i].as = spawned
<1> DEFINE more == [i \in DOMAIN lines |-> [line |-> lines[i], as |-> IF job THEN spawned ELSE 0]]
<1>1. lines \in Seq(Line) /\ handled \in Seq(Handled) /\ spawned \in 0 .. MaxJobs
  BY DEF LineInv, SeqTypeOK, FlatInv, FlatTypeOK
<1>2. /\ more \in Seq(Handled) /\ Len(more) = Len(lines)
      /\ \A i \in 1 .. Len(lines) : /\ more[i].line = lines[i]
                                    /\ job => more[i].as = spawned
  <2>1. DOMAIN lines = 1 .. Len(lines) /\ Len(lines) \in Nat
        /\ \A i \in 1 .. Len(lines) : lines[i] \in Line
    BY <1>1
  <2>2. \A i \in 1 .. Len(lines) : more[i] \in Handled
    BY <1>1, <2>1, JobAssumption DEF Handled
  <2> QED
    BY <2>1, <2>2
<1>3. handled' = handled \o more /\ lines' = <<>> /\ UNCHANGED spawned
  BY DEF DrainLines, HandleLines
<1> HIDE DEF more
<1>4. /\ handled' \in Seq(Handled) /\ Len(handled') = Len(handled) + Len(lines)
      /\ \A i \in 1 .. Len(handled') :
           handled'[i] = IF i <= Len(handled) THEN handled[i] ELSE more[i - Len(handled)]
  <2>0. handled \in Seq(Handled) /\ more \in Seq(Handled)
    BY <1>1, <1>2
  <2>1. /\ handled \o more \in Seq(Handled)
        /\ Len(handled \o more) = Len(handled) + Len(more)
        /\ \A i \in 1 .. Len(handled) + Len(more) :
             (handled \o more)[i] = IF i <= Len(handled) THEN handled[i]
                                    ELSE more[i - Len(handled)]
    BY <2>0, ConcatProperties, Zenon
  <2> QED
    BY <1>2, <1>3, <2>1
<1>5. SeqTypeOK'
  BY <1>3, <1>4 DEF SeqTypeOK, Handled
<1>6. /\ Len(Received') = Len(Received)
      /\ Received' \in Seq(Line) /\ Received \in Seq(Line)
      /\ \A i \in 1 .. Len(Received) : Received'[i] = handled'[i].line
      /\ \A i \in 1 .. Len(Received) : handled'[i].line = Received[i]
  <2>1. Len(lines') = 0 /\ Len(handled') \in Nat /\ Len(handled) \in Nat /\ Len(lines) \in Nat
    BY <1>1, <1>3, <1>4
  <2>2. /\ Len(Received') = Len(handled') /\ Len(Received) = Len(handled')
        /\ Received' \in Seq(Line) /\ Received \in Seq(Line)
        /\ \A i \in 1 .. Len(Received') : Received'[i] = handled'[i].line
    BY <1>4, <1>5, <2>1, ReceivedIs, ReceivedIsNext DEF LineInv
  <2>3. ASSUME NEW i \in 1 .. Len(Received)
        PROVE  handled'[i].line = Received[i]
    <3>1. Received[i] = IF i <= Len(handled) THEN handled[i].line ELSE lines[i - Len(handled)]
      BY ReceivedIs DEF LineInv
    <3>2. handled'[i] = IF i <= Len(handled) THEN handled[i] ELSE more[i - Len(handled)]
      BY <1>4, <2>2
    <3>3. i > Len(handled) => more[i - Len(handled)].line = lines[i - Len(handled)]
      <4>1. i > Len(handled) => i - Len(handled) \in 1 .. Len(lines)
        BY <1>4, <2>1, <2>2
      <4> QED
        BY <1>2, <4>1
    <3> QED
      BY <3>1, <3>2, <3>3, <2>1
  <2> QED
    BY <2>2, <2>3
<1>7. Received' = Received
  BY <1>6, SeqEqual
<1>8. job => \A i \in DOMAIN handled' :
               handled'[i].line[1] = spawned => handled'[i].as = spawned
  <2> SUFFICES ASSUME job, NEW i \in DOMAIN handled', handled'[i].line[1] = spawned
               PROVE  handled'[i].as = spawned
    OBVIOUS
  <2>1. /\ i \in 1 .. Len(handled) + Len(lines)
        /\ Len(handled) \in Nat /\ Len(lines) \in Nat /\ DOMAIN handled = 1 .. Len(handled)
    BY <1>1, <1>4, LenProperties
  <2>2. CASE i <= Len(handled)
    BY <1>4, <2>1, <2>2 DEF LineInv, OwnInv
  <2>3. CASE i > Len(handled)
    <3>1. i - Len(handled) \in 1 .. Len(lines)
      BY <2>1, <2>3
    <3> QED
      BY <1>2, <1>4, <2>1, <2>3, <3>1
  <2> QED
    BY <2>1, <2>2, <2>3
<1>9. LineInv'
  BY <1>3, <1>5, <1>7, <1>8 DEF LineInv, LastInv, OwnInv, LinesIntact, InOrder
<1>10. \A i \in DOMAIN handled : i \in DOMAIN handled' /\ handled'[i] = handled[i]
  BY <1>1, <1>4
<1>11. \A i \in DOMAIN Received : i \in DOMAIN handled' /\ handled'[i].line = Received[i]
  BY <1>1, <1>4, <1>6, ReceivedIs DEF LineInv
<1> QED
  BY <1>3, <1>7, <1>8, <1>9, <1>10, <1>11

-----------------------------------------------------------------------------
(* One step of the application.                                            *)

AppInv == Inv /\ FlatInv /\ LineInv

\* To the pipe server the application is a client of its queue and the main
\* thread it expects.
LEMMA AppStepsServer ==
  ASSUME AppNext
  PROVE  Next \/ UNCHANGED vars
<1>1. ASSUME MainThread \/ AppStop
      PROVE  Next \/ UNCHANGED vars
  BY <1>1 DEF MainThread, AppStop, RunRefused, RunBegins, RunStarts, GetState, FrameDrained,
              UpdateLines, UpdateCheck, UpdateFinish, AppFrame, Next, MainStep
<1>2. ASSUME PanelRun \/ PanelStart \/ PanelIdle \/ Destroy
      PROVE  UNCHANGED vars
  BY <1>2 DEF PanelRun, PanelStart, PanelIdle, Destroy
<1> QED
  BY <1>1, <1>2 DEF AppNext, Next

\* The steps that leave child, reader, lines and job alone.
LEMMA QuietStep ==
  ASSUME FlatInv, LineInv, UNCHANGED <<procVars, job, handled, settled>>,
         step' \in {"rest", "start", "update", "check", "finish", "panel", "gone"},
         step' = "finish" => job /\ reader = "off"
  PROVE  FlatInv' /\ LineInv'
<1>1. UNCHANGED jobVars /\ UNCHANGED <<lines, handled, pushed, spawned, job>>
  BY DEF procVars, jobVars, childVars, readerVars
<1> QED
  BY <1>1, FlatKept, LineKept

\* A step that keeps its place in the frame as well.
LEMMA ElsewhereStep ==
  ASSUME FlatInv, LineInv, UNCHANGED <<procVars, appVars>>
  PROVE  FlatInv' /\ LineInv'
<1>1. step' \in {"rest", "start", "update", "check", "finish", "panel", "gone"}
      /\ (step' = "finish" => job /\ reader = "off")
  BY DEF appVars, FlatInv, FlatTypeOK, ReaderInv
<1> QED
  BY <1>1, QuietStep DEF appVars

LEMMA ChildStep ==
  ASSUME FlatInv, LineInv, UNCHANGED appVars, WriteHalf \/ CloseOutput \/ Exit
  PROVE  FlatInv' /\ LineInv'
<1>1. UNCHANGED <<lines, handled, pushed, spawned, job>>
  BY DEF WriteHalf, CloseOutput, Exit, readerVars, appVars
<1> QED
  BY <1>1, FlatChild, LineKept

LEMMA ReaderDelivers ==
  ASSUME FlatInv, LineInv, UNCHANGED appVars, ReaderStep
  PROVE  FlatInv' /\ LineInv'
<1>1. FlatInv'
  BY FlatReader
<1>2. CASE UNCHANGED <<lines, pushed>>
  <2>1. UNCHANGED <<lines, handled, pushed, spawned, job>>
    BY <1>2 DEF ReaderStep, ReadPipe, PushLine, PushTail, ReapChild, ClearRunning, appVars
  <2> QED
    BY <1>1, <2>1, LineKept
<1>3. CASE /\ reader = "push" /\ pushed < taken \div 2 /\ UNCHANGED spawned
           /\ lines' = Append(lines, <<spawned, pushed + 1>>) /\ pushed' = pushed + 1
  <2>1. spawned > 0 /\ pushed + 1 <= LastLine
    BY <1>3, JobAssumption DEF FlatInv, FlatTypeOK, ReaderInv, Lines
  <2> QED
    BY <1>1, <1>3, <2>1, LinePushed DEF appVars
<1>4. CASE /\ reader = "tail" /\ taken % 2 = 1 /\ UNCHANGED spawned
           /\ lines' = Append(lines, <<spawned, pushed + 1>>) /\ pushed' = pushed + 1
  <2>1. spawned > 0 /\ pushed + 1 <= LastLine
    BY <1>4, JobAssumption DEF FlatInv, FlatTypeOK, ReaderInv, DeliveryInv, Lines
  <2> QED
    BY <1>1, <1>4, <2>1, LinePushed DEF appVars
<1> QED
  BY <1>2, <1>3, <1>4 DEF ReaderStep, ReadPipe, PushLine, PushTail, ReapChild, ClearRunning

LEMMA KillStep ==
  ASSUME FlatInv, LineInv, KillOld, step' = "start", UNCHANGED <<job, handled, settled>>
  PROVE  FlatInv' /\ LineInv'
<1>1. UNCHANGED <<lines, handled, pushed, spawned, job>>
  BY DEF KillOld, readerVars
<1> QED
  BY <1>1, FlatKill, LineKept

LEMMA StartStep ==
  ASSUME FlatInv, LineInv, StartJob
  PROVE  FlatInv' /\ LineInv'
<1>1. FlatInv'
  BY FlatStart
<1>2. CASE StartChild
  BY <1>1, <1>2, LineStarted DEF StartJob, StartChild
<1>3. CASE StartFails /\ job' = FALSE
  <2>1. UNCHANGED <<lines, handled, pushed, spawned>>
    BY <1>3 DEF StartJob, StartFails, readerVars
  <2> QED
    BY <1>1, <1>3, <2>1, LineKept
<1> QED
  BY <1>2, <1>3 DEF StartJob

LEMMA DrainStep ==
  ASSUME FlatInv, LineInv, UpdateLines \/ UpdateFinish
  PROVE  FlatInv' /\ LineInv'
<1>1. DrainLines /\ UNCHANGED pushed /\ (job' => job)
  BY DEF UpdateLines, UpdateFinish, DrainLines, readerVars
<1>2. LineInv'
  BY <1>1, LineDrained
<1>3. CASE UpdateLines
  <2>1. UNCHANGED jobVars /\ step' = "check"
    BY <1>3 DEF UpdateLines, DrainLines, jobVars, childVars, readerVars
  <2> QED
    BY <1>2, <2>1, FlatKept
<1>4. CASE UpdateFinish
  BY <1>2, <1>4, FlatFinish
<1> QED
  BY <1>3, <1>4

LEMMA AppInvStep ==
  ASSUME AppInv, [AppNext]_allVars
  PROVE  AppInv'
<1>1. Inv'
  <2>1. [Next]_vars
    BY AppStepsServer DEF allVars
  <2> QED
    BY <2>1, InvStep DEF AppInv
<1>2. CASE UNCHANGED allVars
  BY <1>1, <1>2, ElsewhereStep DEF allVars, AppInv
<1>3. ASSUME ClientStep \/ AcceptStep, UNCHANGED <<procVars, appVars>>
      PROVE  AppInv'
  BY <1>1, <1>3, ElsewhereStep DEF AppInv
<1>4. ASSUME WriteHalf \/ CloseOutput \/ Exit, UNCHANGED <<vars, appVars>>
      PROVE  AppInv'
  BY <1>1, <1>4, ChildStep DEF AppInv
<1>5. ASSUME ReaderStep, UNCHANGED <<vars, appVars>>
      PROVE  AppInv'
  BY <1>1, <1>5, ReaderDelivers DEF AppInv
<1>6. CASE PanelRun \/ RunBegins
  BY <1>1, <1>6, KillStep DEF PanelRun, RunBegins, AppInv
<1>7. CASE RunStarts \/ PanelStart
  BY <1>1, <1>7, StartStep DEF RunStarts, PanelStart, AppInv
<1>8. ASSUME UNCHANGED <<procVars, appVars>>
      PROVE  AppInv'
  BY <1>1, <1>8, ElsewhereStep DEF AppInv
<1>9. CASE FrameDrained \/ PanelIdle \/ UpdateCheck
  <2>1. /\ UNCHANGED <<procVars, job, handled, settled>>
        /\ step' \in {"rest", "start", "update", "check", "finish", "panel", "gone"}
    BY <1>9 DEF FrameDrained, PanelIdle, UpdateCheck
  <2>2. step' = "finish" => job /\ reader = "off"
    BY <1>9 DEF FrameDrained, PanelIdle, UpdateCheck, AppInv, FlatInv, ReaderInv
  <2> QED
    BY <1>1, <2>1, <2>2, QuietStep DEF AppInv
<1>10. CASE UpdateLines \/ UpdateFinish
  BY <1>1, <1>10, DrainStep DEF AppInv
<1>11. CASE Destroy
  <2>1. CASE KillOld /\ step' = "start"
    BY <1>1, <1>11, <2>1, KillStep DEF Destroy, AppInv
  <2>2. CASE /\ step = "start" /\ step' = "gone" /\ proc' = FALSE
             /\ UNCHANGED <<spawned, childVars, readerVars, lines, childRunning>>
    <3>1. UNCHANGED <<lines, handled, pushed, spawned, job, settled>>
      BY <1>11, <2>2 DEF Destroy, readerVars
    <3>2. FlatInv'
      BY <2>2, <3>1, FlatDestroyed DEF AppInv
    <3> QED
      BY <1>1, <3>1, <3>2, LineKept DEF AppInv
  <2> QED
    BY <1>11, <2>1, <2>2 DEF Destroy
<1>12. CASE MainThread
  BY <1>6, <1>7, <1>8, <1>9, <1>10, <1>12 DEF MainThread, RunRefused, GetState, AppFrame
<1>13. CASE AppNext
  BY <1>3, <1>4, <1>5, <1>6, <1>7, <1>8, <1>9, <1>11, <1>12, <1>13 DEF AppNext, AppStop
<1> QED
  BY <1>2, <1>13

LEMMA AppInvariant == AppSpec => []AppInv
<1>1. AppInit => AppInv
  BY InitInv, FlatInit, LineInit DEF AppInit, AppInv
<1> QED
  BY <1>1, AppInvStep, PTL DEF AppSpec

-----------------------------------------------------------------------------
(* The theorems.                                                           *)

(* The application behaves, to its clients, as the pipe server alone does:  *)
(* whatever jobs run behind the commands, the control channel is kept.      *)
THEOREM KeepsChannel == AppSpec => ChannelSafe
<1>1. AppInit => Init
  BY DEF AppInit
<1>2. [AppNext]_allVars => [Next]_vars
  BY AppStepsServer DEF allVars
<1>3. AppSpec => Safe
  BY <1>1, <1>2, PTL DEF AppSpec, Safe
<1>4. Inv /\ [Next]_vars => [Channel!ChanNext]_Channel!chanVars
  BY StepRefines DEF Channel!chanVars, ChanMap
<1> QED
  BY <1>3, InitRefines, Invariant, <1>4, PTL DEF Safe, ChannelSafe, Channel!ChanSafe

(* Every variable of the application has its type, at any number of jobs.   *)
THEOREM AppTyped == AppSpec => []AppTypeOK
<1>1. AppInv => AppTypeOK
  BY DEF AppInv, Inv, FlatInv, FlatTypeOK, LineInv, SeqTypeOK, Line, Handled, AppTypeOK,
         ProcTypeOK
<1> QED
  BY <1>1, AppInvariant, PTL

(* One child at a time: kill() joins the reader, and the reader has waited  *)
(* for the process, before the next one is started.                         *)
THEOREM OneChildAlways == AppSpec => []OneChild
<1>1. AppInv => OneChild
  BY DEF AppInv, FlatInv, ReaderInv, OneChild
<1> QED
  BY <1>1, AppInvariant, PTL

(* No line is lost, repeated or overtaken between child and handleLine().   *)
THEOREM LinesAlwaysIntact == AppSpec => []LinesIntact
<1>1. AppInv => LinesIntact
  BY DEF AppInv, LineInv
<1> QED
  BY <1>1, AppInvariant, PTL

(* A job is settled after its process has ended, with its exit code and all *)
(* of its lines handled for it.                                             *)
THEOREM SettledAlwaysComplete == AppSpec => SettledIsComplete
<1> DEFINE Complete(j) ==
      /\ ~alive[j]
      /\ settled'[j] = code[j]
      /\ \A n \in 1 .. Lines(printed) :
           \E i \in DOMAIN handled' : handled'[i] = [line |-> <<j, n>>, as |-> j]
<1>1. ASSUME AppInv, [AppNext]_allVars, NEW j \in Job, settled[j] = Open, settled'[j] # Open
      PROVE  Complete(j)
  <2>1. UpdateFinish
    <3>1. settled' # settled
      BY <1>1
    <3> QED
      BY <1>1, <3>1
         DEF AppNext, MainThread, allVars, appVars, RunRefused, RunBegins, RunStarts, GetState,
             FrameDrained, UpdateLines, UpdateCheck, AppFrame, PanelRun, PanelStart,
             PanelIdle, AppStop, Destroy, StartJob
  <2>2. /\ step = "finish" /\ DrainLines /\ job' = FALSE /\ UNCHANGED pushed
        /\ settled' = [settled EXCEPT ![spawned] = exitCode]
    BY <2>1 DEF UpdateFinish, DrainLines, readerVars
  <2>3. /\ FlatTypeOK /\ ReaderInv /\ DeliveryInv /\ LineInv
        /\ reader = "off" /\ job /\ spawned \in Job /\ j = spawned
    BY <1>1, <2>2 DEF AppInv, FlatInv, FlatTypeOK, ReaderInv, Job
  <2>4. ~alive[j] /\ settled'[j] = code[j]
    BY <2>2, <2>3 DEF FlatTypeOK, ReaderInv, Job
  <2>5. pushed = Lines(printed)
    BY <2>3 DEF DeliveryInv
  <2>6. ASSUME NEW n \in 1 .. pushed
        PROVE  \E i \in DOMAIN handled' : handled'[i] = [line |-> <<j, n>>, as |-> j]
    <3>1. PICK i \in DOMAIN Received : Received[i] = <<spawned, n>>
      BY <2>3 DEF LineInv, LinesIntact
    <3>2. i \in DOMAIN handled' /\ handled'[i].line = <<j, n>> /\ handled'[i].as = j
      BY <1>1, <2>2, <2>3, <3>1, LineDrained DEF AppInv
    <3>3. handled'[i] \in Handled
      <4>1. LineInv'
        BY <1>1, <2>2, LineDrained DEF AppInv
      <4>2. handled' \in Seq(Handled)
        BY <4>1 DEF LineInv, SeqTypeOK, Handled, Line
      <4> QED
        BY <3>2, <4>2, ElementOfSeq, LenProperties
    <3> QED
      BY <3>2, <3>3 DEF Handled
  <2> QED
    BY <2>4, <2>5, <2>6
<1>2. AppInv /\ [AppNext]_allVars =>
        [\A j \in Job : settled[j] = Open /\ settled'[j] # Open => Complete(j)]_allVars
  BY <1>1
<1> QED
  BY <1>2, AppInvariant, PTL DEF AppSpec, SettledIsComplete
=============================================================================
