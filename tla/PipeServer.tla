----------------------------- MODULE PipeServer -----------------------------
(***************************************************************************)
(* The named-pipe command server of the remesh debug app                   *)
(* (debug/remesh_pipe_server.{h,cc}): an accept thread that takes one      *)
(* command line per connection and blocks on its reply, the main thread    *)
(* that executes queued commands once per frame and finally stops the      *)
(* server, and the clients at the other end of the pipe.  A client makes   *)
(* one connection.  CreateNamedPipe, ConnectNamedPipe, ReadFile and the    *)
(* rest of the pipe are modelled by when they block and what they return.  *)
(***************************************************************************)
EXTENDS Naturals, Sequences

CONSTANTS
  Clients,   \* the connections that may be made
  Rude,      \* those whose client may split its command, hang up, or neither
             \* write nor read; the others are tools/remesh_dbg.mjs
  None,      \* nobody
  Wake       \* the connection stop() makes to itself

ASSUME ClientAssumption == /\ Rude \subseteq Clients
                           /\ None \notin Clients
                           /\ Wake \notin Clients
                           /\ None # Wake

VARIABLES
  running,    \* running_
  accept,     \* the place acceptLoop() is at
  instance,   \* the pipe instance: "none", "listening" or "connected"
  peer,       \* who is connected to it
  wire,       \* what the peer wrote and acceptLoop() has not read
  in,         \* in: the text read so far
  out,        \* the reply written and not yet read by the peer
  queue,      \* queue_: the commands, named by their clients
  promise,    \* promise[c]: the reply promise of the command of c
  client,     \* client[c]: the state of client c
  main,       \* the place the main thread is at
  popped      \* the command drainMainThreadQueue() is executing

acceptVars == <<accept, in>>
pipeVars   == <<instance, peer, wire, out, client>>
queueVars  == <<queue, promise>>
mainVars   == <<running, main, popped>>
vars       == <<acceptVars, pipeVars, queueVars, mainVars>>

AcceptPlaces == {"loop", "create", "connect", "test", "read", "push", "wait", "flush", "exit"}
MainPlaces   == {"frame", "drain", "handle", "purge", "wake", "join", "gone"}
Texts        == {"empty", "part", "line"}
Replies      == {"result", "shutdown", "blank"}

\* The type invariant.
TypeOK == /\ running \in BOOLEAN
          /\ accept \in AcceptPlaces
          /\ instance \in {"none", "listening", "connected"}
          /\ peer \in Clients \cup {None, Wake}
          /\ wire \in Texts
          /\ in \in Texts
          /\ out \in Replies \cup {"none"}
          /\ queue \in Seq(Clients)
          /\ promise \in [Clients -> {"none", "pending", "result", "shutdown"}]
          /\ client \in [Clients -> {"idle", "connected", "writing", "waiting",
                                     "closed", "dropped"} \cup Replies]
          /\ main \in MainPlaces
          /\ popped \in Clients \cup {None}

-----------------------------------------------------------------------------
\* start(): the server runs and its accept thread is about to loop.
Init == /\ running = TRUE
        /\ accept = "loop"
        /\ instance = "none"
        /\ peer = None
        /\ wire = "empty"
        /\ in = "empty"
        /\ out = "none"
        /\ queue = <<>>
        /\ promise = [c \in Clients |-> "none"]
        /\ client = [c \in Clients |-> "idle"]
        /\ main = "frame"
        /\ popped = None

-----------------------------------------------------------------------------
\* Clients: a program that opens the pipe, writes one line and reads the reply.
Holding(c) == client[c] \in {"connected", "writing", "waiting"}

\* The peer has closed its end: ReadFile returns what is left, then end of
\* file, and FlushFileBuffers does not wait.
PeerGone == peer \in Clients => ~Holding(peer)

Connect(c) == /\ client[c] = "idle"
              /\ instance = "listening"
              /\ instance' = "connected"
              /\ peer' = c
              /\ client' = [client EXCEPT ![c] = "connected"]
              /\ UNCHANGED <<wire, out, acceptVars, queueVars, mainVars>>

\* The first part of a command, without its newline.
WritePart(c) == /\ c \in Rude
                /\ client[c] = "connected"
                /\ wire' = "part"
                /\ client' = [client EXCEPT ![c] = "writing"]
                /\ UNCHANGED <<instance, peer, out, acceptVars, queueVars, mainVars>>

\* The command, or the rest of it, with its newline.
WriteLine(c) == /\ client[c] \in {"connected", "writing"}
                /\ wire' = "line"
                /\ client' = [client EXCEPT ![c] = "waiting"]
                /\ UNCHANGED <<instance, peer, out, acceptVars, queueVars, mainVars>>

TakeReply(c) == /\ client[c] = "waiting"
                /\ peer = c
                /\ out # "none"
                /\ client' = [client EXCEPT ![c] = out]
                /\ out' = "none"
                /\ UNCHANGED <<instance, peer, wire, acceptVars, queueVars, mainVars>>

CloseHandle(c) == /\ c \in Rude
                  /\ Holding(c)
                  /\ client' = [client EXCEPT ![c] = "closed"]
                  /\ UNCHANGED <<instance, peer, wire, out, acceptVars, queueVars, mainVars>>

ClientStep == \E c \in Clients : \/ Connect(c)
                                 \/ WritePart(c)
                                 \/ WriteLine(c)
                                 \/ TakeReply(c)
                                 \/ CloseHandle(c)

-----------------------------------------------------------------------------
\* The accept thread: acceptLoop().

\* DisconnectNamedPipe, CloseHandle: a peer still connected loses its pipe and
\* what was on it.
Disconnect == /\ instance' = "none"
              /\ peer' = None
              /\ wire' = "empty"
              /\ out' = "none"
              /\ client' = [c \in Clients |-> IF c = peer /\ Holding(c)
                                                THEN "dropped" ELSE client[c]]

\* while (running_.load())
LoopTest == /\ accept = "loop"
            /\ accept' = IF running THEN "create" ELSE "exit"
            /\ UNCHANGED <<in, pipeVars, queueVars, mainVars>>

CreatePipe == /\ accept = "create"
              /\ instance' = "listening"
              /\ accept' = "connect"
              /\ UNCHANGED <<in, peer, wire, out, client, queueVars, mainVars>>

\* "Transient failure; bail if we're shutting down, else retry."
CreateFails == /\ accept = "create"
               /\ accept' = IF running THEN "loop" ELSE "exit"
               /\ UNCHANGED <<in, pipeVars, queueVars, mainVars>>

\* ConnectNamedPipe blocks until somebody is connected, and may fail when that
\* peer has already left.
Accepted == /\ accept = "connect"
            /\ instance = "connected"
            /\ \/ /\ ~running
                  /\ Disconnect
                  /\ accept' = "exit"
                  /\ UNCHANGED in
               \/ /\ running
                  /\ PeerGone
                  /\ Disconnect
                  /\ accept' = "loop"
                  /\ UNCHANGED in
               \/ /\ running
                  /\ accept' = "test"
                  /\ in' = "empty"
                  /\ UNCHANGED pipeVars
            /\ UNCHANGED <<queueVars, mainVars>>

\* while (running_.load()) of the read loop; a stopping server goes on with
\* what it has read, whole line or not.
ReadTest == /\ accept = "test"
            /\ accept' = IF running THEN "read" ELSE "push"
            /\ UNCHANGED <<in, pipeVars, queueVars, mainVars>>

\* ReadFile blocks until the peer has written or has closed its end.
Read == /\ accept = "read"
        /\ \/ /\ wire # "empty"
              /\ in' = wire
              /\ wire' = "empty"
              /\ accept' = IF wire = "line" THEN "push" ELSE "test"
           \/ /\ wire = "empty"
              /\ PeerGone
              /\ accept' = "push"
              /\ UNCHANGED <<in, wire>>
        /\ UNCHANGED <<instance, peer, out, client, queueVars, mainVars>>

\* An end of file ends a command as a newline does; nothing at all is answered
\* with an empty reply.
PushCommand == /\ accept = "push"
               /\ \/ /\ in # "empty"
                     /\ queue' = Append(queue, peer)
                     /\ promise' = [promise EXCEPT ![peer] = "pending"]
                     /\ accept' = "wait"
                     /\ UNCHANGED out
                  \/ /\ in = "empty"
                     /\ out' = "blank"
                     /\ accept' = "flush"
                     /\ UNCHANGED queueVars
               /\ in' = "empty"
               /\ UNCHANGED <<instance, peer, wire, client, mainVars>>

\* fut.get() returns; WriteFile.
GetReply == /\ accept = "wait"
            /\ promise[peer] \in {"result", "shutdown"}
            /\ out' = promise[peer]
            /\ accept' = "flush"
            /\ UNCHANGED <<in, instance, peer, wire, client, queueVars, mainVars>>

\* Mutant: a reply the peer never read stays in the pipe for the next one.
FlushKeepingReply == /\ accept = "flush"
                     /\ out = "none" \/ PeerGone
                     /\ instance' = "none"
                     /\ peer' = None
                     /\ wire' = "empty"
                     /\ accept' = "loop"
                     /\ UNCHANGED <<in, out, client, queueVars, mainVars>>

\* FlushFileBuffers blocks until the peer has read the reply or has left.
Flush == /\ accept = "flush"
         /\ out = "none" \/ PeerGone
         /\ Disconnect
         /\ accept' = "loop"
         /\ UNCHANGED <<in, queueVars, mainVars>>

AcceptStep == \/ LoopTest
              \/ CreatePipe
              \/ CreateFails
              \/ Accepted
              \/ ReadTest
              \/ Read
              \/ PushCommand
              \/ GetReply
              \/ Flush

-----------------------------------------------------------------------------
\* The main thread: the frame loop of main() and stop().

\* while (!shouldClose()): a frame drains the queue, then does the rest.
NextFrame == /\ main = "frame"
             /\ main' = "drain"
             /\ UNCHANGED <<running, popped, acceptVars, pipeVars, queueVars>>

\* Mutant: the command stays at the front of the queue.
PeekCommand == /\ main = "drain"
               /\ queue # <<>>
               /\ popped' = Head(queue)
               /\ main' = "handle"
               /\ UNCHANGED <<running, queue, promise, acceptVars, pipeVars>>

PopCommand == /\ main = "drain"
              /\ queue # <<>>
              /\ popped' = Head(queue)
              /\ queue' = Tail(queue)
              /\ main' = "handle"
              /\ UNCHANGED <<running, promise, acceptVars, pipeVars>>

\* Mutant: a handler that throws leaves its promise alone.
HandlerThrows == /\ main = "handle"
                 /\ popped' = None
                 /\ main' = "drain"
                 /\ UNCHANGED <<running, queue, promise, acceptVars, pipeVars>>

\* The handler's reply, or the text of what it threw.
HandleCommand == /\ main = "handle"
                 /\ promise' = [promise EXCEPT ![popped] = "result"]
                 /\ popped' = None
                 /\ main' = "drain"
                 /\ UNCHANGED <<running, queue, acceptVars, pipeVars>>

Drained == /\ main = "drain"
           /\ queue = <<>>
           /\ main' = "frame"
           /\ UNCHANGED <<running, popped, acceptVars, pipeVars, queueVars>>

\* The window is closed: stop() takes running_ down ...
Stop == /\ main = "frame"
        /\ running' = FALSE
        /\ main' = "purge"
        /\ UNCHANGED <<popped, acceptVars, pipeVars, queueVars>>

\* Mutant: the queue is cleared and its promises are not kept.
PurgeSilently == /\ main = "purge"
                 /\ queue' = <<>>
                 /\ main' = "wake"
                 /\ UNCHANGED <<running, popped, promise, acceptVars, pipeVars>>

\* ... answers the commands nobody will execute, under the lock ...
Purge == /\ main = "purge"
         /\ promise' = [c \in Clients |->
                          IF \E i \in DOMAIN queue : queue[i] = c
                            THEN "shutdown" ELSE promise[c]]
         /\ queue' = <<>>
         /\ main' = "wake"
         /\ UNCHANGED <<running, popped, acceptVars, pipeVars>>

\* ... connects to its own pipe, if an instance is listening ...
WakeAccept == /\ main = "wake"
              /\ main' = "join"
              /\ \/ /\ instance = "listening"
                    /\ instance' = "connected"
                    /\ peer' = Wake
                 \/ /\ instance # "listening"
                    /\ UNCHANGED <<instance, peer>>
              /\ UNCHANGED <<running, popped, wire, out, client, acceptVars, queueVars>>

\* ... and joins the accept thread.
Join == /\ main = "join"
        /\ accept = "exit"
        /\ main' = "gone"
        /\ UNCHANGED <<running, popped, acceptVars, pipeVars, queueVars>>

MainStep == \/ NextFrame
            \/ PopCommand
            \/ HandleCommand
            \/ Drained
            \/ Stop
            \/ Purge
            \/ WakeAccept
            \/ Join

Next == ClientStep \/ AcceptStep \/ MainStep

Safe == Init /\ [][Next]_vars

\* The threads run; a pipe instance is created sooner or later, the failure
\* being transient; a client that is not rude writes its command and reads
\* the reply.  Nobody has to connect, to hang up or to close the window.
Fairness == /\ WF_vars(AcceptStep)
            /\ SF_vars(CreatePipe)
            /\ WF_vars(NextFrame \/ PopCommand \/ HandleCommand \/ Drained)
            /\ WF_vars(Purge \/ WakeAccept \/ Join)
            /\ \A c \in Clients \ Rude : WF_vars(WriteLine(c) \/ TakeReply(c))

Spec == Safe /\ Fairness


-----------------------------------------------------------------------------
\* Properties.

\* acceptLoop() blocks on a reply only while its command is somewhere the main
\* thread can still find it, and no other command is pending: the queue
\* (remesh_pipe_server.h:56) never holds a second one.
WaiterHasCommand ==
    /\ accept = "wait" /\ promise[peer] = "pending" =>
         \/ queue = <<peer>> /\ popped = None
         \/ queue = <<>> /\ popped = peer
    /\ \A c \in Clients : promise[c] = "pending" => accept = "wait" /\ peer = c

\* A client reads the reply to its own command, across the reuse of the pipe by
\* later connections, and hears of a shutdown only from a stopping server.
OwnReply == \A c \in Clients :
              /\ client[c] \in {"result", "shutdown"} => promise[c] = client[c]
              /\ promise[c] = "shutdown" => ~running

\* The server keeps the channel's promises: one command at a time, each at most
\* once, executed unless the server stops first.
Phase(c) == CASE promise[c] = "none"     -> "none"
              [] promise[c] = "pending"  -> IF popped = c THEN "executing" ELSE "accepted"
              [] promise[c] = "result"   -> "answered"
              [] promise[c] = "shutdown" -> "refused"

Channel == INSTANCE CommandChannel
             WITH open <- running, phase <- [c \in Clients |-> Phase(c)]

ChannelSafe == Channel!ChanSafe
ChannelSpec == Channel!ChanSpec

\* A client that has sent its command to a running server is answered, or the
\* server is stopped: the accept thread and the frame loop never wait for each
\* other.
Answered == \A c \in Clients \ Rude :
              client[c] = "waiting" /\ running ~> client[c] # "waiting" \/ ~running

\* The windows in which the accept thread misses the stop: it blocks on a
\* command it queued after the purge, in a connect that no wake-up reached, or
\* on a peer that neither writes nor reads.
Missed == /\ main = "join"
          /\ \/ accept = "wait" /\ queue = <<peer>>
             \/ accept = "connect" /\ instance = "listening"
             \/ accept \in {"read", "flush"} /\ peer \in Clients /\ Holding(peer)

\* stop() returns unless the accept thread is caught in one of those windows;
\* nothing else can keep it, however often a pipe could not be created.
StopReturns == main = "purge" ~> main = "gone" \/ Missed
=============================================================================
