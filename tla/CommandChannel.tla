--------------------------- MODULE CommandChannel ---------------------------
(***************************************************************************)
(* What the pipe server of the remesh debug app promises its clients,      *)
(* without threads, pipes or queues (debug/remesh_pipe_server.h:3-8):      *)
(* commands run one at a time, each at most once, and a command that was   *)
(* accepted is either answered with its own result or, once the channel    *)
(* is closed, refused.  PipeServer implements it.                          *)
(***************************************************************************)
CONSTANT Clients

VARIABLES
  open,    \* the channel still executes commands
  phase    \* phase[c]: how far the command of client c has come

chanVars == <<open, phase>>

Phases == {"none", "accepted", "executing", "answered", "refused"}

\* A command that the channel owes an answer.
Owed(c) == phase[c] \in {"accepted", "executing"}

ChanInit == /\ open = TRUE
            /\ phase = [c \in Clients |-> "none"]

\* One command at a time: the next is accepted when the last one is settled.
\* A closed channel may still accept a command, and then owes it nothing.
Accept(c) == /\ phase[c] = "none"
             /\ \A d \in Clients : ~Owed(d)
             /\ phase' = [phase EXCEPT ![c] = "accepted"]
             /\ UNCHANGED open

Execute(c) == /\ open
              /\ phase[c] = "accepted"
              /\ phase' = [phase EXCEPT ![c] = "executing"]
              /\ UNCHANGED open

Answer(c) == /\ phase[c] = "executing"
             /\ phase' = [phase EXCEPT ![c] = "answered"]
             /\ UNCHANGED open

\* The channel does not close over a command it is executing.
Close == /\ open
         /\ \A c \in Clients : phase[c] # "executing"
         /\ open' = FALSE
         /\ UNCHANGED phase

Refuse(c) == /\ ~open
             /\ phase[c] = "accepted"
             /\ phase' = [phase EXCEPT ![c] = "refused"]
             /\ UNCHANGED open

ChanNext == \/ Close
            \/ \E c \in Clients : Accept(c) \/ Execute(c) \/ Answer(c) \/ Refuse(c)

ChanSafe == ChanInit /\ [][ChanNext]_chanVars

\* An accepted command is executed unless the channel closes first, and an
\* executing one is answered.
ChanSpec == /\ ChanSafe
            /\ \A c \in Clients : /\ WF_chanVars(Execute(c))
                                  /\ WF_chanVars(Answer(c))
=============================================================================
