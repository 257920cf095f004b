---------------------------- MODULE GridHistory ----------------------------
(***************************************************************************)
(* What the stroke log of a grid level promises: a history of documents    *)
(* (see Timeline) in which a document assigns a content to every channel.  *)
(* Removing a channel wipes it out of the past and the future as well, an  *)
(* empty stroke leaves no step, and history may be given up as a whole.    *)
(***************************************************************************)
EXTENDS Timeline

CONSTANTS Names,   \* the channels of a document
          Unwritten    \* the document nobody has written to

Without(d, n) == [d EXCEPT ![n] = Unwritten[n]]
AllWithout(q, n) == [k \in DOMAIN q |-> Without(q[k], n)]

Erase ==
  /\ ~open /\ UNCHANGED open
  /\ \E n \in Names : /\ doc' = Without(doc, n)
                      /\ past' = AllWithout(past, n)
                      /\ future' = AllWithout(future, n)

\* The last of an edit comes with its end.
Close == open /\ open' = FALSE /\ doc' \in Docs /\ UNCHANGED <<past, future>>

Abandon ==
  /\ open /\ open' = FALSE /\ past # <<>>
  /\ doc = Last(past) /\ UNCHANGED doc
  /\ past' = Front(past) /\ UNCHANGED future

GiveUp ==
  /\ ~open /\ UNCHANGED open /\ doc' \in Docs
  /\ past' = <<>> /\ future' = <<>>

\* A history given up as the next step begins.
BeginAnew ==
  /\ ~open /\ open' = TRUE /\ UNCHANGED doc
  /\ past' = <<doc>> /\ future' = <<>>

GridNext == Next \/ Erase \/ Close \/ Abandon \/ GiveUp \/ BeginAnew

GridSpec == Init /\ [][GridNext]_vars
=============================================================================
