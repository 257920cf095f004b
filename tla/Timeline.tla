------------------------------ MODULE Timeline ------------------------------
(***************************************************************************)
(* What an undo history promises its user: the documents before and after  *)
(* the current one are exactly those that were there when the steps were   *)
(* made, whatever the log that keeps them looks like.                      *)
(***************************************************************************)
EXTENDS Naturals, Sequences, SequencesExt

CONSTANT Docs

VARIABLES
  doc,     \* the document as it is
  past,    \* documents undo goes back to, the last one first
  future,  \* documents redo goes forward to, the first one first
  open     \* is a step being made

vars == <<doc, past, future, open>>

\* The history may start with one empty step that can be redone.
Init == doc \in Docs /\ past = <<>> /\ future \in {<<>>, <<doc>>} /\ open = FALSE

Begin ==
  /\ ~open /\ open' = TRUE
  /\ UNCHANGED doc
  /\ past' = Append(past, doc) /\ future' = <<>>

Edit == open /\ UNCHANGED <<open, past, future>> /\ doc' \in Docs

\* Only the oldest documents may be forgotten.
End == open /\ open' = FALSE /\ UNCHANGED <<doc, future>> /\ past' \in Suffixes(past)

Forget == UNCHANGED <<open, doc, future>> /\ past' \in Suffixes(past)

\* A whole step at once.
Do ==
  /\ ~open /\ UNCHANGED open
  /\ future' = <<>> /\ past' \in Suffixes(Append(past, doc))
  /\ doc' \in Docs

Undo ==
  /\ ~open /\ UNCHANGED open /\ past # <<>>
  /\ doc' = Last(past) /\ past' = Front(past) /\ future' = <<doc>> \o future

Redo ==
  /\ ~open /\ UNCHANGED open /\ future # <<>>
  /\ doc' = Head(future) /\ future' = Tail(future) /\ past' = Append(past, doc)

Next == Edit \/ Begin \/ End \/ Forget \/ Do \/ Undo \/ Redo

Spec == Init /\ [][Next]_vars
=============================================================================
