----------------------------- MODULE LevelStack -----------------------------
(***************************************************************************)
(* What a multires stack promises to the one who sculpts it: a level keeps *)
(* its detail until it is edited, an edit shows at its level and at every  *)
(* finer one, stepping down hands the detail to the coarser level exactly  *)
(* once, and a grid stroke can be undone.  Which positions, meshes and     *)
(* grid domains are resident is invisible.                                 *)
(***************************************************************************)
EXTENDS LevelSurface

CONSTANT MaxLevels

VARIABLES doc,     \* [detail, on, target, owes, level]
          past,    \* grid strokes that can be undone, oldest first
          future,  \* grid strokes that can be redone, next one first
          saved    \* a snapshot of the store

vars == <<doc, past, future, saved>>

Shown(d, l) == Surface(d.detail, d.on, l)
Underlying(d, l) == Stencil[Shown(d, l - 1)]
Owing(d, l) == IF l >= 2 THEN [d EXCEPT !.owes = @ \union {l}] ELSE d

\* Level l is given the surface pos; the channel c takes the difference.
Given(d, l, c, pos) ==
    [d EXCEPT !.detail[l] = Express(@, d.on, c, Underlying(d, l), pos, Verts)]

\* Level l - 1 becomes coarse while level l keeps its own surface.
Refitted(d, l, coarse) ==
    Given(Given(d, l - 1, Base, coarse), l, Base, Shown(d, l))

Paid(d, l) == [d EXCEPT !.owes = @ \ {l}]
Moved(d, l, coarse) ==
    IF coarse = Shown(d, l - 1) THEN Paid(d, l)
    ELSE Owing(Paid(Refitted(d, l, coarse), l), l - 1)
PushedDown(d, l) == Moved(d, l, FullWeight[Shown(d, l)])

\* The levels from ... to + 1 are pushed down, finest first: all of them, or
\* those that owe.
Pushed(d, from, to, all) ==
    LET step(e, l) == IF all \/ l \in e.owes THEN PushedDown(e, l) ELSE e
        f[k \in 0 .. from - to] == IF k = 0 THEN d ELSE step(f[k - 1], from + 1 - k)
    IN  f[from - to]
Settled(d, from, to) == Pushed(d, from, to, FALSE)

Init == /\ \E n \in 1 .. MaxLevels :
              doc = [detail |-> [l \in 1 .. n |-> Plain],
                     on |-> [c \in Layers |-> TRUE], target |-> Base,
                     owes |-> {}, level |-> 0]
        /\ past = <<>> /\ future = <<>>
        /\ saved = [detail |-> <<>>, owes |-> {}]

Levels == 1 .. Len(doc.detail)

KeepOrForget == \/ UNCHANGED <<past, future>>
                \/ past' = <<>> /\ future' = <<>>

\* Level l is given whatever surface it then shows.
Reshape(l) ==
    /\ doc' = Owing(Given(doc, l, doc.target, Shown(doc', l)), l)
    /\ KeepOrForget /\ UNCHANGED saved

\* A grid stroke at l; what it replaces is kept.
Stroke(l) ==
    /\ doc' = Owing(Given(doc, l, doc.target, Shown(doc', l)), l)
    /\ past' = Append(past, [level |-> l, chan |-> doc.target,
                             disp |-> doc.detail[l][doc.target],
                             pre |-> l \in doc.owes, post |-> l \in doc'.owes])
    /\ future' = <<>>
    /\ UNCHANGED saved

\* Swap a step with the document; level l owes as it did on that side.
Swapped(step, owing) ==
    [doc EXCEPT !.detail[step.level][step.chan] = step.disp,
                !.owes = IF owing THEN @ \union {step.level} ELSE @ \ {step.level}]
OtherSide(step) == [step EXCEPT !.disp = doc.detail[step.level][step.chan]]

Undo == /\ past # <<>> /\ past[Len(past)].level \in Levels
        /\ LET s == past[Len(past)]
           IN  /\ doc' = Swapped(s, s.pre)
               /\ future' = <<OtherSide(s)>> \o future
        /\ past' = SubSeq(past, 1, Len(past) - 1)
        /\ UNCHANGED saved

Redo == /\ future # <<>> /\ Head(future).level \in Levels
        /\ LET s == Head(future)
           IN  /\ doc' = Swapped(s, s.post)
               /\ past' = Append(past, OtherSide(s))
        /\ future' = Tail(future)
        /\ UNCHANGED saved

\* History is bounded, and given up when the grid domain it belongs to goes.
Forget == /\ UNCHANGED <<doc, saved>>
          /\ \/ past' = <<>> /\ future' = <<>>
             \/ future' = <<>> /\ UNCHANGED past
             \/ past # <<>> /\ past' = Tail(past) /\ UNCHANGED future

Switch(to, propagate) ==
    /\ doc' = [(IF propagate /\ doc.level > to THEN Settled(doc, doc.level, to) ELSE doc)
                  EXCEPT !.level = to]
    /\ KeepOrForget /\ UNCHANGED saved

LeftAlone(d, l, coarse) ==
    IF coarse = Shown(d, l - 1) THEN d ELSE Moved(d, l, coarse)

DownRefit(l) ==
    /\ l >= 2
    /\ doc' = LeftAlone(doc, l, LeastSquares[Shown(doc, l)])
    /\ KeepOrForget /\ UNCHANGED saved

\* Level l is given a surface, and every coarser level a summary of it.
Summarized(d, l, p) ==
    IF p = Shown(d, l) THEN d
    ELSE Pushed(Owing(Given(d, l, d.target, p), l), l, 1, TRUE)
Arrived(d, l) == [(IF d.level > l THEN Settled(d, d.level, l) ELSE d) EXCEPT !.level = l]

Import(l) ==
    /\ doc' = Summarized(Arrived(doc, l), l, Shown(doc', l))
    /\ KeepOrForget /\ UNCHANGED saved

\* The same without the summaries, into the base channel.
Seed(l) ==
    /\ doc' = Owing(Given(doc, l, Base, Shown(doc', l)), l)
    /\ KeepOrForget /\ UNCHANGED saved

\* The base channel of a level moves to the vector displacement map.
Capture(l) == /\ doc' = [doc EXCEPT !.detail[l][Base] = Flat]
              /\ KeepOrForget /\ UNCHANGED saved

AddLevel == /\ Len(doc.detail) < MaxLevels
            /\ doc' = [doc EXCEPT !.detail = Append(@, Plain), !.level = Len(doc.detail) + 1]
            /\ KeepOrForget /\ UNCHANGED saved

RemoveLevel ==
    LET n == Len(doc.detail)
    IN  /\ n > 1
        /\ doc' = [doc EXCEPT !.detail = SubSeq(@, 1, n - 1), !.owes = @ \ {n},
                              !.level = IF @ = n THEN n - 1 ELSE @]
        /\ KeepOrForget /\ UNCHANGED saved

SetMix(c) == /\ doc' = [doc EXCEPT !.on[c] = ~@,
                                   !.target = IF @ = c THEN Base ELSE @]
             /\ KeepOrForget /\ UNCHANGED saved

SetTarget(c) == /\ doc' = [doc EXCEPT !.target = c,
                                      !.on = [k \in Layers |-> @[k] \/ k = c]]
                /\ KeepOrForget /\ UNCHANGED saved

Save == /\ saved' = [detail |-> doc.detail, owes |-> doc.owes]
        /\ UNCHANGED <<doc, past, future>>

Restore == /\ Len(saved.detail) = Len(doc.detail)
           /\ doc' = [doc EXCEPT !.detail = saved.detail, !.owes = saved.owes, !.level = 0]
           /\ KeepOrForget /\ UNCHANGED saved

Next == \/ /\ Len(doc'.detail) = Len(doc.detail)
           /\ \E l \in Levels : \/ Reshape(l) \/ Stroke(l) \/ DownRefit(l)
                                \/ Import(l) \/ Seed(l) \/ Capture(l)
                                \/ \E b \in BOOLEAN : Switch(l, b)
        \/ Undo \/ Redo \/ Forget \/ AddLevel \/ RemoveLevel \/ Save \/ Restore
        \/ \E c \in Layers : SetMix(c)
        \/ \E c \in Channels : SetTarget(c)

Spec == Init /\ [][Next]_vars
=============================================================================
