----------------------------- MODULE GridsStore -----------------------------
(***************************************************************************)
(* The channel store of a multires stack: named channels, one block of     *)
(* samples per level and grid.  A vertex on a seam has one sample in every *)
(* grid it occurs in.  A sample of level l is a tuple of l numbers modulo  *)
(* M: the value at the coincident site of each level up to l, so that      *)
(* prolongation is linear, injection is its left inverse and averaging is not. *)
(***************************************************************************)
EXTENDS Integers, SequencesExt

CONSTANTS Verts,    \* vertices of the surface
          Grids,    \* grids of the store
          Occ,      \* the grids each vertex occurs in
          M         \* samples are counted modulo M

ASSUME StoreAssumption ==
    /\ M \in Nat \ {0}
    /\ Occ \in [Verts -> (SUBSET Grids) \ {{}}]

Sites == {s \in Grids \X Verts : s[1] \in Occ[s[2]]}
Sample(l) == [1 .. l -> 0 .. M - 1]
Zero(l) == [k \in 1 .. l |-> 0]
Blank(l) == [s \in Sites |-> Zero(l)]

Prolonged(x) == Append(x, Last(x))
Injected(x) == Front(x)
Averaged(x) == [k \in 1 .. Len(x) - 1 |-> (x[k] + Last(x)) % M]
Added(x, d) == [k \in DOMAIN x |-> (x[k] + d[k]) % M]
Less(x, y) == [k \in DOMAIN x |-> (x[k] - y[k]) % M]
-----------------------------------------------------------------------------
(* A level of a channel holds nothing, chunks, or one compressed blob.     *)

FindChannel(s, n) == IF \E c \in DOMAIN s : s[c].name = n
                     THEN CHOOSE c \in DOMAIN s : s[c].name = n ELSE 0

Allocated(s, l, c) == s[c].levels[l].held # "none"

\* elem(): an evicted level is rehydrated, an empty one is allocated.
Touched(ch, l) == [ch EXCEPT !.levels[l].held = "chunks"]

EachChannel(s, F(_)) == [c \in DOMAIN s |-> F(s[c])]
EachLevel(s, F(_, _)) ==
    [c \in DOMAIN s |-> [s[c] EXCEPT !.levels = [l \in DOMAIN s[c].levels |-> F(c, l)]]]

\* The levels ls of every channel that hold the one hold the other.
Reheld(s, ls, one, other) ==
    LET lev(c, l) == IF l \in ls /\ s[c].levels[l].held = one
                     THEN [s[c].levels[l] EXCEPT !.held = other] ELSE s[c].levels[l]
    IN  EachLevel(s, lev)

EvictLevels(s, ls) == Reheld(s, ls, "chunks", "blob")
EnsureResident(s, ls) == Reheld(s, ls, "blob", "chunks")
EnsureAll(s) == EnsureResident(s, DOMAIN s[1].levels)

AllocLevel(rule, l, tok) ==
    [tok |-> tok, owes |-> FALSE, val |-> Blank(l),
     held |-> IF rule = "authored" THEN "none" ELSE "chunks"]

\* A channel and each of its levels get an incarnation of their own.
NewChannel(n, type, rule, persist, depth, tok) ==
    [name |-> n, type |-> type, rule |-> rule, persist |-> persist, tok |-> tok,
     levels |-> [l \in 1 .. depth |-> AllocLevel(rule, l, tok + l)]]

\* The channels after it move down by one.
RemoveChannel(s, c) == IF c < 2 THEN s ELSE RemoveAt(s, c)
-----------------------------------------------------------------------------
(* Level transitions.                                                      *)

\* Levels are the ones of one channel.
SeededFromBelow(levels, l) ==
    IF l < 2 \/ levels[l - 1].held = "none" THEN levels
    ELSE [levels EXCEPT ![l].val = [x \in Sites |-> Prolonged(levels[l - 1].val[x])],
                        ![l].held = "chunks", ![l - 1].held = "chunks"]

\* Mutant: the finest level is brought down as an average.
AveragedToBelow(levels, l) ==
    IF l < 2 \/ levels[l].held = "none" THEN levels
    ELSE [levels EXCEPT ![l - 1].val = [x \in Sites |-> Averaged(levels[l].val[x])],
                        ![l].held = "chunks", ![l - 1].held = "chunks"]

RestrictedToBelow(levels, l) ==
    IF l < 2 \/ levels[l].held = "none" THEN levels
    ELSE [levels EXCEPT ![l - 1].val = [x \in Sites |-> Injected(levels[l].val[x])],
                        ![l].held = "chunks", ![l - 1].held = "chunks"]

AddLevel(s, depth, tok) ==
    LET grown(ch) == Append(ch.levels, AllocLevel(ch.rule, depth + 1, tok))
        added(ch) == [ch EXCEPT !.levels = IF ch.rule = "authored"
                                           THEN SeededFromBelow(grown(ch), depth + 1)
                                           ELSE grown(ch)]
    IN  EachChannel(s, added)

\* A dropped level leaves its debt to the level below.
DropTopLevel(s, depth) ==
    LET down(ch) == IF ch.rule = "authored" THEN RestrictedToBelow(ch.levels, depth)
                    ELSE ch.levels
        dropped(ch) == [ch EXCEPT !.levels =
                          Front(IF depth >= 2 /\ ch.levels[depth].owes
                                THEN [down(ch) EXCEPT ![depth - 1].owes = TRUE] ELSE down(ch))]
    IN  EachChannel(s, dropped)

\* Full weighting for numbers, injection for anything else.
RestrictChannelDown(ch, l) ==
    IF ch.levels[l].held = "none" THEN ch
    ELSE IF ch.type # "float" THEN [ch EXCEPT !.levels = RestrictedToBelow(@, l)]
    ELSE [ch EXCEPT !.levels[l - 1].val = [x \in Sites |-> Averaged(ch.levels[l].val[x])],
                    !.levels[l].held = "chunks", !.levels[l - 1].held = "chunks"]

\* What changed at a level is added to every finer one; one that holds nothing
\* takes all of the level below it.
ProlongateEditUp(ch, l, delta) ==
    LET depth == Len(ch.levels)
        up(x, n) == [k \in 1 .. n |-> IF k <= l THEN delta[x][k] ELSE delta[x][l]]
        step(levels, n) ==
          IF levels[n].held = "none" THEN SeededFromBelow(levels, n)
          ELSE [levels EXCEPT ![n].val = [x \in Sites |-> Added(@[x], up(x, n))],
                              ![n].held = "chunks"]
        upto[n \in l .. depth] == IF n = l THEN ch.levels ELSE step(upto[n - 1], n)
    IN  IF ch.type # "float" \/ l >= depth \/ \A x \in Sites : delta[x] = Zero(l) THEN ch
        ELSE [ch EXCEPT !.levels = upto[depth]]
=============================================================================
