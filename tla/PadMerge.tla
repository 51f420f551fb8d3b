------------------------------ MODULE PadMerge ------------------------------
(***************************************************************************)
(* The three-way merge of the sketchpad, as operators: the desktop's       *)
(* (internal/app/sketchpad/merge.go) and the phone's, its port line by     *)
(* line (mobile/src/sync/sketchpad-merge.ts), whose lines are the ones     *)
(* named.  A pad is merged as a list of lines, one per leaf block,         *)
(* each saying how it stands to the container around it: in none, the      *)
(* first of one, or inside the one the line before it is in.  One level of *)
(* containers stands for all of them, and their attributes are left out.   *)
(***************************************************************************)
EXTENDS Naturals, Sequences, FiniteSets, SequencesExt

CONSTANTS
    Leaf,       \* what a leaf block says
    MaxCells    \* maxCells: middles larger than this are replaced whole

Line == [box : {"none", "opens", "inside"}, leaf : Leaf]

\* s[from:to], counted from 0.
Slice(s, from, to) == SubSeq(s, from + 1, to)

\* The elements of a list that are in the set, in the order they have there.
Among(list, set) ==
    LET kept[n \in 0..Len(list)] ==
            IF n = 0 THEN <<>>
            ELSE IF list[n] \in set THEN Append(kept[n - 1], list[n]) ELSE kept[n - 1]
    IN  kept[Len(list)]

\* render, and lines of the result: a line inside a container that the line
\* before it is not in opens one of its own.
Render(ls) ==
    [n \in DOMAIN ls |->
        IF ls[n].box = "inside" /\ (n = 1 \/ ls[n - 1].box = "none")
        THEN [ls[n] EXCEPT !.box = "opens"] ELSE ls[n]]

\* What one edit in the window makes of a pad: a line of new typed in, a line
\* taken out, or one of new written over another.
Edits(ls, new) ==
    {Render(InsertAt(ls, n, l)) : n \in 1..(Len(ls) + 1), l \in new}
        \cup {Render(RemoveAt(ls, n)) : n \in DOMAIN ls}
        \cup {Render(ReplaceAt(ls, n, l)) : n \in DOMAIN ls, l \in new}

Leaves(ls) == {ls[n].leaf : n \in DOMAIN ls}

\* The leaves that such an edit takes out, even if another line says the same.
TakenOut(old, new) ==
    LET count(ls, x) == Cardinality({n \in DOMAIN ls : ls[n].leaf = x})
    IN {x \in Leaves(old) : count(new, x) < count(old, x)}

\* The pads of at most n lines that a device may start from.
Pads(n) == {ls \in UNION {[1..k -> Line] : k \in 0..n} : Render(ls) = ls}

\* diff: the hunks that turn a into b, the gaps between the lines a longest
\* common subsequence pairs.  A common prefix and suffix are paired first.
Hunk(b0, b1, s0, s1, theirs) ==
    [b0 |-> b0, b1 |-> b1, s0 |-> s0, s1 |-> s1, theirs |-> theirs]

Shorter(a, b) == IF Len(a) <= Len(b) THEN Len(a) ELSE Len(b)

LongerOf(s, t) == IF Len(s) >= Len(t) THEN s ELSE t

Prefix(a, b) ==
    CHOOSE n \in 0..Shorter(a, b) :
        /\ Slice(a, 0, n) = Slice(b, 0, n)
        /\ n < Shorter(a, b) => a[n + 1] # b[n + 1]

\* The lines paired between a[pre:n] and b[pre:m], as the code walks them: on to
\* the next line of a where either way leads to as many pairs.
Paired(a, b, pre, n, m) ==
    LET pairs[p \in (pre..n) \X (pre..m)] ==
            IF p[1] = n \/ p[2] = m THEN <<>>
            ELSE IF a[p[1] + 1] = b[p[2] + 1] THEN <<p>> \o pairs[<<p[1] + 1, p[2] + 1>>]
            ELSE LongerOf(pairs[<<p[1] + 1, p[2]>>], pairs[<<p[1], p[2] + 1>>])
    IN IF (n - pre) * (m - pre) > MaxCells THEN <<>> ELSE pairs[<<pre, pre>>]

\* What stands between pairs, the ends of the two middles being one more.
Gaps(pairs, pre, theirs) ==
    LET after(k) == IF k = 1 THEN <<pre, pre>>
                    ELSE <<pairs[k - 1][1] + 1, pairs[k - 1][2] + 1>>
        gap(from, to) == Hunk(from[1], to[1], from[2], to[2], theirs)
        gaps == [k \in DOMAIN pairs |-> gap(after(k), pairs[k])]
    IN Among(gaps, {h \in Range(gaps) : h.b0 < h.b1 \/ h.s0 < h.s1})

DiffBetween(a, b, pre, suf, theirs) ==
    Gaps(Append(Paired(a, b, pre, Len(a) - suf, Len(b) - suf),
                <<Len(a) - suf, Len(b) - suf>>), pre, theirs)

Diff(a, b, theirs) ==
    LET pre == Prefix(a, b)
    IN DiffBetween(a, b, pre, Prefix(Reverse(Slice(a, pre, Len(a))),
                                     Reverse(Slice(b, pre, Len(b)))), theirs)

\* By where a hunk starts in the base, an insertion before a change, ours
\* before theirs.
Inserts(h) == h.b0 = h.b1

Before(g, h) ==
    \/ g.b0 < h.b0
    \/ g.b0 = h.b0 /\ Inserts(g) /\ ~Inserts(h)
    \/ g.b0 = h.b0 /\ Inserts(g) = Inserts(h) /\ ~g.theirs /\ h.theirs

\* A hunk put in its place among hunks that are in order.
Placed(hunks, h) ==
    LET n == CHOOSE n \in 0..Len(hunks) :
                /\ \A i \in 1..n : Before(hunks[i], h)
                /\ n < Len(hunks) => ~Before(hunks[n + 1], h)
    IN  SubSeq(hunks, 1, n) \o <<h>> \o SubSeq(hunks, n + 1, Len(hunks))

Sorted(hunks) ==
    LET sorted[n \in 0..Len(hunks)] ==
            IF n = 0 THEN <<>> ELSE Placed(sorted[n - 1], hunks[n])
    IN  sorted[Len(hunks)]

\* Slip: a change next to the group joins it.
JoinsNext(h, group) == h.b0 <= group.g1

\* joins: the hunk starts inside the group, or both are insertions at one place.
Joins(h, group) ==
    \/ h.b0 < group.g1
    \/ group.g0 = group.g1 /\ h.b0 = group.g0 /\ Inserts(h)

Larger(x, y) == IF x >= y THEN x ELSE y

\* The hunks in order, gathered into groups that touch the same lines.
Joined(group, h) ==
    [g0 |-> group.g0, g1 |-> Larger(group.g1, h.b1), hunks |-> Append(group.hunks, h)]

Gathered(groups, h) ==
    IF groups # <<>> /\ Joins(h, Last(groups))
    THEN Append(Front(groups), Joined(Last(groups), h))
    ELSE Append(groups, [g0 |-> h.b0, g1 |-> h.b1, hunks |-> <<h>>])

Groups(hunks) ==
    LET gathered[n \in 0..Len(hunks)] ==
            IF n = 0 THEN <<>> ELSE Gathered(gathered[n - 1], hunks[n])
    IN  gathered[Len(hunks)]

\* How far a copy of the base has come, and the rest of it up to a line.
Upto(base, at, end) == at.out \o Slice(base, at.pos, end)

\* Slip: what a hunk replaces stays.
TakenKeeping(base, ls, at, h) ==
    [out |-> Upto(base, at, h.b0) \o Slice(ls, h.s0, h.s1), pos |-> h.b0]

SideKeeping(base, ls, group, theirs) ==
    LET side[n \in 0..Len(group.hunks)] ==
            IF n = 0 THEN [out |-> <<>>, pos |-> group.g0]
            ELSE IF group.hunks[n].theirs # theirs THEN side[n - 1]
            ELSE TakenKeeping(base, ls, side[n - 1], group.hunks[n])
    IN  Upto(base, side[Len(group.hunks)], group.g1)

\* side: one side's version of base[g0:g1].
Taken(base, ls, at, h) ==
    [out |-> Upto(base, at, h.b0) \o Slice(ls, h.s0, h.s1), pos |-> h.b1]

Side(base, ls, group, theirs) ==
    LET side[n \in 0..Len(group.hunks)] ==
            IF n = 0 THEN [out |-> <<>>, pos |-> group.g0]
            ELSE IF group.hunks[n].theirs # theirs THEN side[n - 1]
            ELSE Taken(base, ls, side[n - 1], group.hunks[n])
    IN  Upto(base, side[Len(group.hunks)], group.g1)

\* Slip: on a conflict ours stands alone.
ResolveOurs(base, ours, theirs) ==
    IF ours = theirs \/ theirs = base THEN ours
    ELSE IF ours = base THEN theirs
    ELSE ours

\* resolve: on a conflict ours stands, and the lines only theirs wrote follow.
Resolve(base, ours, theirs) ==
    IF ours = theirs \/ theirs = base THEN ours
    ELSE IF ours = base THEN theirs
    ELSE ours \o Among(theirs, Range(theirs) \ (Range(base) \cup Range(ours)))

Settled(base, ours, theirs, at, g) ==
    [out |-> Upto(base, at, g.g0)
             \o Resolve(Slice(base, g.g0, g.g1),
                        Side(base, ours, g, FALSE), Side(base, theirs, g, TRUE)),
     pos |-> g.g1]

Merge3(base, ours, theirs) ==
    LET groups == Groups(Sorted(Diff(base, ours, FALSE) \o Diff(base, theirs, TRUE)))
        settled[n \in 0..Len(groups)] ==
            IF n = 0 THEN [out |-> <<>>, pos |-> 0]
            ELSE Settled(base, ours, theirs, settled[n - 1], groups[n])
    IN  Upto(base, settled[Len(groups)], Len(base))

Merge(base, ours, theirs) ==
    IF ours = theirs \/ theirs = base THEN ours
    ELSE IF ours = base THEN theirs
    ELSE Render(Merge3(base, ours, theirs))
=============================================================================
