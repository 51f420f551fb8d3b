----------------------------- MODULE MCPadMerge -----------------------------
(***************************************************************************)
(* Two devices edit copies of one pad, a block at a time, and the copies   *)
(* are merged.                                                             *)
(***************************************************************************)
EXTENDS PadMerge, FiniteSets, TLC

CONSTANTS
    MaxLines,   \* lines of the pad both start from
    MaxEdits    \* edits of the two devices together

ASSUME PadBounds == {MaxLines, MaxEdits, MaxCells} \subseteq Nat

VARIABLES base, ours, theirs, edits

vars == <<base, ours, theirs, edits>>

Init ==
    /\ base \in Pads(MaxLines)
    /\ ours = base
    /\ theirs = base
    /\ edits = 0

EditOurs ==
    /\ edits < MaxEdits
    /\ ours' \in Edits(ours, Line)
    /\ edits' = edits + 1
    /\ UNCHANGED <<base, theirs>>

EditTheirs ==
    /\ edits < MaxEdits
    /\ theirs' \in Edits(theirs, Line)
    /\ edits' = edits + 1
    /\ UNCHANGED <<base, ours>>

Next == EditOurs \/ EditTheirs

Spec == Init /\ [][Next]_vars
-----------------------------------------------------------------------------
Merged == Merge(base, ours, theirs)

\* A pad that tells its blocks apart.
Distinct(ls) == Cardinality(Leaves(ls)) = Len(ls)

AllDistinct == \A ls \in {base, ours, theirs} : Distinct(ls)

\* A block that either device wrote is in the merge, conflict or not: it "never
\* drops what either device wrote" (merge.go:10-11).  So is a block that both
\* still have, when the base says nothing twice.
WrittenStays ==
    /\ (Leaves(ours) \cup Leaves(theirs)) \ Leaves(base) \subseteq Leaves(Merged)
    /\ Distinct(base) => Leaves(ours) \cap Leaves(theirs) \subseteq Leaves(Merged)

\* A block that neither device has any more does not come back (Merge and side).
NothingReturns == Leaves(Merged) \subseteq Leaves(ours) \cup Leaves(theirs)

Flat(ls) == \A n \in DOMAIN ls : ls[n].box = "none"

\* The lines that two pads have in common are in the same order in both.
SameOrder(a, b) ==
    SelectSeq(a, LAMBDA l : Contains(b, l)) = SelectSeq(b, LAMBDA l : Contains(a, l))

\* One side wrote between two blocks that the other took out together.
WroteWithin(ls, other) ==
    \E n \in 1..(Len(base) - 1) :
        /\ {base[n].leaf, base[n + 1].leaf} \cap Leaves(other) = {}
        /\ \A k \in 1..(Len(ls) - 1) : <<ls[k], ls[k + 1]>> # <<base[n], base[n + 1]>>

\* The two touched different blocks, none of them in a list: no block of the
\* base was taken out by both, none was written by both, none was moved, and
\* neither wrote into what the other took out.
Apart ==
    /\ AllDistinct
    /\ \A ls \in {base, ours, theirs} : Flat(ls) /\ SameOrder(base, ls)
    /\ Leaves(base) \subseteq Leaves(ours) \cup Leaves(theirs)
    /\ Leaves(ours) \cap Leaves(theirs) \subseteq Leaves(base)
    /\ ~WroteWithin(ours, theirs) /\ ~WroteWithin(theirs, ours)

\* Edits to different blocks both apply (merge.go:9): exactly the blocks that
\* either wrote or both kept are there, once each, in the order of each side.
BothApply ==
    Apart =>
        /\ Leaves(Merged) =
               (Leaves(ours) \cup Leaves(theirs)) \ (Leaves(base) \ (Leaves(ours) \cap Leaves(theirs)))
        /\ Distinct(Merged)
        /\ SameOrder(ours, Merged)
        /\ SameOrder(theirs, Merged)

Symmetry == Permutations(Leaf)
=============================================================================
